----------------------- MODULE LatencyTracker_proofs -----------------------
(***************************************************************************)
(* Proofs about LatencyTracker, for every capacity, every set of latencies *)
(* and any number of records.                                              *)
(***************************************************************************)
EXTENDS LatencyTracker, FiniteSetTheorems, SequenceTheorems,
        NaturalsInduction, WellFoundedInduction, TLAPS

USE MaxSamplesAssumption, LatenciesAssumption, MaxOutputPointsAssumption, MaxTimeAssumption

(***************************************************************************)
(* Indices.                                                                *)
(***************************************************************************)
LEMMA ModIdentity ==
    ASSUME NEW a \in Slots
    PROVE  /\ a % MaxSamples = a
           /\ (a + MaxSamples) % MaxSamples = a
BY DEF Slots

LEMMA HeadMoves ==
    ASSUME NEW h \in Slots
    PROVE  (h + 1) % MaxSamples = IF h = MaxSamples - 1 THEN 0 ELSE h + 1
BY DEF Slots

(* Where the i-th of the newest n samples is, seen from a head h. *)
Offset(h, n, i) ==
    IF h - n + (i - 1) >= 0 THEN h - n + (i - 1)
    ELSE h - n + (i - 1) + MaxSamples

LEMMA SlotOffset ==
    ASSUME NEW h \in Slots, NEW n \in 0..MaxSamples, NEW i \in 1..n
    PROVE  /\ Offset(h, n, i) \in Slots
           /\ (h - n + (i - 1) + MaxSamples) % MaxSamples = Offset(h, n, i)
<1>1. CASE h - n + (i - 1) >= 0
  <2>1. h - n + (i - 1) \in Slots
    BY <1>1 DEF Slots
  <2> QED BY <1>1, <2>1, ModIdentity DEF Offset
<1>2. CASE h - n + (i - 1) < 0
  <2>1. h - n + (i - 1) + MaxSamples \in Slots
    BY <1>2 DEF Slots
  <2> QED BY <1>2, <2>1, ModIdentity DEF Offset, Slots
<1> QED BY <1>1, <1>2 DEF Slots

(***************************************************************************)
(* One record, seen through the slots.                                     *)
(***************************************************************************)
Shape ==
    /\ now \in 0..MaxTime
    /\ samples \in [Slots -> Sample \cup {Zero}]
    /\ head \in Slots
    /\ count \in 0..MaxSamples
    /\ \A i \in 1..count : Newest(count)[i] \in Sample

Stamped(ms, ok) == [at |-> now, ms |-> ms, ok |-> ok]

LEMMA NewestIs ==
    ASSUME head \in Slots, NEW n \in 0..MaxSamples
    PROVE  /\ Newest(n) = [i \in 1..n |-> samples[Offset(head, n, i)]]
           /\ DOMAIN Newest(n) = 1..n
BY SlotOffset DEF Newest, Slot

(* The samples that stay keep their slot, and the new one is the last.     *)
LEMMA RecordMoves ==
    ASSUME Shape, NEW ms \in Latencies, NEW ok \in BOOLEAN, RecordAt(ms, ok)
    PROVE  /\ Stamped(ms, ok) \in Sample
           /\ samples' \in [Slots -> Sample \cup {Zero}]
           /\ head' \in Slots /\ count' \in 1..MaxSamples
           /\ count' = IF count = MaxSamples THEN count ELSE count + 1
           /\ \A i \in 1..(count' - 1) :
                 Newest(count)'[i] =
                    IF count = MaxSamples THEN Newest(count)[i + 1]
                    ELSE Newest(count)[i]
           /\ Newest(count)'[count'] = Stamped(ms, ok)
           /\ Newest(count)' = [i \in 1..count' |-> Newest(count)'[i]]
<1> USE DEF Shape
<1>1. Stamped(ms, ok) \in Sample
  BY DEF Stamped, Sample
<1>2. /\ samples' = [samples EXCEPT ![head] = Stamped(ms, ok)]
      /\ head' = IF head = MaxSamples - 1 THEN 0 ELSE head + 1
      /\ count' = IF count = MaxSamples THEN count ELSE count + 1
  BY HeadMoves DEF RecordAt, Stamped
<1>3. /\ samples' \in [Slots -> Sample \cup {Zero}]
      /\ head' \in Slots /\ count' \in 1..MaxSamples
  BY <1>1, <1>2 DEF Slots
<1>4. /\ Newest(count)' = [i \in 1..count' |-> samples'[Offset(head', count', i)]]
  <2>1. \A i \in 1..count' :
           (head' - count' + (i - 1) + MaxSamples) % MaxSamples
              = Offset(head', count', i)
    BY <1>3, SlotOffset
  <2> QED BY <2>1 DEF Newest, Slot
<1>5. Offset(head', count', count') = head
  BY <1>2, <1>3 DEF Offset, Slots
<1>6. Newest(count)'[count'] = Stamped(ms, ok)
  BY <1>2, <1>3, <1>4, <1>5
<1>9. \A i \in 1..(count' - 1) : i \in 1..count'
  <2>1. \A c \in Nat : \A i \in 1..(c - 1) : i \in 1..c
    OBVIOUS
  <2>2. count' \in Nat
    BY <1>3
  <2> QED BY <2>1, <2>2
<1>7. ASSUME NEW i \in 1..(count' - 1)
      PROVE  Newest(count)'[i] = IF count = MaxSamples THEN Newest(count)[i + 1]
                                 ELSE Newest(count)[i]
  <2>a. i \in 1..count'
    BY <1>9
  <2>0. Newest(count)'[i] = samples'[Offset(head', count', i)]
    BY <2>a, <1>4
  <2>1. CASE count = MaxSamples
    <3>1. Offset(head', count', i) = Offset(head, count, i + 1)
      BY <1>2, <1>3, <2>1 DEF Offset, Slots
    <3>2. Offset(head, count, i + 1) # head
      BY <1>2, <2>1 DEF Offset, Slots
    <3>3. i + 1 \in 1..count /\ Offset(head, count, i + 1) \in Slots
      BY <1>2, <2>1, SlotOffset
    <3>4. samples'[Offset(head, count, i + 1)] = samples[Offset(head, count, i + 1)]
      BY <1>2, <3>2, <3>3
    <3> QED BY <2>0, <2>1, <3>1, <3>3, <3>4, NewestIs
  <2>2. CASE count # MaxSamples
    <3>1. Offset(head', count', i) = Offset(head, count, i)
      BY <1>2, <1>3, <2>2 DEF Offset, Slots
    <3>2. Offset(head, count, i) # head
      BY <1>2, <2>2 DEF Offset, Slots
    <3>3. i \in 1..count /\ Offset(head, count, i) \in Slots
      BY <1>2, <2>2, SlotOffset
    <3>4. samples'[Offset(head, count, i)] = samples[Offset(head, count, i)]
      BY <1>2, <3>2, <3>3
    <3> QED BY <2>0, <2>2, <3>1, <3>3, <3>4, NewestIs
  <2> QED BY <2>1, <2>2
<1>8. Newest(count)' = [i \in 1..count' |-> Newest(count)'[i]]
  BY <1>4
<1> QED BY <1>1, <1>2, <1>3, <1>6, <1>7, <1>8

LEMMA InitShape == Init => Shape
<1> SUFFICES ASSUME Init PROVE Shape
  OBVIOUS
<1>1. samples \in [Slots -> Sample \cup {Zero}]
  BY DEF Init
<1> QED BY <1>1 DEF Init, Shape, Slots

LEMMA NextShape == Shape /\ [Next]_vars => Shape'
<1> SUFFICES ASSUME Shape, [Next]_vars PROVE Shape'
  OBVIOUS
<1>1. ASSUME NEW ms \in Latencies, NEW ok \in BOOLEAN, RecordAt(ms, ok)
      PROVE  Shape'
  <2>1. /\ Stamped(ms, ok) \in Sample
        /\ samples' \in [Slots -> Sample \cup {Zero}]
        /\ head' \in Slots /\ count' \in 1..MaxSamples
        /\ count' = IF count = MaxSamples THEN count ELSE count + 1
        /\ \A i \in 1..(count' - 1) :
              Newest(count)'[i] =
                 IF count = MaxSamples THEN Newest(count)[i + 1]
                 ELSE Newest(count)[i]
        /\ Newest(count)'[count'] = Stamped(ms, ok)
    BY <1>1, RecordMoves
  <2>2. \A i \in 1..count : Newest(count)[i] \in Sample
    BY DEF Shape
  <2>3. ASSUME NEW i \in 1..count' PROVE Newest(count)'[i] \in Sample
    <3>1. CASE i = count'
      BY <2>1, <3>1
    <3>2. CASE i # count' /\ count = MaxSamples
      <4>1. i \in 1..(count' - 1) /\ i + 1 \in 1..count
        BY <2>1, <3>2 DEF Shape
      <4> QED BY <2>1, <2>2, <3>2, <4>1
    <3>3. CASE i # count' /\ count # MaxSamples
      <4>1. i \in 1..(count' - 1) /\ i \in 1..count
        BY <2>1, <3>3 DEF Shape
      <4> QED BY <2>1, <2>2, <3>3, <4>1
    <3> QED BY <3>1, <3>2, <3>3
  <2>4. now' \in 0..MaxTime
    BY <1>1 DEF RecordAt, Shape
  <2> QED BY <2>1, <2>3, <2>4 DEF Shape
<1>2. CASE Tick
  BY <1>2 DEF Tick, Shape, Newest, Slot
<1>3. CASE UNCHANGED vars
  BY <1>3 DEF vars, Shape, Newest, Slot
<1> QED BY <1>1, <1>2, <1>3 DEF Next

LEMMA ShapeInductive == Spec => []Shape
BY InitShape, NextShape, PTL DEF Spec

(***************************************************************************)
(* The ring implements the window of the newest samples.                   *)
(***************************************************************************)
LEMMA RecordPushes ==
    ASSUME Shape, NEW ms \in Latencies, NEW ok \in BOOLEAN, RecordAt(ms, ok)
    PROVE  Newest(count)' =
              Append(IF Len(Newest(count)) < MaxSamples THEN Newest(count)
                     ELSE Tail(Newest(count)), Stamped(ms, ok))
<1> DEFINE old == Newest(count)
<1>1. /\ old = [i \in 1..count |-> old[i]] /\ \A i \in 1..count : old[i] \in Sample
      /\ count \in Nat
  BY NewestIs DEF Shape
<1>2. old \in Seq(Sample) /\ Len(old) = count
  BY <1>1
<1>3. /\ Stamped(ms, ok) \in Sample /\ count' \in 1..MaxSamples
      /\ count' = IF count = MaxSamples THEN count ELSE count + 1
      /\ \A i \in 1..(count' - 1) :
            Newest(count)'[i] = IF count = MaxSamples THEN old[i + 1] ELSE old[i]
      /\ Newest(count)'[count'] = Stamped(ms, ok)
      /\ Newest(count)' = [i \in 1..count' |-> Newest(count)'[i]]
  BY RecordMoves
<1> HIDE DEF old
<1>4. CASE count = MaxSamples
  <2>1. /\ Tail(old) \in Seq(Sample) /\ Len(Tail(old)) = count - 1
        /\ \A i \in 1..(count - 1) : Tail(old)[i] = old[i + 1]
    BY <1>2, <1>3, <1>4
  <2>2. /\ Append(Tail(old), Stamped(ms, ok)) =
             [i \in 1..count |-> Append(Tail(old), Stamped(ms, ok))[i]]
        /\ \A i \in 1..(count - 1) :
              Append(Tail(old), Stamped(ms, ok))[i] = old[i + 1]
        /\ Append(Tail(old), Stamped(ms, ok))[count] = Stamped(ms, ok)
    <3> DEFINE t == Tail(old)
    <3>1. t \in Seq(Sample) /\ Len(t) = count - 1
      BY <2>1
    <3> HIDE DEF t
    <3>2. /\ Append(t, Stamped(ms, ok)) \in Seq(Sample)
          /\ Len(Append(t, Stamped(ms, ok))) = Len(t) + 1
          /\ \A i \in 1..Len(t) : Append(t, Stamped(ms, ok))[i] = t[i]
          /\ Append(t, Stamped(ms, ok))[Len(t) + 1] = Stamped(ms, ok)
      BY <1>3, <3>1, AppendProperties
    <3>4. Len(t) + 1 = count
      BY <1>1, <3>1
    <3>3. Append(t, Stamped(ms, ok)) =
             [i \in 1..count |-> Append(t, Stamped(ms, ok))[i]]
      <4> DEFINE u == Append(t, Stamped(ms, ok))
      <4>1. u \in Seq(Sample) /\ Len(u) = count
        BY <3>2, <3>4
      <4> HIDE DEF u
      <4>2. u = [i \in 1..count |-> u[i]]
        BY <4>1
      <4> QED BY <4>2 DEF u
    <3> QED BY <1>1, <2>1, <3>1, <3>2, <3>3, SMTT(60) DEF t
  <2>3. \A i \in 1..count :
           Newest(count)'[i] = Append(Tail(old), Stamped(ms, ok))[i]
    BY <1>3, <1>4, <2>2
  <2>4. Newest(count)' = Append(Tail(old), Stamped(ms, ok))
    BY <1>3, <1>4, <2>2, <2>3
  <2> QED BY <1>2, <1>4, <2>4 DEF old
<1>5. CASE count # MaxSamples
  <2>2. /\ Append(old, Stamped(ms, ok)) =
             [i \in 1..(count + 1) |-> Append(old, Stamped(ms, ok))[i]]
        /\ \A i \in 1..count : Append(old, Stamped(ms, ok))[i] = old[i]
        /\ Append(old, Stamped(ms, ok))[count + 1] = Stamped(ms, ok)
    <3>1. /\ Append(old, Stamped(ms, ok)) \in Seq(Sample)
          /\ Len(Append(old, Stamped(ms, ok))) = Len(old) + 1
          /\ \A i \in 1..Len(old) : Append(old, Stamped(ms, ok))[i] = old[i]
          /\ Append(old, Stamped(ms, ok))[Len(old) + 1] = Stamped(ms, ok)
      BY <1>2, <1>3, AppendProperties
    <3>2. Append(old, Stamped(ms, ok)) =
             [i \in 1..(count + 1) |-> Append(old, Stamped(ms, ok))[i]]
      BY <1>1, <1>2, <3>1
    <3> QED BY <1>1, <1>2, <3>1, <3>2
  <2>3. \A i \in 1..(count + 1) :
           Newest(count)'[i] = Append(old, Stamped(ms, ok))[i]
    <3> SUFFICES ASSUME NEW i \in 1..(count + 1)
                 PROVE  Newest(count)'[i] = Append(old, Stamped(ms, ok))[i]
      OBVIOUS
    <3>1. CASE i = count + 1
      BY <1>3, <1>5, <2>2, <3>1
    <3>2. CASE i # count + 1
      <4>1. i \in 1..count /\ i \in 1..(count' - 1)
        BY <1>1, <1>3, <1>5, <3>2
      <4> QED BY <1>3, <1>5, <2>2, <4>1
    <3> QED BY <3>1, <3>2
  <2>4. Newest(count)' = Append(old, Stamped(ms, ok))
    BY <1>3, <1>5, <2>2, <2>3
  <2>5. Len(old) < MaxSamples
    BY <1>2, <1>5 DEF Shape
  <2> QED BY <2>4, <2>5 DEF old
<1> QED BY <1>4, <1>5

(* The ring, with its head, its count and its wrap, is the window of the   *)
(* newest samples (WindowKept), for every capacity.                        *)
THEOREM RingIsWindow == Spec => WindowKept
<1>1. Init => Window!WInit
  BY DEF Init, Window!WInit, Newest
<1>2. Shape /\ [Next]_vars => [Window!WNext]_(Newest(count))
  <2> SUFFICES ASSUME Shape, [Next]_vars
               PROVE  Window!WNext \/ UNCHANGED Newest(count)
    OBVIOUS
  <2>1. ASSUME NEW ms \in Latencies, NEW ok \in BOOLEAN, RecordAt(ms, ok)
        PROVE  Window!WNext
    <3>1. Window!Push(Stamped(ms, ok)) /\ Stamped(ms, ok) \in Sample
      BY <2>1, RecordPushes, RecordMoves DEF Window!Push
    <3> QED BY <3>1 DEF Window!WNext
  <2>2. CASE Tick \/ UNCHANGED vars
    BY <2>2 DEF Tick, vars, Newest, Slot
  <2> QED BY <2>1, <2>2 DEF Next
<1> QED BY <1>1, <1>2, ShapeInductive, PTL DEF Spec, WindowKept, Window!WSpec

(***************************************************************************)
(* The failures that are counted are those in the ring.                    *)
(***************************************************************************)

(* A set of positions moves down by one when the oldest sample goes. *)
LEMMA ShiftCounts ==
    ASSUME NEW n \in Nat, NEW A \in SUBSET (1..n),
           NEW B, B = {i \in 1..(n - 1) : i + 1 \in A}
    PROVE  /\ IsFiniteSet(A) /\ IsFiniteSet(B)
           /\ Cardinality(B) = Cardinality(A) - (IF 1 \in A THEN 1 ELSE 0)
<1>1. IsFiniteSet(1..n)
  BY FS_Interval
<1>2. IsFiniteSet(A)
  BY <1>1, FS_Subset
<1>3. /\ IsFiniteSet(A \ {1})
      /\ Cardinality(A \ {1}) = Cardinality(A) - (IF 1 \in A THEN 1 ELSE 0)
  BY <1>2, FS_RemoveElement, FS_CardinalityType
<1> DEFINE f == [i \in A \ {1} |-> i - 1]
<1>4. f \in [A \ {1} -> B]
  OBVIOUS
<1>5. \A i, j \in A \ {1} : f[i] = f[j] => i = j
  OBVIOUS
<1>6. \A b \in B : \E i \in A \ {1} : f[i] = b
  <2> SUFFICES ASSUME NEW b \in B PROVE b + 1 \in A \ {1} /\ f[b + 1] = b
    OBVIOUS
  <2> QED OBVIOUS
<1>7. ExistsBijection(A \ {1}, B)
  <2> HIDE DEF f
  <2> QED BY <1>4, <1>5, <1>6
          DEF ExistsBijection, Bijection, Injection, Surjection, IsInjective
<1> QED BY <1>2, <1>3, <1>7, FS_Bijection

LEMMA FailedFinite ==
    ASSUME Shape
    PROVE  IsFiniteSet(Failed) /\ Cardinality(Failed) \in 0..count
<1>1. IsFiniteSet(1..count) /\ Cardinality(1..count) = count
  BY FS_Interval DEF Shape
<1>2. Failed \in SUBSET (1..count)
  BY DEF Failed
<1>3. IsFiniteSet(Failed) /\ Cardinality(Failed) <= Cardinality(1..count)
  BY <1>1, <1>2, FS_Subset
<1>4. Cardinality(Failed) \in Nat
  BY <1>3, FS_CardinalityType
<1>5. Cardinality(Failed) <= count
  BY <1>1, <1>3
<1> HIDE DEF Failed
<1> QED BY <1>3, <1>4, <1>5 DEF Shape

LEMMA RecordCounts ==
    ASSUME Shape, ErrorsExact, NEW ms \in Latencies, NEW ok \in BOOLEAN,
           RecordAt(ms, ok)
    PROVE  ErrorsExact'
<1> DEFINE old == Newest(count)
           kept == {i \in 1..(count' - 1) : ~Newest(count)'[i].ok}
<1>1. /\ count' \in 1..MaxSamples
      /\ count' = IF count = MaxSamples THEN count ELSE count + 1
      /\ \A i \in 1..(count' - 1) :
            Newest(count)'[i] = IF count = MaxSamples THEN old[i + 1] ELSE old[i]
      /\ Newest(count)'[count'] = Stamped(ms, ok)
  BY RecordMoves
<1>2. count \in 0..MaxSamples /\ head \in Slots /\ MaxSamples \in Nat \ {0}
  BY DEF Shape
<1>3. IsFiniteSet(Failed) /\ Cardinality(Failed) \in Nat
      /\ errorCount = Cardinality(Failed) /\ Failed \in SUBSET (1..count)
  BY <1>2, FailedFinite DEF ErrorsExact, Failed
<1>4. Failed' = IF ok THEN kept ELSE kept \cup {count'}
  <2>1. Failed' = {i \in 1..count' : ~Newest(count)'[i].ok}
    BY DEF Failed
  <2>2. \A c \in Nat \ {0} : 1..c = 1..(c - 1) \cup {c}
    OBVIOUS
  <2>3. 1..count' = 1..(count' - 1) \cup {count'}
    BY <1>1, <2>2
  <2>4. Newest(count)'[count'].ok = ok
    BY <1>1 DEF Stamped
  <2> QED BY <2>1, <2>3, <2>4
<1>5. count' \notin kept
  <2>1. \A c \in Nat : c \notin 1..(c - 1)
    OBVIOUS
  <2> QED BY <1>1, <2>1
<1>6. CASE count = MaxSamples
  <2>1. old[1] = samples[head]
    <3>1. Offset(head, count, 1) = head
      BY <1>2, <1>6 DEF Offset, Slots
    <3> QED BY <1>2, <1>6, <3>1, NewestIs
  <2>2. kept = {i \in 1..(count - 1) : i + 1 \in Failed}
    <3>1. ASSUME NEW i \in 1..(count - 1)
          PROVE  ~Newest(count)'[i].ok <=> i + 1 \in Failed
      <4>0. \A c \in Nat : \A j \in 1..(c - 1) : j + 1 \in 1..c
        OBVIOUS
      <4>1. i + 1 \in 1..count
        BY <1>2, <4>0
      <4>2. i \in 1..(count' - 1)
        BY <1>1, <1>6
      <4> QED BY <1>1, <1>6, <4>1, <4>2 DEF Failed
    <3>2. 1..(count' - 1) = 1..(count - 1)
      BY <1>1, <1>6
    <3> QED BY <3>1, <3>2
  <2>3. 1 \in Failed <=> ~samples[head].ok
    BY <1>2, <1>6, <2>1 DEF Failed
  <2>4. /\ IsFiniteSet(kept)
        /\ Cardinality(kept) = Cardinality(Failed) - (IF 1 \in Failed THEN 1 ELSE 0)
    BY <1>2, <1>3, <2>2, ShiftCounts
  <2>5. errorCount' = errorCount + (IF ok THEN 0 ELSE 1)
                      - (IF ~samples[head].ok THEN 1 ELSE 0)
    BY <1>6 DEF RecordAt
  <2>6. Cardinality(kept \cup {count'}) = Cardinality(kept) + 1
    BY <1>5, <2>4, FS_AddElement
  <2> HIDE DEF kept
  <2>7. Cardinality(Failed') = Cardinality(kept) + (IF ok THEN 0 ELSE 1)
    BY <1>3, <1>4, <2>4, <2>6
  <2> QED BY <1>3, <2>3, <2>4, <2>5, <2>7 DEF ErrorsExact
<1>7. CASE count # MaxSamples
  <2>1. kept = Failed
    <3>1. count' - 1 = count
      BY <1>1, <1>2, <1>7
    <3>2. \A i \in 1..count : Newest(count)'[i] = old[i]
      BY <1>1, <1>7, <3>1
    <3> QED BY <3>1, <3>2 DEF Failed
  <2>2. errorCount' = errorCount + (IF ok THEN 0 ELSE 1)
    BY <1>3, <1>7 DEF RecordAt
  <2>3. Cardinality(kept \cup {count'}) = Cardinality(kept) + 1
    BY <1>3, <1>5, <2>1, FS_AddElement
  <2> HIDE DEF kept
  <2> QED BY <1>3, <1>4, <2>1, <2>2, <2>3 DEF ErrorsExact
<1> QED BY <1>6, <1>7

(* The error count is that of the samples in the ring (latency.go:157-171) *)
(* for every capacity and any number of overwrites.                        *)
THEOREM ErrorsCounted == Spec => []ErrorsExact
<1>1. Init => ErrorsExact
  <2> SUFFICES ASSUME Init PROVE ErrorsExact
    OBVIOUS
  <2>1. Failed = {}
    BY DEF Init, Failed
  <2> QED BY <2>1, FS_EmptySet DEF Init, ErrorsExact
<1>2. Shape /\ ErrorsExact /\ [Next]_vars => ErrorsExact'
  <2>1. ASSUME Tick \/ UNCHANGED vars, ErrorsExact PROVE ErrorsExact'
    BY <2>1 DEF Tick, vars, ErrorsExact, Failed, Newest, Slot
  <2> QED BY <2>1, RecordCounts DEF Next
<1> QED BY <1>1, <1>2, ShapeInductive, PTL DEF Spec

(* So that the slice of the successes is never made with a negative room   *)
(* (latency.go:212), which would stop the daemon.                          *)
THEOREM RoomNeverNegative == Spec => [](count - errorCount >= 0)
<1>1. Shape /\ ErrorsExact => count - errorCount >= 0
  BY FailedFinite DEF ErrorsExact, Shape
<1> QED BY <1>1, ErrorsCounted, ShapeInductive, PTL

(***************************************************************************)
(* The running sum.  What a recursive function computes is shown by the    *)
(* least argument for which it would compute something else.               *)
(***************************************************************************)
LEMMA LeastNat ==
    ASSUME NEW S \in SUBSET Nat, S # {}
    PROVE  \E x \in S : \A y \in S : x <= y
<1> DEFINE R == {p \in Nat \X Nat : p[1] < p[2]}
<1>1. R = OpToRel(<, Nat)
  BY DEF OpToRel
<1>2. IsWellFoundedOn(R, Nat)
  BY <1>1, NatLessThanWellFounded
<1>3. PICK x \in S : \A y \in S : ~ (<<y, x>> \in R)
  <2> HIDE DEF R
  <2> QED BY <1>2, WFMin
<1>4. \A y \in S : ~(y < x)
  BY <1>3
<1> QED BY <1>4

(* What a sample adds to the running sum. *)
Worth(x) == IF x.ok THEN x.ms ELSE 0

(* f[k] is the sum of the first k of the n samples of s. *)
Sums(f, s, n) ==
    /\ f \in [0..n -> Nat] /\ f[0] = 0
    /\ \A i \in 1..n : Worth(s[i]) \in Nat /\ f[i] = f[i - 1] + Worth(s[i])

LEMMA SumsExist ==
    ASSUME NEW n \in Nat, NEW s, \A i \in 1..n : Worth(s[i]) \in Nat
    PROVE  \E f : Sums(f, s, n)
<1> DEFINE Bad == {m \in 0..n : ~ \E f : Sums(f, s, m)}
<1>1. SUFFICES ASSUME Bad # {} PROVE FALSE
  <2>1. n \in 0..n
    OBVIOUS
  <2> QED BY <1>1, <2>1, Zenon
<1>2. PICK m \in Bad : \A k \in Bad : m <= k
  <2>1. Bad \in SUBSET Nat
    OBVIOUS
  <2> HIDE DEF Bad
  <2> QED BY <1>1, <2>1, LeastNat
<1>3. m # 0
  <2>1. Sums([k \in 0..0 |-> 0], s, 0)
    BY DEF Sums
  <2> QED BY <1>2, <2>1
<1>4. m \in 1..n /\ m - 1 \in 0..n /\ m - 1 \notin Bad
  BY <1>2, <1>3
<1>5. PICK f : Sums(f, s, m - 1)
  BY <1>4
<1> DEFINE g == [k \in 0..m |-> IF k < m THEN f[k] ELSE f[m - 1] + Worth(s[m])]
<1>6. Sums(g, s, m)
  <2>1. g \in [0..m -> Nat] /\ g[0] = 0
    BY <1>4, <1>5, SMTT(60) DEF Sums
  <2>2. ASSUME NEW i \in 1..m
        PROVE  Worth(s[i]) \in Nat /\ g[i] = g[i - 1] + Worth(s[i])
    <3>1. CASE i = m
      BY <1>4, <3>1
    <3>2. CASE i # m
      BY <1>4, <1>5, <3>2 DEF Sums
    <3> QED BY <3>1, <3>2
  <2> QED BY <2>1, <2>2 DEF Sums
<1> QED BY <1>2, <1>6

(* Two sums over the same samples, of which one starts d samples later,    *)
(* differ by the samples before.                                           *)
LEMMA SumsShift ==
    ASSUME NEW n \in Nat, NEW m \in Nat, NEW d \in Nat, NEW e \in Nat,
           e <= m, e + d <= n,
           NEW s, NEW t, NEW f, NEW g, Sums(f, s, n), Sums(g, t, m),
           \A i \in 1..e : t[i] = s[i + d]
    PROVE  f[d + e] = f[d] + g[e]
<1> DEFINE Bad == {k \in 0..e : f[d + k] # f[d] + g[k]}
<1>1. SUFFICES ASSUME Bad # {} PROVE FALSE
  <2>1. e \in 0..e
    OBVIOUS
  <2> QED BY <1>1, <2>1, Zenon
<1>2. PICK k \in Bad : \A j \in Bad : k <= j
  <2>1. Bad \in SUBSET Nat
    OBVIOUS
  <2> HIDE DEF Bad
  <2> QED BY <1>1, <2>1, LeastNat
<1>3. k # 0
  BY <1>2 DEF Sums
<1>4. k \in 1..e /\ k - 1 \in 0..e /\ k - 1 \notin Bad
  BY <1>2, <1>3
<1>5. f[d + (k - 1)] = f[d] + g[k - 1]
  BY <1>4
<1>6. g[k] = g[k - 1] + Worth(t[k])
  BY <1>4 DEF Sums
<1>7. d + k \in 1..n /\ (d + k) - 1 = d + (k - 1)
  BY <1>4
<1>8. f[d + k] = f[d + (k - 1)] + Worth(s[d + k])
  BY <1>7 DEF Sums
<1>9. t[k] = s[d + k] /\ d + k = k + d
  BY <1>4
<1>10. f[d] \in Nat /\ g[k - 1] \in Nat /\ Worth(s[d + k]) \in Nat
  BY <1>4, <1>7 DEF Sums
<1>11. f[d + k] = f[d] + g[k]
  BY <1>5, <1>6, <1>8, <1>9, <1>10
<1> QED BY <1>2, <1>11

(* Two functions that start alike and take the same steps are alike.       *)
LEMMA SameSteps ==
    ASSUME NEW n \in Nat, NEW f, NEW g, NEW w, f[0] = g[0],
           \A i \in 1..n : f[i] = f[i - 1] + w[i],
           \A i \in 1..n : g[i] = g[i - 1] + w[i]
    PROVE  \A k \in 0..n : g[k] = f[k]
<1> DEFINE Bad == {k \in 0..n : g[k] # f[k]}
<1>1. SUFFICES ASSUME Bad # {} PROVE FALSE
  BY <1>1
<1>2. PICK k \in Bad : \A j \in Bad : k <= j
  <2>1. Bad \in SUBSET Nat
    OBVIOUS
  <2> HIDE DEF Bad
  <2> QED BY <1>1, <2>1, LeastNat
<1>3. k \in 1..n /\ k - 1 \in 0..n /\ k - 1 \notin Bad
  BY <1>2
<1> QED BY <1>2, <1>3

SumInv == \E f : Sums(f, Newest(count), count) /\ sum = f[count]

LEMMA RecordSums ==
    ASSUME Shape, SumInv, NEW ms \in Latencies, NEW ok \in BOOLEAN,
           RecordAt(ms, ok)
    PROVE  SumInv'
<1> DEFINE old == Newest(count)
           new == Newest(count)'
<1>1. /\ count' \in 1..MaxSamples /\ ms \in Nat
      /\ count' = IF count = MaxSamples THEN count ELSE count + 1
      /\ \A i \in 1..(count' - 1) :
            new[i] = IF count = MaxSamples THEN old[i + 1] ELSE old[i]
      /\ new[count'] = Stamped(ms, ok)
      /\ samples' \in [Slots -> Sample \cup {Zero}] /\ head' \in Slots
  BY RecordMoves
<1>2. count \in 0..MaxSamples /\ head \in Slots
      /\ \A i \in 1..count : old[i] \in Sample
  BY DEF Shape
<1>3. PICK f : Sums(f, old, count) /\ sum = f[count]
  BY DEF SumInv
<1>4. sum' = sum + Worth(Stamped(ms, ok))
             - (IF count = MaxSamples THEN Worth(samples[head]) ELSE 0)
  BY DEF RecordAt, Worth, Stamped
<1>5. Worth(Stamped(ms, ok)) \in Nat
  BY <1>1 DEF Worth, Stamped
<1>6. \A i \in 1..count : Worth(old[i]) \in Nat
  BY <1>3 DEF Sums
<1>7. \A i \in 1..count' : Worth(new[i]) \in Nat
  <2> SUFFICES ASSUME NEW i \in 1..count' PROVE Worth(new[i]) \in Nat
    OBVIOUS
  <2>1. CASE i = count'
    BY <1>1, <1>5, <2>1
  <2>2. CASE i # count'
    <3>1. i \in 1..(count' - 1)
      BY <1>1, <2>2
    <3>2. IF count = MaxSamples THEN i + 1 \in 1..count ELSE i \in 1..count
      BY <1>1, <1>2, <3>1
    <3> QED BY <1>1, <1>6, <3>1, <3>2
  <2> QED BY <2>1, <2>2
<1>8. PICK g : Sums(g, new, count')
  <2>1. count' \in Nat
    BY <1>1
  <2> HIDE DEF new
  <2> QED BY <1>7, <2>1, SumsExist
<1>9. g[count'] = g[count' - 1] + Worth(Stamped(ms, ok))
  <2>1. count' \in 1..count'
    BY <1>1
  <2> HIDE DEF new
  <2> QED BY <1>1, <1>8, <2>1 DEF Sums
<1>10. g[count' - 1] = sum - (IF count = MaxSamples THEN Worth(samples[head]) ELSE 0)
  <2>0. /\ count \in Nat /\ count' \in Nat /\ count' - 1 \in Nat
        /\ 0 \in Nat /\ 1 \in Nat
    BY <1>1, <1>2
  <2>1. CASE count = MaxSamples
    <3>1. old[1] = samples[head]
      <4>1. Offset(head, count, 1) = head
        BY <1>2, <2>1 DEF Offset, Slots
      <4> QED BY <1>2, <2>1, <4>1, NewestIs
    <3>2. count' = count /\ count \in 1..count /\ 1 \in 1..count
      BY <1>1, <2>1
    <3>3. f[1] = Worth(samples[head])
      BY <1>3, <3>1, <3>2 DEF Sums
    <3>4. \A i \in 1..(count - 1) : new[i] = old[i + 1]
      BY <1>1, <2>1, <3>2
    <3>5. f[1 + (count - 1)] = f[1] + g[count - 1]
      <4> HIDE DEF old, new
      <4>1. count - 1 \in Nat /\ count - 1 <= count /\ (count - 1) + 1 <= count
        BY <2>0, <3>2
      <4>2. Sums(g, new, count)
        BY <1>8, <3>2
      <4> QED BY <1>3, <2>0, <3>4, <4>1, <4>2, SumsShift
    <3>6. f[count] = f[1] + g[count - 1] /\ g[count - 1] \in Nat /\ f[1] \in Nat
      <4>1. 1 + (count - 1) = count
        BY <2>0
      <4>2. count - 1 \in 0..count
        BY <3>2
      <4> QED BY <1>3, <1>8, <3>2, <3>5, <4>1, <4>2 DEF Sums
    <3> QED BY <1>3, <2>1, <3>2, <3>3, <3>6
  <2>2. CASE count # MaxSamples
    <3>1. count' = count + 1 /\ count' - 1 = count
      BY <1>1, <1>2, <2>2
    <3>2. \A i \in 1..count : new[i] = old[i + 0]
      <4>1. \A i \in 1..count : i + 0 = i
        OBVIOUS
      <4> QED BY <1>1, <2>2, <3>1, <4>1
    <3>3. f[0 + count] = f[0] + g[count]
      <4> HIDE DEF old, new
      <4>1. count <= count' /\ count + 0 <= count
        BY <2>0, <3>1
      <4> QED BY <1>3, <1>8, <2>0, <3>2, <4>1, SumsShift
    <3>4. f[0] = 0 /\ g[count] \in Nat /\ f[count] \in Nat /\ 0 + count = count
      BY <1>3, <1>8, <2>0, <3>1 DEF Sums
    <3> QED BY <1>3, <2>2, <3>1, <3>3, <3>4
  <2> QED BY <2>1, <2>2
<1>11. sum' = g[count']
  <2>1. sum \in Nat /\ (count = MaxSamples => Worth(samples[head]) \in Nat)
    <3>1. sum \in Nat
      BY <1>2, <1>3 DEF Sums
    <3>2. CASE count = MaxSamples
      <4>1. old[1] = samples[head]
        <5>1. Offset(head, count, 1) = head
          BY <1>2, <3>2 DEF Offset, Slots
        <5> QED BY <1>2, <3>2, <5>1, NewestIs
      <4>2. 1 \in 1..count
        BY <1>2, <3>2
      <4> QED BY <1>6, <3>1, <4>1, <4>2
    <3> QED BY <3>1, <3>2
  <2> QED BY <1>4, <1>5, <1>9, <1>10, <2>1
<1> QED
  <2>1. Sums(g, Newest(count)', count') /\ sum' = g[count']
    BY <1>8, <1>11
  <2> HIDE DEF new, old
  <2> QED BY <2>1 DEF SumInv

LEMMA SumInvInductive == Spec => []SumInv
<1>1. Init => SumInv
  <2> SUFFICES ASSUME Init PROVE SumInv
    OBVIOUS
  <2> DEFINE z == [k \in 0..0 |-> 0]
  <2>1. Sums(z, Newest(0), 0) /\ z[0] = 0
    BY DEF Sums
  <2> HIDE DEF z
  <2> QED BY <2>1 DEF Init, SumInv
<1>2. Shape /\ SumInv /\ [Next]_vars => SumInv'
  <2>1. ASSUME Tick \/ UNCHANGED vars, SumInv PROVE SumInv'
    <3>1. Newest(count)' = Newest(count) /\ count' = count /\ sum' = sum
      BY <2>1 DEF Tick, vars, Newest, Slot
    <3> QED BY <2>1, <3>1 DEF SumInv
  <2> QED BY <2>1, RecordSums DEF Next
<1> QED BY <1>1, <1>2, ShapeInductive, PTL DEF Spec

(* The running sum is that of the samples in the ring, and so is the error *)
(* count, for every capacity and any number of overwrites: the average of  *)
(* GetSummary is the mean of its own samples (latency.go:157-171).         *)
THEOREM CountersAlwaysExact == Spec => []CountersExact
<1>1. Shape /\ SumInv => SumExact
  <2> SUFFICES ASSUME Shape, SumInv, NEW s, s = Newest(count)
               PROVE  sum = LET total[n \in 0..count] ==
                                  IF n = 0 THEN 0
                                  ELSE total[n - 1] + (IF s[n].ok THEN s[n].ms ELSE 0)
                            IN  total[count]
    BY DEF SumExact
  <2>1. PICK f : Sums(f, s, count) /\ sum = f[count]
    BY DEF SumInv
  <2> DEFINE Step(g) == [n \in 0..count |->
                            IF n = 0 THEN 0
                            ELSE g[n - 1] + (IF s[n].ok THEN s[n].ms ELSE 0)]
             total == CHOOSE g : g = Step(g)
  <2>2. count \in Nat
    BY DEF Shape
  <2>3. f = Step(f)
    <3>1. f = [n \in 0..count |-> f[n]]
      BY <2>1 DEF Sums
    <3>2. \A n \in 0..count : f[n] = IF n = 0 THEN 0
                                     ELSE f[n - 1] + (IF s[n].ok THEN s[n].ms ELSE 0)
      BY <2>1, <2>2 DEF Sums, Worth
    <3> QED BY <3>1, <3>2
  <2>4. total = Step(total)
    <3> HIDE DEF Step
    <3> QED BY <2>3
  <2>5. total[count] = f[count]
    <3> DEFINE w == [i \in 1..count |-> Worth(s[i])]
    <3> HIDE DEF total
    <3>1. total[0] = 0 /\ \A i \in 1..count : total[i] = total[i - 1] + Worth(s[i])
      BY <2>2, <2>4 DEF Worth
    <3>2. f[0] = 0 /\ \A i \in 1..count : f[i] = f[i - 1] + Worth(s[i])
      BY <2>1 DEF Sums
    <3>3. /\ \A i \in 1..count : total[i] = total[i - 1] + w[i]
          /\ \A i \in 1..count : f[i] = f[i - 1] + w[i]
      BY <3>1, <3>2
    <3> HIDE DEF Step, w
    <3>4. \A k \in 0..count : total[k] = f[k]
      BY <2>2, <3>1, <3>2, <3>3, SameSteps
    <3> QED BY <2>2, <3>4
  <2> QED BY <2>1, <2>5
<1> QED BY <1>1, ErrorsCounted, SumInvInductive, ShapeInductive, PTL DEF CountersExact

(***************************************************************************)
(* The readers.  The timestamps in the ring rise from the oldest sample to *)
(* the newest: the walk from one end is a walk through time.               *)
(***************************************************************************)
InOrder ==
    \A j \in 1..count :
        /\ Newest(count)[j].at <= now
        /\ \A i \in 1..j : Newest(count)[i].at <= Newest(count)[j].at

LEMMA OrderInductive == Spec => [](Shape /\ InOrder)
<1>1. Init => InOrder
  BY DEF Init, InOrder
<1>2. Shape /\ InOrder /\ [Next]_vars => InOrder'
  <2> SUFFICES ASSUME Shape, InOrder, [Next]_vars PROVE InOrder'
    OBVIOUS
  <2>1. ASSUME NEW ms \in Latencies, NEW ok \in BOOLEAN, RecordAt(ms, ok)
        PROVE  InOrder'
    <3> DEFINE old == Newest(count)
               new == Newest(count)'
    <3>1. /\ count' \in 1..MaxSamples
          /\ count' = IF count = MaxSamples THEN count ELSE count + 1
          /\ \A i \in 1..(count' - 1) :
                new[i] = IF count = MaxSamples THEN old[i + 1] ELSE old[i]
          /\ new[count'] = Stamped(ms, ok)
      BY <2>1, RecordMoves
    <3>2. /\ count \in 0..MaxSamples /\ now \in 0..MaxTime /\ now' = now
          /\ \A i \in 1..count : old[i].at \in Nat
      BY <2>1 DEF Shape, Sample, RecordAt
    <3>3. /\ \A j \in 1..count : /\ old[j].at <= now
                                 /\ \A i \in 1..j : old[i].at <= old[j].at
      BY DEF InOrder
    <3>4. new[count'].at = now
      BY <3>1 DEF Stamped
    <3> HIDE DEF old, new
    <3>5. ASSUME NEW j \in 1..count', NEW i \in 1..j
          PROVE  new[j].at <= now /\ new[i].at <= new[j].at
      <4>1. CASE i \in 1..(count' - 1) /\ j \in 1..(count' - 1)
        <5>1. CASE count = MaxSamples
          <6>1. i + 1 \in 1..(j + 1) /\ j + 1 \in 1..count
            BY <3>1, <3>2, <4>1, <5>1
          <6> QED BY <3>1, <3>3, <4>1, <5>1, <6>1
        <5>2. CASE count # MaxSamples
          <6>1. j \in 1..count
            BY <3>1, <3>2, <4>1, <5>2
          <6> QED BY <3>1, <3>3, <4>1, <5>2, <6>1
        <5> QED BY <5>1, <5>2
      <4>2. CASE j = count' /\ i \in 1..(count' - 1)
        <5>1. CASE count = MaxSamples
          <6>1. i + 1 \in 1..count
            BY <3>1, <3>2, <4>2, <5>1
          <6> QED BY <3>1, <3>2, <3>3, <3>4, <4>2, <5>1, <6>1
        <5>2. CASE count # MaxSamples
          <6>1. i \in 1..count
            BY <3>1, <3>2, <4>2, <5>2
          <6> QED BY <3>1, <3>2, <3>3, <3>4, <4>2, <5>2, <6>1
        <5> QED BY <5>1, <5>2
      <4>3. CASE j = count' /\ i = count'
        BY <3>2, <3>4, <4>3
      <4> QED BY <3>1, <4>1, <4>2, <4>3
    <3> QED BY <3>2, <3>5 DEF InOrder, new
  <2>2. CASE Tick
    <3>1. Newest(count)' = Newest(count) /\ count' = count /\ now' = now + 1
      BY <2>2 DEF Tick, Newest, Slot
    <3>2. \A i \in 1..count : Newest(count)[i].at \in Nat
      BY DEF Shape, Sample
    <3> QED BY <3>1, <3>2 DEF InOrder, Shape
  <2>3. CASE UNCHANGED vars
    BY <2>3 DEF vars, InOrder, Newest, Slot
  <2> QED BY <2>1, <2>2, <2>3 DEF Next
<1> QED BY <1>1, <1>2, ShapeInductive, PTL DEF Spec

(* The newest n samples are the last n of all.                             *)
LEMMA NewestOfAll ==
    ASSUME Shape, NEW n \in 0..count
    PROVE  Newest(n) = [i \in 1..n |-> Newest(count)[count - n + i]]
<1>1. n \in 0..MaxSamples /\ count \in 0..MaxSamples /\ head \in Slots
  BY DEF Shape
<1>2. ASSUME NEW i \in 1..n PROVE Newest(n)[i] = Newest(count)[count - n + i]
  <2>1. count - n + i \in 1..count
    BY <1>1
  <2>2. Offset(head, n, i) = Offset(head, count, count - n + i)
    BY <1>1 DEF Offset, Slots
  <2> QED BY <1>1, <2>1, <2>2, NewestIs
<1>3. Newest(n) = [i \in 1..n |-> Newest(n)[i]]
  BY <1>1, NewestIs
<1> QED BY <1>2, <1>3

(* GetRecentSamples, which wraps as it goes, reads the same slots.         *)
LEMMA RecentIsNewest ==
    ASSUME Shape, NEW limit \in Int
    PROVE  GetRecentSamples(limit) = Newest(SnapshotLimit(limit))
<1> DEFINE n == SnapshotLimit(limit)
           start == (head - n + MaxSamples) % MaxSamples
<1>1. n \in 0..MaxSamples /\ head \in Slots
  BY DEF Shape, SnapshotLimit
<1> HIDE DEF n
<1>2. start = IF head - n >= 0 THEN head - n ELSE head - n + MaxSamples
  <2>1. CASE head - n >= 0
    <3>1. head - n \in Slots
      BY <1>1, <2>1 DEF Slots
    <3> QED BY <2>1, <3>1, ModIdentity
  <2>2. CASE ~(head - n >= 0)
    <3>1. head - n + MaxSamples \in Slots
      BY <1>1, <2>2 DEF Slots
    <3> QED BY <2>2, <3>1, ModIdentity
  <2> QED BY <2>1, <2>2
<1>3. ASSUME NEW i \in 1..n
      PROVE  (start + i - 1) % MaxSamples = Offset(head, n, i)
  <2>1. Offset(head, n, i) \in Slots
    BY <1>1, SlotOffset
  <2>2. \/ start + i - 1 = Offset(head, n, i)
        \/ start + i - 1 = Offset(head, n, i) + MaxSamples
    BY <1>1, <1>2 DEF Offset, Slots
  <2> HIDE DEF start
  <2> QED BY <2>1, <2>2, ModIdentity
<1>4. Newest(n) = [i \in 1..n |-> samples[Offset(head, n, i)]]
  BY <1>1, NewestIs
<1> QED BY <1>3, <1>4 DEF GetRecentSamples, n

(* The three readers agree (ReadersAgree): each returns the newest samples *)
(* oldest first, and the timestamps the snapshot takes from the two ends   *)
(* of the ring are the least and the greatest of all (latency.go:327-415,  *)
(* latency_series.go:100-170).                                             *)
THEOREM ReadersAlwaysAgree == Spec => []ReadersAgree
<1>1. Shape /\ InOrder /\ ErrorsExact => ReadersAgree
  <2> SUFFICES ASSUME Shape, InOrder, ErrorsExact, NEW limit \in 1..(MaxSamples + 1)
               PROVE  LET whole == Newest(count)
                          n     == SnapshotLimit(limit)
                          last  == [i \in 1..n |-> whole[count - n + i]]
                      IN  /\ GetRecentSamples(limit) = last
                          /\ Snapshot(limit).samples = last
                          /\ \A i \in 1..count : /\ Snapshot(limit).oldest <= whole[i].at
                                                 /\ whole[i].at <= Snapshot(limit).newest
                          /\ limit >= count =>
                                /\ SeriesSnapshot(limit).errors = Snapshot(limit).errors
                                /\ SeriesSnapshot(limit).oldest = Snapshot(limit).oldest
                                /\ SeriesSnapshot(limit).newest = Snapshot(limit).newest
    BY DEF ReadersAgree
  <2> DEFINE whole == Newest(count)
             n == SnapshotLimit(limit)
             last == [i \in 1..n |-> whole[count - n + i]]
             snap == Snapshot(limit)
  <2>1. /\ count \in 0..MaxSamples /\ head \in Slots /\ limit \in Nat
        /\ n \in 0..count /\ n = IF limit > count THEN count ELSE limit
    BY DEF Shape, SnapshotLimit
  <2>2. Newest(n) = last
    <3> HIDE DEF n
    <3> QED BY <2>1, NewestOfAll
  <2>3. GetRecentSamples(limit) = last
    BY <2>1, <2>2, RecentIsNewest
  <2>4. /\ snap.samples = Newest(n)
        /\ snap.errors = errorCount
        /\ count # 0 => /\ snap.oldest = samples[Slot(count, 1)].at
                        /\ snap.newest = samples[(head - 1 + MaxSamples) % MaxSamples].at
        /\ count = 0 => snap.oldest = 0 /\ snap.newest = 0
    BY <2>1 DEF Snapshot
  <2>5. count # 0 => snap.oldest = whole[1].at /\ snap.newest = whole[count].at
    <3> SUFFICES ASSUME count # 0 PROVE snap.oldest = whole[1].at /\ snap.newest = whole[count].at
      OBVIOUS
    <3>1. 1 \in 1..count /\ count \in 1..count
      BY <2>1
    <3>2. whole[1] = samples[Slot(count, 1)]
      BY <3>1 DEF Newest
    <3>3. whole[count] = samples[(head - 1 + MaxSamples) % MaxSamples]
      <4>1. head - count + (count - 1) + MaxSamples = head - 1 + MaxSamples
        BY <2>1 DEF Slots
      <4> QED BY <3>1, <4>1 DEF Newest, Slot
    <3> QED BY <2>4, <3>2, <3>3
  <2>6. \A i \in 1..count : whole[1].at <= whole[i].at /\ whole[i].at <= whole[count].at
    BY <2>1 DEF InOrder
  <2>7. \A i \in 1..count : snap.oldest <= whole[i].at /\ whole[i].at <= snap.newest
    BY <2>1, <2>5, <2>6
  <2>8. ASSUME limit >= count
        PROVE  /\ SeriesSnapshot(limit).errors = snap.errors
               /\ SeriesSnapshot(limit).oldest = snap.oldest
               /\ SeriesSnapshot(limit).newest = snap.newest
    <3> DEFINE ser == SeriesSnapshot(limit)
               ats == {whole[i].at : i \in 1..count}
    <3>1. snap.samples = whole /\ DOMAIN whole = 1..count
      BY <2>1, <2>4, <2>8, NewestIs
    <3>2. whole = << >> <=> count = 0
      <4>1. whole = << >> <=> DOMAIN whole = {}
        BY <3>1 DEF Newest
      <4> QED BY <2>1, <3>1, <4>1
    <3>3. ser.errors = Cardinality({i \in 1..count : ~whole[i].ok})
      BY <3>1 DEF SeriesSnapshot
    <3>4. ser.errors = snap.errors
      BY <2>4, <3>3 DEF ErrorsExact, Failed
    <3>5. /\ ser.oldest = IF whole = << >> THEN 0
                          ELSE CHOOSE t \in ats : \A i \in 1..count : t <= whole[i].at
          /\ ser.newest = IF whole = << >> THEN 0
                          ELSE CHOOSE t \in ats : \A i \in 1..count : whole[i].at <= t
      BY <3>1 DEF SeriesSnapshot
    <3>6. CASE count = 0
      BY <2>4, <3>2, <3>4, <3>5, <3>6
    <3>7. CASE count # 0
      <4>1. 1 \in 1..count /\ count \in 1..count
        BY <2>1, <3>7
      <4>2. \A i \in 1..count : whole[i].at \in Nat
        BY DEF Shape, Sample
      <4>3. whole[1].at \in ats /\ whole[count].at \in ats
        BY <4>1
      <4> HIDE DEF whole
      <4>4. ser.oldest = whole[1].at
        <5>1. \A t \in ats : (\A i \in 1..count : t <= whole[i].at) <=> t = whole[1].at
          BY <2>6, <4>1, <4>2
        <5> HIDE DEF ats, ser
        <5> QED BY <3>2, <3>5, <3>7, <4>3, <5>1
      <4>5. ser.newest = whole[count].at
        <5>1. \A t \in ats : (\A i \in 1..count : whole[i].at <= t) <=> t = whole[count].at
          BY <2>6, <4>1, <4>2
        <5> HIDE DEF ats, ser
        <5> QED BY <3>2, <3>5, <3>7, <4>3, <5>1
      <4> QED BY <2>5, <3>4, <3>7, <4>4, <4>5
    <3> QED BY <3>6, <3>7
  <2> QED BY <2>2, <2>3, <2>4, <2>7, <2>8
<1> QED BY <1>1, ErrorsCounted, OrderInductive, PTL

(***************************************************************************)
(* The points of a series.                                                 *)
(***************************************************************************)
LEMMA MoreSteps ==
    ASSUME NEW step \in Nat, NEW j \in Nat, NEW k \in Nat, j < k
    PROVE  j * step + step <= k * step
<1>1. PICK d \in Nat : k = j + 1 + d
  <2>1. k - j - 1 \in Nat /\ k = j + 1 + (k - j - 1)
    OBVIOUS
  <2> QED BY <2>1
<1>2. k * step = j * step + step + d * step
  BY <1>1
<1>3. j * step \in Nat /\ d * step \in Nat
  OBVIOUS
<1> QED BY <1>2, <1>3

(* The whole steps in an age.                                              *)
LEMMA WholeSteps ==
    ASSUME NEW a \in Nat, NEW step \in Nat \ {0}
    PROVE  \E q \in Nat : q * step <= a /\ a < q * step + step
<1> DEFINE Over == {k \in Nat : a < k * step + step}
<1>1. Over \in SUBSET Nat /\ Over # {}
  <2>1. a <= a * step
    <3>1. step - 1 \in Nat /\ a * step = a + a * (step - 1)
      OBVIOUS
    <3>2. a * (step - 1) \in Nat
      BY <3>1
    <3> QED BY <3>1, <3>2
  <2>2. a \in Over
    BY <2>1
  <2> QED BY <2>2
<1>2. PICK q \in Over : \A k \in Over : q <= k
  <2> HIDE DEF Over
  <2> QED BY <1>1, LeastNat
<1>3. q * step <= a
  <2>1. CASE q = 0
    BY <2>1
  <2>2. CASE q # 0
    <3>1. q - 1 \in Nat /\ q - 1 \notin Over
      BY <1>2, <2>2
    <3>2. (q - 1) * step + step = q * step
      OBVIOUS
    <3>3. (q - 1) * step \in Nat
      BY <3>1
    <3> QED BY <3>1, <3>2, <3>3
  <2> QED BY <2>1, <2>2
<1> QED BY <1>2, <1>3

(* The points of a series span the range but for a remainder, or as much   *)
(* of it as the cap allows.                                                *)
LEMMA SpanOfRange ==
    ASSUME NEW range \in Nat, NEW step \in Nat \ {0}, step <= range
    PROVE  LET span == NumSteps(range, step) * step
           IN  /\ span <= range
               /\ range - span < step \/ span = MaxOutputPoints * step
<1> DEFINE whole == range \div step
<1>1. whole \in Nat /\ whole >= 1 /\ whole * step <= range /\ range < whole * step + step
  OBVIOUS
<1> HIDE DEF whole
<1>2. NumSteps(range, step) = IF whole > MaxOutputPoints THEN MaxOutputPoints ELSE whole
  BY <1>1 DEF NumSteps, whole
<1>3. CASE whole > MaxOutputPoints
  <2>1. MaxOutputPoints * step + step <= whole * step
    BY <1>1, <1>3, MoreSteps
  <2>2. MaxOutputPoints * step \in Nat /\ whole * step \in Nat
    BY <1>1
  <2> QED BY <1>1, <1>2, <1>3, <2>1, <2>2
<1>4. CASE ~(whole > MaxOutputPoints)
  <2>1. whole * step \in Nat
    BY <1>1
  <2> QED BY <1>1, <1>2, <1>4, <2>1
<1> QED BY <1>3, <1>4

(* A sample of the span that the points of a series cover is in the window *)
(* of one point, and an older one in none, when the points do not overlap; *)
(* the span is the range, but for a remainder and for the cap on the       *)
(* points (latency_series.go:211-260).                                     *)
THEOREM EverySampleDrawnOnce == Spec => []EverySampleInOnePoint
<1>1. Shape /\ InOrder => EverySampleInOnePoint
  <2> SUFFICES ASSUME Shape, InOrder,
                      NEW range \in 1..MaxTime, NEW step \in 1..MaxTime,
                      NEW j \in DOMAIN Newest(count)
               PROVE  LET at == Newest(count)[j].at
                          steps == NumSteps(range, step)
                      IN  Cardinality({i \in 0..(steps - 1) : InPoint(at, i, steps, step, step)})
                          = IF at > now - steps * step THEN 1 ELSE 0
    BY SpanOfRange DEF EverySampleInOnePoint
  <2> DEFINE at == Newest(count)[j].at
             steps == NumSteps(range, step)
             points == {i \in 0..(steps - 1) : InPoint(at, i, steps, step, step)}
  <2>1. at \in Nat /\ now \in Nat /\ at <= now
    <3>1. j \in 1..count
      BY NewestIs DEF Shape
    <3>2. Newest(count)[j] \in Sample
      BY <3>1 DEF Shape
    <3> QED BY <3>1, <3>2 DEF Shape, InOrder, Sample
  <2>2. steps \in Nat \ {0} /\ step \in Nat \ {0}
    <3>1. range \div step \in Nat
      OBVIOUS
    <3> QED BY <3>1 DEF NumSteps
  <2> HIDE DEF at, steps
  <2>3. PICK q \in Nat : q * step <= now - at /\ now - at < q * step + step
    <3>1. now - at \in Nat
      BY <2>1
    <3> QED BY <2>2, <3>1, WholeSteps
  <2>4. ASSUME NEW i \in 0..(steps - 1)
        PROVE  InPoint(at, i, steps, step, step) <=> i = steps - 1 - q
    <3> DEFINE k == steps - 1 - i
    <3>1. k \in Nat /\ k * step \in Nat
      BY <2>2
    <3>2. InPoint(at, i, steps, step, step)
            <=> k * step <= now - at /\ now - at < k * step + step
      <4>1. InPoint(at, i, steps, step, step)
              <=> now - k * step - step < at /\ at <= now - k * step
        BY DEF InPoint
      <4> HIDE DEF k
      <4> QED BY <2>1, <2>2, <3>1, <4>1
    <3>3. i = steps - 1 - q <=> k = q
      BY <2>2
    <3> HIDE DEF k
    <3>4. k * step <= now - at /\ now - at < k * step + step => k = q
      <4>1. CASE k < q
        <5>1. k * step + step <= q * step
          BY <2>2, <3>1, <4>1, MoreSteps
        <5> QED BY <2>1, <2>2, <2>3, <3>1, <5>1
      <4>2. CASE q < k
        <5>1. q * step + step <= k * step
          BY <2>2, <3>1, <4>2, MoreSteps
        <5> QED BY <2>1, <2>2, <2>3, <3>1, <5>1
      <4> QED BY <3>1, <4>1, <4>2
    <3> QED BY <2>3, <3>2, <3>3, <3>4
  <2>5. steps * step \in Nat /\ q * step \in Nat
    BY <2>2
  <2>6. CASE q < steps
    <3>1. q * step + step <= steps * step
      BY <2>2, <2>6, MoreSteps
    <3>2. at > now - steps * step
      BY <2>1, <2>2, <2>3, <2>5, <3>1
    <3>3. steps - 1 - q \in 0..(steps - 1)
      BY <2>2, <2>6
    <3>4. points = {steps - 1 - q}
      BY <2>4, <3>3
    <3> QED BY <3>2, <3>4, FS_Singleton DEF at, steps
  <2>7. CASE ~(q < steps)
    <3>1. steps * step <= q * step
      <4>1. CASE q = steps
        BY <2>5, <4>1
      <4>2. CASE steps < q
        <5>1. steps * step + step <= q * step
          BY <2>2, <4>2, MoreSteps
        <5> QED BY <2>2, <2>5, <5>1
      <4> QED BY <2>2, <2>7, <4>1, <4>2
    <3>2. ~(at > now - steps * step)
      BY <2>1, <2>3, <2>5, <3>1
    <3>3. steps - 1 - q \notin 0..(steps - 1)
      BY <2>2, <2>7
    <3>4. points = {}
      BY <2>4, <3>3
    <3> QED BY <3>2, <3>4, FS_EmptySet DEF at, steps
  <2> QED BY <2>6, <2>7
<1> QED BY <1>1, OrderInductive, PTL

(***************************************************************************)
(* The ranks of a set of samples.                                          *)
(***************************************************************************)
Ranked(s, I) == IsFiniteSet(I) /\ \A i \in I : s[i].ms \in Nat

Below(s, I, v) == {i \in I : s[i].ms < v}

UpTo(s, I, v) == {i \in I : s[i].ms <= v}

LEMMA RanksFinite ==
    ASSUME NEW s, NEW I, Ranked(s, I), NEW v
    PROVE  /\ IsFiniteSet(Below(s, I, v)) /\ Cardinality(Below(s, I, v)) \in Nat
           /\ IsFiniteSet(UpTo(s, I, v)) /\ Cardinality(UpTo(s, I, v)) \in Nat
           /\ Cardinality(UpTo(s, I, v)) <= Cardinality(I) /\ Cardinality(I) \in Nat
<1>1. Below(s, I, v) \subseteq I /\ UpTo(s, I, v) \subseteq I /\ IsFiniteSet(I)
  BY DEF Below, UpTo, Ranked
<1>2. IsFiniteSet(Below(s, I, v)) /\ IsFiniteSet(UpTo(s, I, v))
      /\ Cardinality(UpTo(s, I, v)) <= Cardinality(I)
  BY <1>1, FS_Subset
<1> QED BY <1>1, <1>2, FS_CardinalityType

(* One of finitely many samples is as slow as any.                         *)
LEMMA Slowest ==
    ASSUME NEW s, NEW I, Ranked(s, I), I # {}
    PROVE  \E i \in I : \A j \in I : s[j].ms <= s[i].ms
<1> DEFINE Slower(i) == {j \in I : s[i].ms < s[j].ms}
           C == {Cardinality(Slower(i)) : i \in I}
<1>1. \A i \in I : IsFiniteSet(Slower(i)) /\ Cardinality(Slower(i)) \in Nat
  <2> SUFFICES ASSUME NEW i \in I PROVE IsFiniteSet(Slower(i)) /\ Cardinality(Slower(i)) \in Nat
    OBVIOUS
  <2>1. Slower(i) \subseteq I /\ IsFiniteSet(I)
    BY DEF Ranked
  <2> HIDE DEF Slower
  <2> QED BY <2>1, FS_Subset, FS_CardinalityType
<1>2. C \in SUBSET Nat /\ C # {}
  <2> HIDE DEF Slower
  <2> QED BY <1>1
<1>3. PICK c \in C : \A d \in C : c <= d
  <2> HIDE DEF C
  <2> QED BY <1>2, LeastNat
<1>4. PICK i \in I : c = Cardinality(Slower(i))
  <2> HIDE DEF Slower
  <2> QED BY <1>3
<1>5. ASSUME NEW j \in I, s[i].ms < s[j].ms PROVE FALSE
  <2>1. j \in Slower(i) /\ Slower(j) \subseteq Slower(i) \ {j}
    BY <1>4, <1>5 DEF Ranked
  <2> HIDE DEF Slower
  <2>2. /\ IsFiniteSet(Slower(i) \ {j})
        /\ Cardinality(Slower(i) \ {j}) = Cardinality(Slower(i)) - 1
    BY <1>1, <1>4, <2>1, FS_RemoveElement
  <2>3. Cardinality(Slower(j)) <= Cardinality(Slower(i) \ {j})
    BY <2>1, <2>2, FS_Subset
  <2>4. Cardinality(Slower(j)) \in C
    OBVIOUS
  <2>5. Cardinality(Slower(i)) <= Cardinality(Slower(j))
    BY <1>3, <1>4, <2>4
  <2> QED BY <1>1, <1>4, <2>2, <2>3, <2>5
<1>6. \A j \in I : s[j].ms <= s[i].ms
  BY <1>4, <1>5 DEF Ranked
<1> QED BY <1>4, <1>6

(* There is a k-th smallest latency.                                       *)
LEMMA KthExists ==
    ASSUME NEW s, NEW I, Ranked(s, I), NEW k \in 1..Cardinality(I)
    PROVE  /\ Kth(s, I, k) \in {s[i].ms : i \in I} /\ Kth(s, I, k) \in Nat
           /\ Cardinality(Below(s, I, Kth(s, I, k))) < k
           /\ k <= Cardinality(UpTo(s, I, Kth(s, I, k)))
<1>1. IsFiniteSet(I) /\ Cardinality(I) \in Nat /\ I # {}
  BY FS_CardinalityType, FS_EmptySet DEF Ranked
<1> DEFINE V == {v \in {s[i].ms : i \in I} : k <= Cardinality(UpTo(s, I, v))}
<1>2. V \in SUBSET Nat
  BY DEF Ranked
<1>3. V # {}
  <2>1. PICK i \in I : \A j \in I : s[j].ms <= s[i].ms
    BY <1>1, Slowest
  <2>2. UpTo(s, I, s[i].ms) = I
    BY <2>1 DEF UpTo
  <2>3. s[i].ms \in V
    BY <2>2
  <2> QED BY <2>3
<1>4. PICK v \in V : \A u \in V : v <= u
  <2> HIDE DEF V
  <2> QED BY <1>2, <1>3, LeastNat
<1>5. Cardinality(Below(s, I, v)) < k
  <2> SUFFICES ASSUME k <= Cardinality(Below(s, I, v)) PROVE FALSE
    BY RanksFinite
  <2>1. Below(s, I, v) # {}
    <3>1. Cardinality({}) = 0
      BY FS_EmptySet
    <3> QED BY <3>1
  <2>2. Ranked(s, Below(s, I, v))
    BY RanksFinite DEF Ranked, Below
  <2>3. PICK i \in Below(s, I, v) : \A j \in Below(s, I, v) : s[j].ms <= s[i].ms
    BY <2>1, <2>2, Slowest
  <2>4. i \in I /\ s[i].ms < v /\ s[i].ms \in Nat
    BY <2>2, <2>3 DEF Below, Ranked
  <2>5. Below(s, I, v) \subseteq UpTo(s, I, s[i].ms)
    BY <2>3 DEF Below, UpTo
  <2>6. Cardinality(Below(s, I, v)) <= Cardinality(UpTo(s, I, s[i].ms))
    BY <2>5, RanksFinite, FS_Subset
  <2>7. k <= Cardinality(UpTo(s, I, s[i].ms))
    BY <2>6, RanksFinite
  <2>8. s[i].ms \in V
    BY <2>4, <2>7
  <2> HIDE DEF V
  <2> QED BY <1>2, <1>4, <2>4, <2>8
<1>6. /\ v \in {s[i].ms : i \in I}
      /\ Cardinality({i \in I : s[i].ms < v}) < k
      /\ k <= Cardinality({i \in I : s[i].ms <= v})
  BY <1>4, <1>5 DEF Below, UpTo
<1>7. /\ Kth(s, I, k) \in {s[i].ms : i \in I}
      /\ Cardinality({i \in I : s[i].ms < Kth(s, I, k)}) < k
      /\ k <= Cardinality({i \in I : s[i].ms <= Kth(s, I, k)})
  BY <1>6 DEF Kth
<1> QED BY <1>7 DEF Below, UpTo, Ranked

(* A higher rank is not a smaller latency.                                 *)
LEMMA KthRises ==
    ASSUME NEW s, NEW I, Ranked(s, I), NEW k \in 1..Cardinality(I),
           NEW l \in 1..Cardinality(I), k <= l
    PROVE  Kth(s, I, k) <= Kth(s, I, l)
<1> DEFINE u == Kth(s, I, k)
           v == Kth(s, I, l)
<1>1. u \in Nat /\ v \in Nat /\ Cardinality(Below(s, I, u)) < k
      /\ l <= Cardinality(UpTo(s, I, v))
  BY KthExists
<1> HIDE DEF u, v
<1>2. SUFFICES ASSUME v < u PROVE FALSE
  BY <1>1 DEF u, v
<1>3. UpTo(s, I, v) \subseteq Below(s, I, u)
  BY <1>1, <1>2 DEF UpTo, Below, Ranked
<1>4. Cardinality(UpTo(s, I, v)) <= Cardinality(Below(s, I, u))
  BY <1>3, RanksFinite, FS_Subset
<1>5. Cardinality(UpTo(s, I, v)) \in Nat /\ Cardinality(Below(s, I, u)) \in Nat
  BY RanksFinite
<1>6. Cardinality(I) \in Nat
  BY RanksFinite
<1> QED BY <1>1, <1>4, <1>5, <1>6

(***************************************************************************)
(* The percentiles.  A percentile interpolates at a place r between ranks, *)
(* counted in hundredths of a rank from 0.                                 *)
(***************************************************************************)
Interpolated(s, I, r) ==
    LET n == Cardinality(I)
        k == r \div 100 + 1
        d == r % 100
    IN  IF k >= n THEN 100 * Kth(s, I, n)
        ELSE 100 * Kth(s, I, k) + d * (Kth(s, I, k + 1) - Kth(s, I, k))

LEMMA PercentileIs ==
    ASSUME NEW s, Ranked(s, Successes(s)), Cardinality(Successes(s)) # 0, NEW p \in 0..100
    PROVE  /\ Percentile(s, p) = Interpolated(s, Successes(s), p * (Cardinality(Successes(s)) - 1))
           /\ p * (Cardinality(Successes(s)) - 1) \in 0..(100 * (Cardinality(Successes(s)) - 1))
<1>1. Cardinality(Successes(s)) - 1 \in Nat
  BY RanksFinite
<1>2. \A m \in Nat : p * m \in 0..(100 * m)
  <2> SUFFICES ASSUME NEW m \in Nat PROVE p * m \in 0..(100 * m)
    OBVIOUS
  <2>1. (100 - p) * m \in Nat /\ p * m \in Nat /\ 100 * m = p * m + (100 - p) * m
    OBVIOUS
  <2> QED BY <2>1
<1> QED BY <1>1, <1>2 DEF Percentile, Interpolated

(* The interpolation rises with its place.                                 *)
LEMMA InterpolationRises ==
    ASSUME NEW s, NEW I, Ranked(s, I), Cardinality(I) # 0,
           NEW r \in 0..(100 * (Cardinality(I) - 1)), NEW q \in r..(100 * (Cardinality(I) - 1))
    PROVE  Interpolated(s, I, r) <= Interpolated(s, I, q)
<1> DEFINE n == Cardinality(I)
           k == r \div 100 + 1
           d == r % 100
           l == q \div 100 + 1
           e == q % 100
           Kt(j) == Kth(s, I, j)
<1>1. n \in Nat \ {0}
  BY RanksFinite
<1> HIDE DEF n
<1>2. /\ r \in Nat /\ q \in Nat /\ r <= q /\ q <= 100 * (n - 1)
  BY <1>1 DEF n
<1>3. /\ k \in 1..n /\ l \in k..n /\ d \in 0..99 /\ e \in 0..99
      /\ r = 100 * (k - 1) + d /\ q = 100 * (l - 1) + e
  BY <1>1, <1>2
<1> HIDE DEF k, l, d, e
<1>4. \A j \in 1..n : Kt(j) \in Nat
  BY KthExists DEF n
<1>5. \A i \in 1..n : \A j \in i..n : Kt(i) <= Kt(j)
  <2> SUFFICES ASSUME NEW i \in 1..n, NEW j \in i..n PROVE Kt(i) <= Kt(j)
    OBVIOUS
  <2>1. j \in 1..n /\ i <= j
    BY <1>1
  <2> QED BY <2>1, KthRises DEF n
<1>6. Interpolated(s, I, r) = IF k >= n THEN 100 * Kt(n) ELSE 100 * Kt(k) + d * (Kt(k + 1) - Kt(k))
  BY DEF Interpolated, n, k, d
<1>7. Interpolated(s, I, q) = IF l >= n THEN 100 * Kt(n) ELSE 100 * Kt(l) + e * (Kt(l + 1) - Kt(l))
  BY DEF Interpolated, n, l, e
<1> HIDE DEF Kt
<1>8. CASE k >= n
  <2>1. l >= n
    BY <1>1, <1>3, <1>8
  <2>2. Kt(n) \in Nat
    BY <1>1, <1>4
  <2> QED BY <1>6, <1>7, <1>8, <2>1, <2>2
<1>9. CASE k < n
  <2>1. k + 1 \in 1..n /\ k \in 1..n /\ k + 1 \in k..n /\ n \in (k + 1)..n
    BY <1>1, <1>3, <1>9
  <2> DEFINE x == Kt(k)
             g == Kt(k + 1) - Kt(k)
  <2>2. x \in Nat /\ g \in Nat /\ Kt(k + 1) = x + g
    BY <1>4, <1>5, <2>1
  <2>3. Interpolated(s, I, r) = 100 * x + d * g
    BY <1>1, <1>3, <1>6, <1>9
  <2> HIDE DEF x, g
  <2>4. 100 * x + d * g <= 100 * (x + g) /\ d * g \in Nat
    <3>1. (100 - d) * g \in Nat /\ d * g \in Nat /\ 100 * g = d * g + (100 - d) * g
      BY <1>3, <2>2
    <3> QED BY <2>2, <3>1
  <2>5. CASE l >= n
    <3>1. x + g <= Kt(n) /\ Kt(n) \in Nat
      BY <1>1, <1>4, <1>5, <2>1, <2>2
    <3> QED BY <1>7, <2>2, <2>3, <2>4, <2>5, <3>1
  <2>6. CASE l < n /\ l = k
    <3>1. d <= e
      BY <1>2, <1>3, <2>6
    <3>2. (e - d) * g \in Nat /\ e * g = d * g + (e - d) * g /\ e * g \in Nat
      BY <1>3, <2>2, <3>1
    <3>3. Interpolated(s, I, q) = 100 * x + e * g
      BY <1>1, <1>3, <1>7, <2>6 DEF x, g
    <3> QED BY <2>2, <2>3, <2>4, <3>2, <3>3
  <2>7. CASE l < n /\ l # k
    <3>1. l \in 1..n /\ l + 1 \in 1..n /\ l + 1 \in l..n /\ l \in (k + 1)..n
      BY <1>1, <1>3, <2>7
    <3> DEFINE y == Kt(l)
               h == Kt(l + 1) - Kt(l)
    <3>2. y \in Nat /\ h \in Nat /\ x + g <= y
      BY <1>4, <1>5, <2>1, <2>2, <3>1
    <3>3. Interpolated(s, I, q) = 100 * y + e * h
      BY <1>1, <1>3, <1>7, <2>7
    <3> HIDE DEF y, h
    <3>4. e * h \in Nat
      BY <1>3, <3>2
    <3> QED BY <2>2, <2>3, <2>4, <3>2, <3>3, <3>4
  <2> QED BY <1>1, <1>3, <2>5, <2>6, <2>7
<1> QED BY <1>1, <1>3, <1>8, <1>9

(* The ends of the interpolation are the fastest and the slowest sample.   *)
LEMMA InterpolationEnds ==
    ASSUME NEW s, NEW I, Ranked(s, I), Cardinality(I) # 0
    PROVE  /\ Interpolated(s, I, 0) = 100 * Kth(s, I, 1)
           /\ Interpolated(s, I, 100 * (Cardinality(I) - 1)) = 100 * Kth(s, I, Cardinality(I))
<1>1. Cardinality(I) \in Nat \ {0}
  BY RanksFinite
<1>2. 0 \div 100 + 1 = 1 /\ 0 % 100 = 0
  OBVIOUS
<1>3. (100 * (Cardinality(I) - 1)) \div 100 + 1 = Cardinality(I)
  BY <1>1
<1>4. CASE Cardinality(I) = 1
  BY <1>2, <1>3, <1>4 DEF Interpolated
<1>5. CASE Cardinality(I) # 1
  <2>1. ~(1 >= Cardinality(I))
    BY <1>1, <1>5
  <2>2. 1 \in 1..Cardinality(I) /\ 1 + 1 \in 1..Cardinality(I)
    BY <1>1, <1>5
  <2>3. Kth(s, I, 1) \in Nat /\ Kth(s, I, 1 + 1) \in Nat
    BY <2>2, KthExists
  <2>4. Interpolated(s, I, 0) = 100 * Kth(s, I, 1) + 0 * (Kth(s, I, 1 + 1) - Kth(s, I, 1))
    BY <1>2, <2>1 DEF Interpolated
  <2>5. Interpolated(s, I, 100 * (Cardinality(I) - 1)) = 100 * Kth(s, I, Cardinality(I))
    BY <1>1, <1>3 DEF Interpolated
  <2> QED BY <2>3, <2>4, <2>5
<1> QED BY <1>4, <1>5

(* A percentile is a number.                                               *)
LEMMA PercentileIsInt ==
    ASSUME NEW s, Ranked(s, Successes(s)), Cardinality(Successes(s)) # 0, NEW p \in 0..100
    PROVE  Percentile(s, p) \in Int
<1> DEFINE I == Successes(s)
           n == Cardinality(I)
           r == p * (n - 1)
           k == r \div 100 + 1
<1>1. n \in Nat \ {0} /\ r \in 0..(100 * (n - 1)) /\ Percentile(s, p) = Interpolated(s, I, r)
  BY RanksFinite, PercentileIs
<1> HIDE DEF I, n, r
<1>2. k \in 1..n /\ r % 100 \in Nat
  BY <1>1
<1>3. Ranked(s, I)
  BY DEF I
<1>4. \A j \in 1..n : Kth(s, I, j) \in Nat
  BY <1>3, KthExists DEF n
<1>5. n \in 1..n /\ (k >= n \/ k + 1 \in 1..n)
  BY <1>1, <1>2
<1>6. Interpolated(s, I, r) = IF k >= n THEN 100 * Kth(s, I, n)
                              ELSE 100 * Kth(s, I, k) + (r % 100) * (Kth(s, I, k + 1) - Kth(s, I, k))
  BY DEF Interpolated, n
<1> HIDE DEF k
<1> QED BY <1>1, <1>2, <1>4, <1>5, <1>6

(* The median, which is computed in another way, is the 50th percentile.   *)
LEMMA MedianIsMiddle ==
    ASSUME NEW s, Ranked(s, Successes(s)), Cardinality(Successes(s)) # 0
    PROVE  Median(s) = Percentile(s, 50)
<1> DEFINE I == Successes(s)
           n == Cardinality(I)
           mid == n \div 2
           Kt(j) == Kth(s, I, j)
<1>1. n \in Nat \ {0}
  BY RanksFinite
<1>2. \A j \in 1..n : Kt(j) \in Nat
  BY KthExists
<1>3. Percentile(s, 50) = IF (50 * (n - 1)) \div 100 + 1 >= n THEN 100 * Kt(n)
                          ELSE 100 * Kt((50 * (n - 1)) \div 100 + 1)
                               + ((50 * (n - 1)) % 100)
                                 * (Kt((50 * (n - 1)) \div 100 + 1 + 1)
                                    - Kt((50 * (n - 1)) \div 100 + 1))
  BY <1>1 DEF Percentile
<1>4. Median(s) = IF n % 2 = 1 THEN 100 * Kt(mid + 1) ELSE 50 * (Kt(mid) + Kt(mid + 1))
  BY <1>1 DEF Median
<1> HIDE DEF Kt, I, n
<1>5. CASE n % 2 = 1
  <2>1. /\ n = 2 * mid + 1 /\ mid \in Nat
        /\ (50 * (n - 1)) \div 100 + 1 = mid + 1
        /\ (50 * (n - 1)) % 100 = 0
    BY <1>1, <1>5
  <2>2. CASE mid = 0
    BY <1>3, <1>4, <1>5, <2>1, <2>2
  <2>3. CASE mid # 0
    <3> HIDE DEF mid
    <3>1. mid + 1 \in 1..n /\ mid + 1 + 1 \in 1..n /\ ~(mid + 1 >= n)
      BY <2>1, <2>3
    <3>2. Percentile(s, 50) = 100 * Kt(mid + 1) + 0 * (Kt(mid + 1 + 1) - Kt(mid + 1))
      BY <1>3, <2>1, <3>1
    <3>3. Kt(mid + 1) \in Nat /\ Kt(mid + 1 + 1) \in Nat
      BY <1>2, <3>1
    <3> QED BY <1>4, <1>5, <3>2, <3>3
  <2> QED BY <2>2, <2>3
<1>6. CASE n % 2 # 1
  <2>1. /\ n = 2 * mid /\ mid \in Nat \ {0}
        /\ (50 * (n - 1)) \div 100 + 1 = mid
        /\ (50 * (n - 1)) % 100 = 50
    BY <1>1, <1>6
  <2> HIDE DEF mid
  <2>2. mid \in 1..n /\ mid + 1 \in 1..n /\ ~(mid >= n)
    BY <2>1
  <2>3. Percentile(s, 50) = 100 * Kt(mid) + 50 * (Kt(mid + 1) - Kt(mid))
    BY <1>3, <2>1, <2>2
  <2>4. Kt(mid) \in Nat /\ Kt(mid + 1) \in Nat
    BY <1>2, <2>2
  <2> QED BY <1>4, <1>6, <2>3, <2>4
<1> QED BY <1>5, <1>6

(***************************************************************************)
(* The histogram and the average.                                          *)
(***************************************************************************)
LEMMA BucketExists ==
    ASSUME NEW ms \in Nat
    PROVE  BucketOf(ms) \in DOMAIN Buckets /\ DOMAIN Buckets = 1..Len(Buckets)
           /\ Len(Buckets) \in Nat \ {0}
<1>1. /\ DOMAIN Buckets = 1..Len(Buckets) /\ Len(Buckets) \in Nat \ {0}
      /\ \A i \in DOMAIN Buckets : Buckets[i] \in Nat
  BY BucketsAssumption
<1> DEFINE Fits == {i \in DOMAIN Buckets : ms <= Buckets[i]}
<1>2. CASE Fits = {}
  BY <1>1, <1>2 DEF BucketOf
<1>3. CASE Fits # {}
  <2>1. Fits \in SUBSET Nat
    BY <1>1
  <2>2. PICK i \in Fits : \A j \in Fits : i <= j
    <3> HIDE DEF Fits
    <3> QED BY <1>3, <2>1, LeastNat
  <2>3. /\ i \in DOMAIN Buckets /\ ms <= Buckets[i]
        /\ \A j \in 1..(i - 1) : Buckets[j] < ms
    <3>1. ASSUME NEW j \in 1..(i - 1) PROVE Buckets[j] < ms
      <4>1. j \in DOMAIN Buckets /\ j \notin Fits
        BY <1>1, <2>2
      <4> QED BY <1>1, <4>1
    <3> QED BY <2>2, <3>1
  <2> QED BY <1>1, <2>3 DEF BucketOf
<1> QED BY <1>2, <1>3

(* The samples in the first b buckets.                                     *)
InFirst(s, b) == {i \in DOMAIN s : BucketOf(s[i].ms) <= b}

LEMMA FirstBuckets ==
    ASSUME NEW s, NEW n \in Nat, DOMAIN s = 1..n, \A i \in 1..n : s[i].ms \in Nat
    PROVE  /\ Cardinality(InFirst(s, 0)) = 0
           /\ Cardinality(InFirst(s, Len(Buckets))) = n
           /\ \A b \in 1..Len(Buckets) :
                 Cardinality(InFirst(s, b)) =
                    Cardinality(InFirst(s, b - 1))
                    + Cardinality({i \in DOMAIN s : BucketOf(s[i].ms) = b})
<1>1. \A i \in 1..n : BucketOf(s[i].ms) \in 1..Len(Buckets)
  BY BucketExists
<1>2. InFirst(s, 0) = {}
  BY <1>1 DEF InFirst
<1>3. InFirst(s, Len(Buckets)) = 1..n
  BY <1>1 DEF InFirst
<1>4. IsFiniteSet(1..n) /\ Cardinality(1..n) = n
  BY FS_Interval
<1>5. ASSUME NEW b \in 1..Len(Buckets)
      PROVE  Cardinality(InFirst(s, b)) =
                Cardinality(InFirst(s, b - 1))
                + Cardinality({i \in DOMAIN s : BucketOf(s[i].ms) = b})
  <2> DEFINE A == InFirst(s, b - 1)
             B == {i \in DOMAIN s : BucketOf(s[i].ms) = b}
  <2>1. InFirst(s, b) = A \cup B /\ A \cap B = {} /\ A \subseteq 1..n /\ B \subseteq 1..n
    BY <1>1 DEF InFirst
  <2> HIDE DEF A, B
  <2>2. IsFiniteSet(A) /\ IsFiniteSet(B)
    BY <1>4, <2>1, FS_Subset
  <2>3. Cardinality(A \cup B) = Cardinality(A) + Cardinality(B) - Cardinality(A \cap B)
    BY <2>2, FS_Union
  <2>4. Cardinality(A \cap B) = 0
    BY <2>1, FS_EmptySet
  <2>5. Cardinality(A) \in Nat /\ Cardinality(B) \in Nat
    BY <2>2, FS_CardinalityType
  <2> QED BY <2>1, <2>3, <2>4, <2>5 DEF A, B
<1> QED BY <1>2, <1>3, <1>4, <1>5, FS_EmptySet

(* The successes among the first k samples.                                *)
SuccessesTo(s, k) == {i \in 1..k : s[i].ok}

LEMMA OneMoreSuccess ==
    ASSUME NEW s, NEW k \in Nat \ {0}
    PROVE  /\ Cardinality(SuccessesTo(s, k)) \in Nat /\ Cardinality(SuccessesTo(s, k - 1)) \in Nat
           /\ Cardinality(SuccessesTo(s, k)) =
                 Cardinality(SuccessesTo(s, k - 1)) + (IF s[k].ok THEN 1 ELSE 0)
<1>1. /\ SuccessesTo(s, k) = IF s[k].ok THEN SuccessesTo(s, k - 1) \cup {k}
                             ELSE SuccessesTo(s, k - 1)
      /\ k \notin SuccessesTo(s, k - 1)
      /\ SuccessesTo(s, k - 1) \subseteq 1..k /\ SuccessesTo(s, k) \subseteq 1..k
  BY DEF SuccessesTo
<1>2. IsFiniteSet(SuccessesTo(s, k - 1)) /\ IsFiniteSet(SuccessesTo(s, k))
  <2>1. IsFiniteSet(1..k)
    BY FS_Interval
  <2> QED BY <1>1, <2>1, FS_Subset
<1>3. Cardinality(SuccessesTo(s, k - 1) \cup {k}) = Cardinality(SuccessesTo(s, k - 1)) + 1
  BY <1>1, <1>2, FS_AddElement
<1>4. Cardinality(SuccessesTo(s, k)) \in Nat /\ Cardinality(SuccessesTo(s, k - 1)) \in Nat
  BY <1>2, FS_CardinalityType
<1> QED BY <1>1, <1>3, <1>4

(* A sum lies between the extremes times the number of its terms.          *)
LEMMA SumBetween ==
    ASSUME NEW n \in Nat, NEW s, NEW f, Sums(f, s, n), NEW lo \in Nat, NEW hi \in Nat,
           \A i \in 1..n : s[i].ms \in lo..hi
    PROVE  /\ lo * Cardinality(SuccessesTo(s, n)) <= f[n]
           /\ f[n] <= hi * Cardinality(SuccessesTo(s, n))
<1> DEFINE c(k) == Cardinality(SuccessesTo(s, k))
           Good(k) == lo * c(k) <= f[k] /\ f[k] <= hi * c(k)
           Bad == {k \in 0..n : ~Good(k)}
<1>1. SUFFICES ASSUME Bad # {} PROVE FALSE
  <2>1. n \in 0..n
    OBVIOUS
  <2> HIDE DEF Good
  <2>2. Good(n)
    BY <1>1, <2>1, Zenon
  <2> QED BY <2>2 DEF Good
<1>2. PICK k \in Bad : \A j \in Bad : k <= j
  <2>1. Bad \in SUBSET Nat
    OBVIOUS
  <2> HIDE DEF Bad
  <2> QED BY <1>1, <2>1, LeastNat
<1>3. k # 0
  <2>1. SuccessesTo(s, 0) = {}
    BY DEF SuccessesTo
  <2>2. c(0) = 0 /\ f[0] = 0
    BY <2>1, FS_EmptySet DEF Sums
  <2>3. Good(0)
    BY <2>2
  <2> HIDE DEF Good
  <2> QED BY <1>2, <2>3
<1>4. k \in 1..n /\ k - 1 \in 0..n
  BY <1>2, <1>3
<1>5. Good(k - 1)
  <2>1. k - 1 \notin Bad
    BY <1>2, <1>4
  <2> HIDE DEF Good
  <2> QED BY <1>4, <2>1
<1>6. /\ c(k) \in Nat /\ c(k - 1) \in Nat
      /\ c(k) = c(k - 1) + (IF s[k].ok THEN 1 ELSE 0)
  BY <1>4, OneMoreSuccess
<1>7. /\ f[k] = f[k - 1] + (IF s[k].ok THEN s[k].ms ELSE 0)
      /\ f[k] \in Nat /\ f[k - 1] \in Nat /\ s[k].ms \in lo..hi
  BY <1>4 DEF Sums, Worth
<1> HIDE DEF c
<1>8. Good(k)
  <2>1. CASE s[k].ok
    <3>1. /\ lo * c(k) = lo * c(k - 1) + lo /\ lo * c(k - 1) \in Nat
          /\ hi * c(k) = hi * c(k - 1) + hi /\ hi * c(k - 1) \in Nat
      BY <1>6, <2>1
    <3>2. f[k] = f[k - 1] + s[k].ms
      BY <1>7, <2>1
    <3> QED BY <1>5, <1>7, <3>1, <3>2
  <2>2. CASE ~s[k].ok
    BY <1>5, <1>6, <1>7, <2>2
  <2> QED BY <2>1, <2>2
<1> HIDE DEF Good
<1> QED BY <1>2, <1>8

LEMMA RingTyped ==
    ASSUME Shape
    PROVE  /\ count \in Nat /\ DOMAIN Newest(count) = 1..count
           /\ \A i \in 1..count : Newest(count)[i].ms \in Nat
<1>1. count \in 0..MaxSamples /\ head \in Slots
      /\ \A i \in 1..count : Newest(count)[i] \in Sample
  BY DEF Shape
<1>2. DOMAIN Newest(count) = 1..count
  BY <1>1, NewestIs
<1>3. \A x \in Sample : x.ms \in Nat
  BY DEF Sample
<1> QED BY <1>1, <1>2, <1>3

(* What one summary says, of the ring it was read from.                    *)
LEMMA SummaryBuckets ==
    ASSUME Shape
    PROVE  LET total[b \in 0..Len(Buckets)] ==
                   IF b = 0 THEN 0 ELSE total[b - 1] + GetSummary.histogram[b]
           IN  total[Len(Buckets)] = count
<1> DEFINE s == Newest(count)
           B == Len(Buckets)
           h == GetSummary.histogram
           Step(g) == [b \in 0..B |-> IF b = 0 THEN 0 ELSE g[b - 1] + h[b]]
           total == CHOOSE g : g = Step(g)
           f == [b \in 0..B |-> Cardinality(InFirst(s, b))]
<1>1. /\ count \in Nat /\ DOMAIN s = 1..count /\ \A i \in 1..count : s[i].ms \in Nat
      /\ B \in Nat \ {0} /\ DOMAIN Buckets = 1..B
  <2>1. B \in Nat \ {0} /\ DOMAIN Buckets = 1..B
    <3>1. 0 \in Nat
      OBVIOUS
    <3> QED BY <3>1, BucketExists
  <2> HIDE DEF B
  <2> QED BY <2>1, RingTyped
<1>2. h = [b \in 1..B |-> Cardinality({i \in DOMAIN s : BucketOf(s[i].ms) = b})]
  BY <1>1 DEF GetSummary
<1> HIDE DEF h, s
<1>3. /\ f[0] = 0 /\ f[B] = count
      /\ \A b \in 1..B : f[b] = f[b - 1] + h[b]
  <2>1. /\ Cardinality(InFirst(s, 0)) = 0 /\ Cardinality(InFirst(s, B)) = count
        /\ \A b \in 1..B : Cardinality(InFirst(s, b)) =
                              Cardinality(InFirst(s, b - 1))
                              + Cardinality({i \in DOMAIN s : BucketOf(s[i].ms) = b})
    BY <1>1, FirstBuckets
  <2>2. \A b \in 1..B : b \in 0..B /\ b - 1 \in 0..B
    BY <1>1
  <2>3. 0 \in 0..B /\ B \in 0..B
    BY <1>1
  <2> QED BY <1>2, <2>1, <2>2, <2>3
<1> DEFINE id == [b \in 0..B |-> f[b]]
<1>4. f = Step(f)
  <2>1. f = id
    OBVIOUS
  <2>2. \A b \in 0..B : f[b] = IF b = 0 THEN 0 ELSE f[b - 1] + h[b]
    <3> HIDE DEF f
    <3> QED BY <1>1, <1>3
  <2> HIDE DEF f
  <2> QED BY <2>1, <2>2
<1>5. total = Step(total)
  <2> HIDE DEF Step, f
  <2> QED BY <1>4
<1>6. total[0] = 0 /\ \A b \in 1..B : total[b] = total[b - 1] + h[b]
  <2> HIDE DEF total
  <2> QED BY <1>1, <1>5
<1>7. total[B] = count
  <2> HIDE DEF f, total, Step, B
  <2>1. f[0] = total[0] /\ B \in Nat
    BY <1>1, <1>3, <1>6
  <2>2. \A b \in 0..B : total[b] = f[b]
    BY <1>3, <1>6, <2>1, SameSteps
  <2>3. B \in 0..B
    BY <2>1
  <2> QED BY <1>3, <2>2, <2>3
<1> QED BY <1>7 DEF h

LEMMA SummaryRoom ==
    ASSUME Shape, ErrorsExact
    PROVE  GetSummary.room = GetSummary.successes
<1>1. DOMAIN Newest(count) = 1..count /\ count \in Nat
  BY NewestIs DEF Shape
<1>2. Successes(Newest(count)) = (1..count) \ Failed
  BY <1>1 DEF Successes, Failed
<1>3. IsFiniteSet(1..count) /\ Cardinality(1..count) = count
  <2>1. 1 \in Int /\ count \in Int
    BY <1>1
  <2>2. /\ IsFiniteSet(1..count)
        /\ Cardinality(1..count) = IF 1 > count THEN 0 ELSE count - 1 + 1
    BY <2>1, FS_Interval
  <2> QED BY <1>1, <2>2
<1>4. (1..count) \cap Failed = Failed
  BY DEF Failed
<1>5. Cardinality((1..count) \ Failed)
         = Cardinality(1..count) - Cardinality((1..count) \cap Failed)
  BY <1>3, FS_Difference, Zenon
<1>6. Cardinality((1..count) \ Failed) = count - Cardinality(Failed)
  BY <1>3, <1>4, <1>5, Zenon
<1> QED BY <1>2, <1>6 DEF GetSummary, ErrorsExact

LEMMA SummaryOrder ==
    ASSUME Shape, SumInv, count > 0, GetSummary.successes > 0
    PROVE  LET g == GetSummary
           IN  /\ 100 * g.min <= g.p50 /\ g.p50 <= g.p90 /\ g.p90 <= g.p95
               /\ g.p95 <= g.p99 /\ g.p99 <= 100 * g.max
               /\ g.median = g.p50
               /\ g.min * g.successes <= g.sum
               /\ g.sum <= g.max * g.successes
<1> DEFINE s == Newest(count)
           I == Successes(s)
           n == Cardinality(I)
           all == {s[i].ms : i \in 1..count}
           lo == CHOOSE v \in all : \A w \in all : v <= w
           hi == CHOOSE v \in all : \A w \in all : w <= v
<1>1. /\ count \in Nat \ {0} /\ DOMAIN s = 1..count /\ \A i \in 1..count : s[i].ms \in Nat
  BY RingTyped
<1>2. GetSummary.successes = n
  BY DEF GetSummary
<1>3. n # 0 /\ n > 0
  BY <1>2
<1>4. I # {}
  BY <1>3, FS_EmptySet
<1>5. /\ GetSummary.min = lo /\ GetSummary.max = hi /\ GetSummary.sum = sum
      /\ GetSummary.median = Median(s)
      /\ GetSummary.p50 = Percentile(s, 50) /\ GetSummary.p90 = Percentile(s, 90)
      /\ GetSummary.p95 = Percentile(s, 95) /\ GetSummary.p99 = Percentile(s, 99)
  BY <1>1, <1>4 DEF GetSummary
<1> HIDE DEF s
<1>6. IsFiniteSet(1..count) /\ 1 \in 1..count
  BY <1>1, FS_Interval
<1>7. Ranked(s, 1..count) /\ Ranked(s, I) /\ I \subseteq 1..count
  <2>1. I \subseteq 1..count
    BY <1>1 DEF Successes
  <2>2. IsFiniteSet(I)
    BY <1>6, <2>1, FS_Subset
  <2> HIDE DEF I
  <2> QED BY <1>1, <1>6, <2>1, <2>2 DEF Ranked
<1>8. lo \in all /\ \A w \in all : lo <= w
  <2>1. all \in SUBSET Nat /\ all # {}
    BY <1>1, <1>6
  <2> HIDE DEF all
  <2>2. \E v \in all : \A w \in all : v <= w
    BY <2>1, LeastNat
  <2> QED BY <2>2
<1>9. hi \in all /\ \A w \in all : w <= hi
  <2>1. PICK i \in 1..count : \A j \in 1..count : s[j].ms <= s[i].ms
    BY <1>6, <1>7, Slowest
  <2>2. s[i].ms \in all /\ \A w \in all : w <= s[i].ms
    BY <2>1
  <2> HIDE DEF all
  <2> QED BY <2>2
<1> HIDE DEF lo, hi
<1>10. lo \in Nat /\ hi \in Nat /\ \A i \in 1..count : s[i].ms \in lo..hi
  BY <1>1, <1>8, <1>9
<1> DEFINE At(p) == p * (n - 1)
           Curve(r) == Interpolated(s, I, r)
<1>11. n \in Nat \ {0}
  BY <1>3, <1>7, RanksFinite
<1>12. \A p \in 0..100 : Percentile(s, p) = Curve(At(p)) /\ At(p) \in 0..(100 * (n - 1))
  <2> SUFFICES ASSUME NEW p \in 0..100
               PROVE  Percentile(s, p) = Curve(At(p)) /\ At(p) \in 0..(100 * (n - 1))
    OBVIOUS
  <2> QED BY <1>3, <1>7, PercentileIs
<1>13. \A q \in 0..(100 * (n - 1)) : \A r \in 0..q : Curve(r) <= Curve(q)
  <2> SUFFICES ASSUME NEW q \in 0..(100 * (n - 1)), NEW r \in 0..q PROVE Curve(r) <= Curve(q)
    OBVIOUS
  <2>1. r \in 0..(100 * (n - 1)) /\ q \in r..(100 * (n - 1))
    BY <1>11
  <2> HIDE DEF I
  <2> QED BY <1>3, <1>7, <2>1, InterpolationRises
<1>14. Curve(0) = 100 * Kth(s, I, 1) /\ Curve(100 * (n - 1)) = 100 * Kth(s, I, n)
  BY <1>3, <1>7, InterpolationEnds
<1>15. Kth(s, I, 1) \in lo..hi /\ Kth(s, I, n) \in lo..hi
  <2>1. 1 \in 1..n /\ n \in 1..n
    BY <1>11
  <2>2. Kth(s, I, 1) \in {s[i].ms : i \in I} /\ Kth(s, I, n) \in {s[i].ms : i \in I}
    BY <1>7, <2>1, KthExists
  <2> HIDE DEF I
  <2> QED BY <1>7, <1>10, <2>2
<1>16. /\ 100 * lo <= Percentile(s, 50)
       /\ Percentile(s, 50) <= Percentile(s, 90) /\ Percentile(s, 90) <= Percentile(s, 95)
       /\ Percentile(s, 95) <= Percentile(s, 99) /\ Percentile(s, 99) <= 100 * hi
  <2> DEFINE a50 == At(50)
             a90 == At(90)
             a95 == At(95)
             a99 == At(99)
             top == 100 * (n - 1)
  <2>1. /\ 0 \in 0..a50 /\ a50 \in 0..a90 /\ a90 \in 0..a95 /\ a95 \in 0..a99 /\ a99 \in 0..top
        /\ a50 \in 0..top /\ a90 \in 0..top /\ a95 \in 0..top /\ top \in 0..top /\ 0 \in 0..top
    BY <1>11
  <2>2. /\ Percentile(s, 50) = Curve(a50) /\ Percentile(s, 90) = Curve(a90)
        /\ Percentile(s, 95) = Curve(a95) /\ Percentile(s, 99) = Curve(a99)
    <3> HIDE DEF Curve
    <3> QED BY <1>12
  <2> HIDE DEF Curve, a50, a90, a95, a99, n
  <2>3. Curve(0) <= Curve(a50) /\ Curve(a99) <= Curve(top)
    BY <1>13, <2>1
  <2>4. Curve(a50) <= Curve(a90) /\ Curve(a90) <= Curve(a95) /\ Curve(a95) <= Curve(a99)
    BY <1>13, <2>1
  <2>5. Curve(a50) \in Int /\ Curve(a99) \in Int
    <3> HIDE DEF top, I
    <3>1. Percentile(s, 50) \in Int /\ Percentile(s, 99) \in Int
      BY <1>3, <1>7, PercentileIsInt DEF n, I
    <3> QED BY <2>2, <3>1
  <2>6. 100 * lo <= 100 * Kth(s, I, 1) /\ 100 * Kth(s, I, n) <= 100 * hi
        /\ Kth(s, I, 1) \in Int /\ Kth(s, I, n) \in Int
    BY <1>10, <1>15
  <2> QED BY <1>10, <1>14, <2>2, <2>3, <2>4, <2>5, <2>6
<1>17. lo * n <= sum /\ sum <= hi * n
  <2>1. PICK f : Sums(f, s, count) /\ sum = f[count]
    BY DEF SumInv, s
  <2>2. SuccessesTo(s, count) = I
    BY <1>1 DEF SuccessesTo, Successes
  <2> HIDE DEF I
  <2> QED BY <1>1, <1>10, <2>1, <2>2, SumBetween
<1>18. Median(s) = Percentile(s, 50)
  BY <1>3, <1>7, MedianIsMiddle
<1> HIDE DEF n
<1> QED BY <1>2, <1>5, <1>16, <1>17, <1>18 DEF n

(* What a summary says agrees with itself, for all samples, buckets and    *)
(* capacities: every sample is in a bucket, the percentiles rise from the  *)
(* smallest latency to the greatest, the median is the 50th of them, and   *)
(* the average lies between the extremes (latency.go:202-262).             *)
THEOREM SummaryAlwaysConsistent == Spec => []SummaryConsistent
<1>1. Shape /\ SumInv /\ ErrorsExact => SummaryConsistent
  BY SummaryBuckets, SummaryRoom, SummaryOrder DEF SummaryConsistent
<1> QED BY <1>1, ErrorsCounted, SumInvInductive, ShapeInductive, PTL

============================================================================
