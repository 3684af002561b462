------------------------- MODULE IcmpProbes_proofs -------------------------
(***************************************************************************)
(* Proofs about IcmpProbes, for any number of targets, probes and sequence *)
(* numbers.                                                                *)
(***************************************************************************)
EXTENDS IcmpProbes, FiniteSetTheorems, SequenceTheorems, TLAPS

USE MaxProbesAssumption, NoneAssumption

Sent(p) == pc[p] \notin {"unborn", "lock", "send"}

(* The probes of a target take turns, and its flag says whose turn it is.  *)
Turns ==
    /\ \A p \in Probes : /\ p > started => pc[p] = "unborn"
                         /\ p <= started => pc[p] # "unborn"
                                            /\ target[p] \in Targets
    /\ \A p, q \in Probes :
          p < q /\ q <= started /\ target[p] = target[q] => pc[p] = "done"
    /\ \A p \in Probes : Alive(p) => inFlight[target[p]]
    /\ \A t \in Targets :
          inFlight[t] => \E p \in Probes : Alive(p) /\ target[p] = t

(* The mutex is held from the request to the reply. *)
Holder == \A p \in Probes : pc[p] \in {"send", "read"} => mutex = p

Replied ==
    /\ \A q \in replies : Sent(q)
    /\ \A p \in Probes :
          /\ outcome[p] # "none" => pc[p] \in {"record", "clear", "done"}
          /\ outcome[p] = "reply" =>
                /\ accepted[p] \in Probes /\ accepted[p] <= p
                /\ Sent(accepted[p])
                /\ target[accepted[p]] = target[p]
                /\ number[accepted[p]] = number[p]

Ordered ==
    /\ \A i \in DOMAIN samples : pc[samples[i].by] \in {"clear", "done"}
    /\ SamplesInOrder

IInv == TypeOK /\ Turns /\ Holder /\ Replied

LEMMA InvInit == Init => IInv
<1> SUFFICES ASSUME Init PROVE IInv
  OBVIOUS
<1>1. samples \in Seq(Sample)
  BY EmptySeq DEF Init
<1>2. stats \in [Counters -> Nat]
  BY DEF Init
<1> QED
  BY <1>1, <1>2 DEF Init, IInv, TypeOK, Turns, Holder, Replied, Sent, Alive,
                    Stages, Outcomes, Probes

LEMMA AppendSample ==
    ASSUME samples \in Seq(Sample), NEW x \in Sample,
           samples' = Append(samples, x)
    PROVE  /\ samples' \in Seq(Sample)
           /\ Len(samples) \in Nat
           /\ DOMAIN samples = 1..Len(samples)
           /\ DOMAIN samples' = 1..(Len(samples) + 1)
           /\ \A i \in 1..Len(samples) : samples'[i] = samples[i]
           /\ samples'[Len(samples) + 1] = x
BY AppendProperties

LEMMA TypeStep ==
    ASSUME TypeOK, Turns, Holder, [Next]_vars
    PROVE  TypeOK'
<1> USE DEF TypeOK, Holder, Turns, Stages, Outcomes, Goes, loopVars, netVars,
            Returns, Counted, Counters
<1>1. ASSUME NEW t \in Targets, ProbeOne(t)
      PROVE  TypeOK'
  BY <1>1 DEF ProbeOne, Probes
<1>2. ASSUME NEW p \in Probes, Waits(p)
      PROVE  TypeOK'
  BY <1>2 DEF Waits
<1>3. ASSUME NEW p \in Probes, Lock(p)
      PROVE  TypeOK'
  BY <1>3 DEF Lock
<1>4. ASSUME NEW p \in Probes, SendFails(p)
      PROVE  TypeOK'
  BY <1>4 DEF SendFails
<1>5. ASSUME NEW p \in Probes, Send(p)
      PROVE  TypeOK'
  BY <1>5 DEF Send
<1>6. ASSUME NEW p \in Probes, NEW q \in Probes, Accept(p, q)
      PROVE  TypeOK'
  <2>1. /\ pc' = [pc EXCEPT ![p] = "record"] /\ mutex' = None
        /\ accepted' = [accepted EXCEPT ![p] = q]
        /\ outcome' = [outcome EXCEPT ![p] = "reply"]
        /\ replies' = replies \ {q} /\ waited' = waited \ {p}
        /\ UNCHANGED <<started, target, inFlight, number, samples>>
    BY <1>6 DEF Accept
  <2>2. stats' \in [Counters -> Nat]
    BY <1>6 DEF Accept
  <2> QED BY <2>1, <2>2
<1>7. ASSUME NEW p \in Probes, NEW q \in Probes, Discard(p, q)
      PROVE  TypeOK'
  BY <1>7 DEF Discard
<1>8. ASSUME NEW p \in Probes, ReadFails(p) \/ TimesOut(p) \/ Canceled(p)
      PROVE  TypeOK'
  <2>1. /\ pc' = [pc EXCEPT ![p] = "record"] /\ mutex' = None
        /\ waited' = waited \ {p}
        /\ UNCHANGED <<started, target, inFlight, number, replies, accepted,
                       samples>>
    BY <1>8 DEF ReadFails, TimesOut, Canceled
  <2>2. \E how \in Outcomes : outcome' = [outcome EXCEPT ![p] = how]
    BY <1>8 DEF ReadFails, TimesOut, Canceled
  <2>3. stats' \in [Counters -> Nat]
    BY <1>8 DEF ReadFails, TimesOut, Canceled
  <2> QED BY <2>1, <2>2, <2>3
<1>9. ASSUME NEW p \in Probes, Record(p)
      PROVE  TypeOK'
  <2>1. samples' \in Seq(Sample)
    <3> DEFINE x == [by |-> p, ok |-> outcome[p] = "reply"]
    <3>1. x \in Sample
      BY DEF Sample
    <3>2. samples' = Append(samples, x)
      BY <1>9 DEF Record
    <3> QED BY <3>1, <3>2, AppendSample
  <2> QED BY <1>9, <2>1 DEF Record
<1>10. ASSUME NEW p \in Probes, Clear(p)
       PROVE  TypeOK'
  BY <1>10, ZenonT(60) DEF Clear
<1>11. CASE UNCHANGED vars
  BY <1>11 DEF vars
<1> QED
  BY <1>1, <1>2, <1>3, <1>4, <1>5, <1>6, <1>7, <1>8, <1>9, <1>10, <1>11
     DEF Next, Step

(* What the steps of a probe between its first and its last have in common. *)
Moves(p) ==
    /\ UNCHANGED <<started, target, inFlight>>
    /\ Alive(p)
    /\ \E s \in Stages \ {"unborn", "done"} : pc' = [pc EXCEPT ![p] = s]

LEMMA StepsMove ==
    ASSUME TypeOK, NEW p \in Probes,
           \/ Waits(p) \/ Lock(p) \/ SendFails(p) \/ Send(p) \/ ReadFails(p)
           \/ TimesOut(p) \/ Canceled(p) \/ Record(p)
           \/ \E q \in Probes : Accept(p, q) \/ Discard(p, q)
    PROVE  Moves(p)
<1> USE DEF Moves, Alive, Goes, loopVars, TypeOK, Stages
<1>1. CASE Waits(p) \/ Lock(p)
  <2>1. pc' = [pc EXCEPT ![p] = pc'[p]] /\ pc'[p] \in {"lock", "send"}
    BY <1>1 DEF Waits, Lock
  <2> QED BY <1>1, <2>1 DEF Waits, Lock
<1>2. CASE SendFails(p) \/ Send(p)
  BY <1>2 DEF SendFails, Send
<1>3. CASE ReadFails(p) \/ TimesOut(p) \/ Canceled(p)
  BY <1>3 DEF ReadFails, TimesOut, Canceled
<1>4. CASE Record(p)
  BY <1>4 DEF Record
<1>5. ASSUME NEW q \in Probes, Accept(p, q)
      PROVE  Moves(p)
  BY <1>5 DEF Accept
<1>6. ASSUME NEW q \in Probes, Discard(p, q)
      PROVE  Moves(p)
  <2>1. pc' = [pc EXCEPT ![p] = "read"] /\ pc[p] = "read"
    BY <1>6 DEF Discard
  <2> QED BY <1>6, <2>1 DEF Discard
<1> QED BY <1>1, <1>2, <1>3, <1>4, <1>5, <1>6

LEMMA TurnsStep ==
    ASSUME TypeOK, Turns, [Next]_vars
    PROVE  Turns'
<1>1. ASSUME NEW t \in Targets, ProbeOne(t)
      PROVE  Turns'
  <2> DEFINE n == started + 1
  <2>1. /\ n \in Probes /\ pc[n] = "unborn" /\ ~inFlight[t]
        /\ started' = n
        /\ pc' = [pc EXCEPT ![n] = "lock"]
        /\ target' = [target EXCEPT ![n] = t]
        /\ inFlight' = [inFlight EXCEPT ![t] = TRUE]
    BY <1>1 DEF ProbeOne, TypeOK, Turns, Probes
  <2>2. \A p \in Probes : p <= started /\ target[p] = t => pc[p] = "done"
    BY <2>1 DEF Turns, Alive
  <2> HIDE DEF n
  <2>3. \A p \in Probes : p <= started' <=> p <= started \/ p = n
    BY <2>1 DEF n, TypeOK, Probes
  <2>4. /\ started \in Int /\ n \in Int /\ n > started
        /\ \A p \in Probes : p \in Int /\ (p < n => p <= started)
    BY <2>1 DEF n, TypeOK, Probes
  <2>t. pc \in [Probes -> Stages] /\ target \in [Probes -> Targets \cup {None}]
    BY DEF TypeOK
  <2>5. ASSUME NEW p \in Probes
        PROVE  /\ p > started' => pc'[p] = "unborn"
               /\ p <= started' => pc'[p] # "unborn" /\ target'[p] \in Targets
    <3>1. CASE p = n
      BY <2>1, <2>4, <2>t, <3>1
    <3>2. CASE p # n
      <4>1. pc'[p] = pc[p] /\ target'[p] = target[p]
        BY <2>1, <2>t, <3>2
      <4>2. p > started' => p > started
        BY <2>1, <2>4
      <4>3. p <= started' => p <= started
        BY <2>3, <3>2
      <4> QED BY <4>1, <4>2, <4>3 DEF Turns
    <3> QED BY <3>1, <3>2
  <2>6. ASSUME NEW p \in Probes, NEW q \in Probes,
               p < q, q <= started', target'[p] = target'[q]
        PROVE  pc'[p] = "done"
    <3>1. p <= started /\ p # n
      BY <2>1, <2>4, <2>6
    <3>2. CASE q = n
      BY <2>1, <2>2, <2>t, <2>6, <3>1, <3>2
    <3>3. CASE q # n
      BY <2>1, <2>3, <2>t, <2>6, <3>1, <3>3 DEF Turns
    <3> QED BY <3>2, <3>3
  <2>7. \A p \in Probes : Alive(p)' => inFlight'[target'[p]]
    BY <2>1, <2>3, <2>4 DEF TypeOK, Turns, Alive, Probes
  <2>8. \A u \in Targets :
           inFlight'[u] => \E p \in Probes : Alive(p)' /\ target'[p] = u
    BY <2>1 DEF TypeOK, Turns, Alive
  <2> QED BY <2>5, <2>6, <2>7, <2>8 DEF Turns
<1>2. ASSUME NEW p \in Probes, Moves(p)
      PROVE  Turns'
  BY <1>2 DEF Moves, Turns, Alive, TypeOK, Stages
<1>3. ASSUME NEW p \in Probes, Clear(p)
      PROVE  Turns'
  <2>1. /\ UNCHANGED <<started, target>>
        /\ Alive(p) /\ pc' = [pc EXCEPT ![p] = "done"]
        /\ inFlight' = [inFlight EXCEPT ![target[p]] = FALSE]
    BY <1>3 DEF Clear, Goes, loopVars, Alive
  <2>2. p <= started
    BY <2>1 DEF Turns, Alive, TypeOK, Probes
  <2>3. \A q \in Probes \ {p} : Alive(q) => target[q] # target[p]
    BY <2>1, <2>2 DEF Turns, Alive, TypeOK, Probes
  <2>4. \A q \in Probes : Alive(q)' <=> Alive(q) /\ q # p
    BY <2>1 DEF Alive, TypeOK
  <2>5. \A q \in Probes : pc[q] = "done" => pc'[q] = "done"
    BY <2>1 DEF TypeOK
  <2>6. \A q \in Probes : pc[q] = "unborn" <=> pc'[q] = "unborn"
    BY <2>1 DEF TypeOK, Alive
  <2>7. \A q \in Probes : Alive(q)' => inFlight'[target'[q]]
    BY <2>1, <2>3, <2>4 DEF TypeOK, Turns
  <2>8. ASSUME NEW u \in Targets, inFlight'[u]
        PROVE  \E q \in Probes : Alive(q)' /\ target'[q] = u
    <3>1. u # target[p] /\ inFlight[u]
      BY <2>1, <2>8 DEF TypeOK
    <3>2. PICK q \in Probes : Alive(q) /\ target[q] = u
      BY <3>1 DEF Turns
    <3> QED BY <2>1, <2>4, <3>1, <3>2
  <2> QED BY <2>1, <2>5, <2>6, <2>7, <2>8 DEF Turns
<1>4. CASE UNCHANGED vars
  BY <1>4 DEF vars, Turns, Alive
<1> QED BY <1>1, <1>2, <1>3, <1>4, StepsMove DEF Next, Step

LEMMA HolderStep ==
    ASSUME TypeOK, Turns, Holder, [Next]_vars
    PROVE  Holder'
<1> USE DEF Holder, Goes, Returns
<1>t. pc \in [Probes -> Stages] /\ None \notin Probes
  BY DEF TypeOK
<1>1. ASSUME NEW t \in Targets, ProbeOne(t)
      PROVE  Holder'
  BY <1>t, <1>1 DEF ProbeOne
<1>2. ASSUME NEW p \in Probes, Waits(p) \/ Record(p) \/ Clear(p)
      PROVE  Holder'
  BY <1>t, <1>2 DEF Waits, Record, Clear
<1>3. ASSUME NEW p \in Probes, Lock(p)
      PROVE  Holder'
  BY <1>t, <1>3 DEF Lock
<1>4. ASSUME NEW p \in Probes, Send(p)
      PROVE  Holder'
  BY <1>t, <1>4 DEF Send
<1>5. ASSUME NEW p \in Probes,
             SendFails(p) \/ ReadFails(p) \/ TimesOut(p) \/ Canceled(p)
      PROVE  Holder'
  <2>1. pc' = [pc EXCEPT ![p] = "record"] /\ pc[p] \in {"send", "read"}
    BY <1>5 DEF SendFails, ReadFails, TimesOut, Canceled
  <2> QED BY <1>t, <2>1
<1>6. ASSUME NEW p \in Probes, NEW q \in Probes, Accept(p, q)
      PROVE  Holder'
  <2>1. pc' = [pc EXCEPT ![p] = "record"] /\ pc[p] = "read"
    BY <1>6 DEF Accept
  <2> QED BY <1>t, <2>1
<1>7. ASSUME NEW p \in Probes, NEW q \in Probes, Discard(p, q)
      PROVE  Holder'
  BY <1>7 DEF Discard
<1>8. CASE UNCHANGED vars
  BY <1>8 DEF vars
<1> QED BY <1>1, <1>2, <1>3, <1>4, <1>5, <1>6, <1>7, <1>8 DEF Next, Step

(* A ping that has been sent keeps its target and its number. *)
LEMMA SentKept ==
    ASSUME TypeOK, Turns, [Next]_vars, NEW q \in Probes, Sent(q)
    PROVE  Sent(q)' /\ target'[q] = target[q] /\ number'[q] = number[q]
<1> USE DEF Sent, Goes, Returns, loopVars, netVars
<1>t. /\ pc \in [Probes -> Stages] /\ target \in [Probes -> Targets \cup {None}]
      /\ number \in [Probes -> Numbers \cup {None}]
  BY DEF TypeOK
<1>1. ASSUME NEW t \in Targets, ProbeOne(t)
      PROVE  Sent(q)' /\ target'[q] = target[q] /\ number'[q] = number[q]
  <2>1. started + 1 \in Probes /\ started + 1 # q
    BY <1>1 DEF ProbeOne, Turns, TypeOK, Probes
  <2> QED BY <1>t, <1>1, <2>1 DEF ProbeOne
<1>2. ASSUME NEW p \in Probes, Send(p)
      PROVE  Sent(q)' /\ target'[q] = target[q] /\ number'[q] = number[q]
  BY <1>t, <1>2 DEF Send
<1>3. ASSUME NEW p \in Probes,
             \/ SendFails(p) \/ ReadFails(p) \/ TimesOut(p) \/ Canceled(p)
             \/ \E r \in Probes : Accept(p, r)
      PROVE  Sent(q)' /\ target'[q] = target[q] /\ number'[q] = number[q]
  <2>1. UNCHANGED <<target, number>> /\ pc' = [pc EXCEPT ![p] = "record"]
    BY <1>3 DEF SendFails, ReadFails, TimesOut, Canceled, Accept
  <2> QED BY <1>t, <2>1
<1>4. ASSUME NEW p \in Probes,
             \/ Waits(p) \/ Lock(p) \/ Record(p) \/ Clear(p)
             \/ \E r \in Probes : Discard(p, r)
      PROVE  Sent(q)' /\ target'[q] = target[q] /\ number'[q] = number[q]
  <2>1. /\ UNCHANGED <<target, number>>
        /\ \/ pc' = pc
           \/ pc[p] = "lock" /\ pc' = [pc EXCEPT ![p] = "send"]
           \/ pc' = [pc EXCEPT ![p] = "clear"]
           \/ pc' = [pc EXCEPT ![p] = "done"]
    BY <1>4 DEF Waits, Lock, Record, Clear, Discard
  <2> QED BY <1>t, <2>1
<1>5. CASE UNCHANGED vars
  BY <1>5 DEF vars
<1> QED BY <1>1, <1>2, <1>3, <1>4, <1>5 DEF Next, Step

(* What a success needs to rest on, of one ping. *)
Justified(p) ==
    /\ outcome[p] # "none" => pc[p] \in {"record", "clear", "done"}
    /\ outcome[p] = "reply" =>
          /\ accepted[p] \in Probes /\ accepted[p] <= p
          /\ Sent(accepted[p])
          /\ target[accepted[p]] = target[p]
          /\ number[accepted[p]] = number[p]

LEMMA RepliedStep ==
    ASSUME TypeOK, Turns, Replied, [Next]_vars
    PROVE  Replied'
<1>t. /\ pc \in [Probes -> Stages] /\ outcome \in [Probes -> Outcomes]
      /\ accepted \in [Probes -> Probes \cup {None}] /\ replies \subseteq Probes
      /\ started \in Nat /\ \A p \in Probes : p \in Nat
  BY DEF TypeOK, Probes
<1>j. \A p \in Probes : Justified(p)
  BY DEF Replied, Justified
<1>k. ASSUME NEW p \in Probes, outcome'[p] = outcome[p],
             accepted'[p] = accepted[p],
             pc[p] \in {"record", "clear", "done"}
                => pc'[p] \in {"record", "clear", "done"}
      PROVE  Justified(p)'
  <2>1. outcome'[p] # "none" => pc'[p] \in {"record", "clear", "done"}
    BY <1>j, <1>k DEF Justified
  <2>2. ASSUME outcome'[p] = "reply"
        PROVE  /\ accepted'[p] \in Probes /\ accepted'[p] <= p
               /\ Sent(accepted[p])'
               /\ target'[accepted'[p]] = target'[p]
               /\ number'[accepted'[p]] = number'[p]
    <3>1. /\ accepted[p] \in Probes /\ accepted[p] <= p
          /\ Sent(accepted[p]) /\ Sent(p)
          /\ target[accepted[p]] = target[p]
          /\ number[accepted[p]] = number[p]
      BY <1>j, <1>k, <2>2 DEF Justified, Sent
    <3>2. /\ Sent(accepted[p])' /\ target'[accepted[p]] = target[accepted[p]]
          /\ number'[accepted[p]] = number[accepted[p]]
      <4>1. PICK q \in Probes : q = accepted[p] /\ q = accepted'[p] /\ Sent(q)
        BY <1>k, <3>1
      <4>2. Sent(q)' /\ target'[q] = target[q] /\ number'[q] = number[q]
        BY <4>1, SentKept
      <4> QED BY <4>1, <4>2 DEF Sent
    <3>3. target'[p] = target[p] /\ number'[p] = number[p]
      BY <3>1, SentKept
    <3> QED BY <1>k, <3>1, <3>2, <3>3
  <2> QED BY <1>k, <2>1, <2>2 DEF Justified, Sent
<1>r. \A q \in replies : Sent(q)'
  BY <1>t, SentKept DEF Replied
<1>1. ASSUME NEW p \in Probes, NEW q \in Probes, Accept(p, q)
      PROVE  Replied'
  <2>1. /\ pc[p] = "read" /\ pc' = [pc EXCEPT ![p] = "record"]
        /\ accepted' = [accepted EXCEPT ![p] = q]
        /\ outcome' = [outcome EXCEPT ![p] = "reply"]
        /\ replies' = replies \ {q} /\ q \in replies
        /\ UNCHANGED <<target, number>>
        /\ target[q] = target[p] /\ number[q] = number[p]
    BY <1>1 DEF Accept, Goes, Returns, loopVars, Matches
  <2>2. Sent(q) /\ Sent(p) /\ Sent(q)'
    BY <1>r, <2>1 DEF Replied, Sent
  <2>3. q <= started
    BY <1>t, <2>2 DEF Turns, Sent
  <2>4. q <= p
    BY <1>t, <2>1, <2>3 DEF Turns
  <2>5. /\ outcome'[p] = "reply" /\ accepted'[p] = q /\ pc'[p] = "record"
    BY <1>t, <2>1
  <2>6. Justified(p)'
    BY <2>1, <2>2, <2>4, <2>5 DEF Justified, Sent
  <2>7. ASSUME NEW r \in Probes \ {p} PROVE Justified(r)'
    BY <1>k, <1>t, <2>1
  <2> QED BY <1>r, <2>1, <2>6, <2>7 DEF Replied, Justified, Sent
<1>2. ASSUME NEW p \in Probes,
             SendFails(p) \/ ReadFails(p) \/ TimesOut(p) \/ Canceled(p)
      PROVE  Replied'
  <2>1. /\ pc' = [pc EXCEPT ![p] = "record"]
        /\ \E how \in {"unresolved", "refused", "error", "timeout", "canceled"} :
              outcome' = [outcome EXCEPT ![p] = how]
        /\ UNCHANGED <<accepted, replies>>
    BY <1>2 DEF SendFails, ReadFails, TimesOut, Canceled, Goes, Returns, netVars
  <2>2. Justified(p)'
    BY <1>t, <2>1 DEF Justified
  <2>3. ASSUME NEW r \in Probes \ {p} PROVE Justified(r)'
    BY <1>k, <1>t, <2>1
  <2> QED BY <1>r, <2>1, <2>2, <2>3 DEF Replied, Justified, Sent
<1>3. ASSUME UNCHANGED <<accepted, outcome>>, \A q \in replies' : Sent(q)',
             \A p \in Probes : pc[p] \in {"record", "clear", "done"}
                                  => pc'[p] \in {"record", "clear", "done"}
      PROVE  Replied'
  BY <1>3, <1>k DEF Replied, Justified
<1>4. ASSUME NEW t \in Targets, ProbeOne(t)
      PROVE  Replied'
  <2>1. started + 1 \in Probes /\ pc[started + 1] = "unborn"
    BY <1>4 DEF ProbeOne, Turns, TypeOK, Probes
  <2>2. /\ UNCHANGED <<accepted, outcome, replies>>
        /\ pc' = [pc EXCEPT ![started + 1] = "lock"]
    BY <1>4 DEF ProbeOne, netVars
  <2> QED BY <1>r, <1>t, <1>3, <2>1, <2>2
<1>5. ASSUME NEW p \in Probes,
             \/ Waits(p) \/ Lock(p) \/ Record(p) \/ Clear(p)
             \/ \E q \in Probes : Discard(p, q)
      PROVE  Replied'
  <2>1. /\ UNCHANGED <<accepted, outcome>> /\ replies' \subseteq replies
        /\ \/ pc' = pc
           \/ pc[p] = "lock" /\ pc' = [pc EXCEPT ![p] = "send"]
           \/ pc' = [pc EXCEPT ![p] = "clear"]
           \/ pc' = [pc EXCEPT ![p] = "done"]
    BY <1>5 DEF Waits, Lock, Record, Clear, Discard, Goes, netVars
  <2> QED BY <1>r, <1>t, <1>3, <2>1
<1>6. ASSUME NEW p \in Probes, Send(p)
      PROVE  Replied'
  <2>1. /\ UNCHANGED <<accepted, outcome>> /\ replies' = replies \cup {p}
        /\ pc[p] = "send" /\ pc' = [pc EXCEPT ![p] = "read"]
    BY <1>6 DEF Send, Goes
  <2>2. Sent(p)'
    BY <1>t, <2>1 DEF Sent
  <2> QED BY <1>r, <1>t, <1>3, <2>1, <2>2
<1>7. CASE UNCHANGED vars
  BY <1>7 DEF vars, Replied, Sent, netVars
<1> QED BY <1>1, <1>2, <1>4, <1>5, <1>6, <1>7 DEF Next, Step

LEMMA InvNext ==
    ASSUME IInv, [Next]_vars
    PROVE  IInv'
BY TypeStep, TurnsStep, HolderStep, RepliedStep DEF IInv

LEMMA Inductive == Spec => []IInv
<1> QED BY InvInit, InvNext, PTL DEF Spec

(* Every variable has its type, and the probe that holds the mutex of the  *)
(* backend (native_icmp.go) is in the middle of its ping.                  *)
THEOREM TypeCorrect == Spec => []TypeOK
<1>1. IInv => TypeOK
  BY DEF IInv
<1> QED BY <1>1, Inductive, PTL

(* A success of the prober rests on a reply of the target to this ping, or *)
(* to an earlier one with the same number (matchEchoReply).                *)
THEOREM SuccessesAnswered == Spec => []RepliesMatch
<1>1. IInv => RepliesMatch
  BY DEF IInv, Replied, RepliesMatch
<1> QED BY <1>1, Inductive, PTL

(* The flag of a target stands for exactly one probe of it (probeAll), with *)
(* any number of targets and of rounds.                                     *)
THEOREM ProbesExclusive == Spec => []OneProbePerTarget
<1>1. ASSUME IInv PROVE OneProbePerTarget
  <2> SUFFICES ASSUME NEW t \in Targets
               PROVE  Cardinality({p \in Probes : Alive(p) /\ target[p] = t})
                         = IF inFlight[t] THEN 1 ELSE 0
    BY DEF OneProbePerTarget
  <2> DEFINE S == {p \in Probes : Alive(p) /\ target[p] = t}
  <2>1. CASE inFlight[t]
    <3>1. PICK p \in Probes : Alive(p) /\ target[p] = t
      BY <1>1, <2>1 DEF IInv, Turns
    <3>2. \A q \in S : q <= started /\ q \in Int
      BY <1>1 DEF IInv, TypeOK, Turns, Alive, Probes
    <3>3. p \in S /\ \A q \in S : q = p
      BY <1>1, <3>1, <3>2 DEF IInv, Turns, Alive
    <3>4. S = {p}
      BY <3>3
    <3> QED BY <2>1, <3>4, FS_Singleton
  <2>2. CASE ~inFlight[t]
    <3>1. S = {}
      BY <1>1, <2>2 DEF IInv, Turns
    <3> QED BY <2>2, <3>1, FS_EmptySet
  <2> QED BY <2>1, <2>2
<1> QED BY <1>1, Inductive, PTL

(* Ping holds the mutex from its request to its reply, so what it throws   *)
(* away is late for the ping it answers.                                   *)
THEOREM DiscardsLate == Spec => OnlyLateDiscarded
<1> DEFINE Late == \A q \in replies \ replies' :
                      \/ \E p \in Probes : accepted'[p] = q
                      \/ pc[q] \notin {"send", "read"}
<1>1. ASSUME IInv, [Next]_vars PROVE [Late]_vars
  <2>t. accepted \in [Probes -> Probes \cup {None}]
    BY <1>1 DEF IInv, TypeOK
  <2>1. ASSUME NEW p \in Probes, NEW q \in Probes, Accept(p, q)
        PROVE  Late
    <3>1. replies \ replies' \subseteq {q} /\ accepted'[p] = q
      BY <2>t, <2>1 DEF Accept
    <3> QED BY <3>1
  <2>2. ASSUME NEW p \in Probes, NEW q \in Probes, Discard(p, q)
        PROVE  Late
    <3>1. replies \ replies' \subseteq {q} /\ pc[p] = "read" /\ ~Matches(p, q)
      BY <2>2 DEF Discard
    <3>2. q # p
      BY <3>1 DEF Matches
    <3>3. mutex = p
      BY <1>1, <3>1 DEF IInv, Holder
    <3>4. pc[q] \notin {"send", "read"}
      BY <1>1, <3>2, <3>3 DEF IInv, Holder
    <3> QED BY <3>1, <3>4
  <2>3. CASE \/ \E t \in Targets : ProbeOne(t)
             \/ \E p \in Probes :
                   \/ Waits(p) \/ Lock(p) \/ SendFails(p) \/ Send(p)
                   \/ ReadFails(p) \/ TimesOut(p) \/ Canceled(p)
                   \/ Record(p) \/ Clear(p)
    <3>1. replies \subseteq replies'
      BY <2>3 DEF ProbeOne, Waits, Lock, SendFails, Send, ReadFails, TimesOut,
                  Canceled, Record, Clear, netVars
    <3> QED BY <3>1
  <2>4. CASE UNCHANGED vars
    BY <2>4 DEF vars
  <2> QED BY <1>1, <2>1, <2>2, <2>3, <2>4 DEF Next, Step
<1>2. IInv /\ [Next]_vars => [Late]_vars
  BY <1>1
<1> QED BY <1>2, Inductive, PTL DEF Spec, OnlyLateDiscarded

(* A probe that has recorded its sample has recorded it for good. *)
LEMMA RecordedKept ==
    ASSUME TypeOK, Turns, [Next]_vars, NEW q \in Probes,
           pc[q] \in {"clear", "done"}
    PROVE  pc'[q] \in {"clear", "done"}
<1>t. pc \in [Probes -> Stages]
  BY DEF TypeOK
<1>1. ASSUME NEW t \in Targets, ProbeOne(t)
      PROVE  pc'[q] = pc[q]
  <2>1. started + 1 \in Probes /\ pc[started + 1] = "unborn"
    BY <1>1 DEF ProbeOne, Turns, TypeOK, Probes
  <2> QED BY <1>t, <1>1, <2>1 DEF ProbeOne
<1>2. ASSUME NEW p \in Probes, Waits(p) \/ \E r \in Probes : Discard(p, r)
      PROVE  pc'[q] = pc[q]
  BY <1>2 DEF Waits, Discard
<1>3. ASSUME NEW p \in Probes,
             \/ Lock(p) \/ SendFails(p) \/ Send(p) \/ ReadFails(p)
             \/ TimesOut(p) \/ Canceled(p) \/ Record(p)
             \/ \E r \in Probes : Accept(p, r)
      PROVE  pc'[q] = pc[q]
  <2>1. /\ pc[p] \notin {"clear", "done"}
        /\ \E s \in Stages : pc' = [pc EXCEPT ![p] = s]
    BY <1>3 DEF Lock, SendFails, Send, ReadFails, TimesOut, Canceled, Record,
                Accept, Goes, Stages
  <2> QED BY <1>t, <2>1
<1>4. ASSUME NEW p \in Probes, Clear(p)
      PROVE  pc'[q] \in {"clear", "done"}
  BY <1>t, <1>4 DEF Clear, Goes
<1>5. CASE UNCHANGED vars
  BY <1>5 DEF vars
<1> QED BY <1>1, <1>2, <1>3, <1>4, <1>5 DEF Next, Step

LEMMA OrderedStep ==
    ASSUME IInv, Ordered, [Next]_vars
    PROVE  Ordered'
<1>t. /\ pc \in [Probes -> Stages] /\ samples \in Seq(Sample)
      /\ \A i \in DOMAIN samples : samples[i].by \in Probes
  <2>1. samples \in Seq(Sample)
    BY DEF IInv, TypeOK
  <2>2. \A i \in DOMAIN samples : samples[i] \in Sample
    BY <2>1
  <2> QED BY <2>1, <2>2 DEF IInv, TypeOK, Sample
<1>k. ASSUME NEW i \in DOMAIN samples
      PROVE  /\ pc'[samples[i].by] \in {"clear", "done"}
             /\ target'[samples[i].by] = target[samples[i].by]
  <2>1. PICK p \in Probes : p = samples[i].by /\ pc[p] \in {"clear", "done"}
    BY <1>t DEF Ordered
  <2>2. target'[p] = target[p]
    BY <2>1, SentKept DEF IInv, Sent
  <2>3. pc'[p] \in {"clear", "done"}
    BY <2>1, RecordedKept DEF IInv
  <2> QED BY <2>1, <2>2, <2>3
<1>1. ASSUME samples' = samples
      PROVE  Ordered'
  BY <1>k, <1>1 DEF Ordered, SamplesInOrder
<1>2. ASSUME NEW p \in Probes, Record(p)
      PROVE  Ordered'
  <2> DEFINE x == [by |-> p, ok |-> outcome[p] = "reply"]
             n == Len(samples)
  <2>1. x \in Sample /\ x.by = p
    BY DEF Sample
  <2>2. samples' = Append(samples, x)
    BY <1>2 DEF Record
  <2>3. /\ n \in Nat /\ DOMAIN samples = 1..n /\ DOMAIN samples' = 1..(n + 1)
        /\ \A i \in 1..n : samples'[i] = samples[i]
        /\ samples'[n + 1] = x
    BY <1>t, <2>1, <2>2, AppendSample
  <2> HIDE DEF x, n
  <2>4. /\ pc[p] = "record" /\ pc'[p] = "clear" /\ UNCHANGED target
    BY <1>t, <1>2 DEF Record, Goes, loopVars
  <2>5. ASSUME NEW i \in DOMAIN samples, target[samples[i].by] = target[p]
        PROVE  samples[i].by < p
    <3>1. PICK q \in Probes : q = samples[i].by /\ pc[q] \in {"clear", "done"}
      BY <1>t DEF Ordered
    <3>2. q <= started /\ q \in Int /\ p \in Int
      BY <3>1 DEF IInv, TypeOK, Turns, Probes
    <3>3. q # p /\ ~(p < q)
      BY <2>4, <2>5, <3>1, <3>2 DEF IInv, Turns
    <3> QED BY <3>1, <3>2, <3>3
  <2>6. \A i \in DOMAIN samples' : pc'[samples'[i].by] \in {"clear", "done"}
    BY <1>k, <2>1, <2>3, <2>4
  <2>7. ASSUME NEW i \in DOMAIN samples', NEW j \in DOMAIN samples', i < j,
               target'[samples'[i].by] = target'[samples'[j].by]
        PROVE  samples'[i].by < samples'[j].by
    <3>1. i \in 1..n /\ samples'[i] = samples[i]
      BY <2>3, <2>7
    <3>2. CASE j = n + 1
      BY <2>1, <2>3, <2>4, <2>5, <2>7, <3>1, <3>2
    <3>3. CASE j # n + 1
      BY <2>3, <2>4, <2>7, <3>1, <3>3 DEF Ordered, SamplesInOrder
    <3> QED BY <3>2, <3>3
  <2> QED BY <2>6, <2>7 DEF Ordered, SamplesInOrder
<1>3. samples' = samples \/ \E p \in Probes : Record(p)
  BY DEF Next, Step, vars, ProbeOne, Waits, Lock, SendFails, Send, ReadFails,
         TimesOut, Canceled, Accept, Discard, Clear
<1> QED BY <1>1, <1>2, <1>3

(* The samples of a target come in the order of its probes (icmp.go:187),  *)
(* because the next probe starts only when the last has recorded its own.  *)
THEOREM RecordedInOrder == Spec => []SamplesInOrder
<1>1. Init => Ordered
  BY DEF Init, Ordered, SamplesInOrder
<1>2. IInv /\ Ordered /\ [Next]_vars => Ordered'
  BY OrderedStep
<1>3. Ordered => SamplesInOrder
  BY DEF Ordered
<1> QED BY <1>1, <1>2, <1>3, Inductive, PTL DEF Spec

(* The requests that have no counter, or not yet. *)
Open == {p \in Probes : pc[p] = "read" \/ outcome[p] = "canceled"}

Refused == {p \in Probes : outcome[p] = "refused"}

(* Every request that was sent is counted once more when its ping ends,    *)
(* but for the timeouts that are taken for cancellations, and every one    *)
(* that the socket refused is counted as an error although it is not       *)
(* counted as sent (native_icmp_stats.go:50, native_icmp.go:131, 166).     *)
THEOREM RequestsAccounted == Spec => []PingsAccounted
<1> DEFINE Balance == stats["sent"] + Cardinality(Refused)
                         = stats["received"] + stats["timeouts"]
                           + stats["errors"] + Cardinality(Open)
<1>f. \A S \in SUBSET Probes : IsFiniteSet(S) /\ Cardinality(S) \in Nat
  <2>1. IsFiniteSet(Probes)
    <3>1. 1 \in Int /\ MaxProbes \in Int
      OBVIOUS
    <3> QED BY <3>1, FS_Interval DEF Probes
  <2> QED BY <2>1, FS_Subset, FS_CardinalityType
<1>1. Init => Balance
  <2>1. Init => Open = {} /\ Refused = {}
    BY DEF Init, Open, Refused
  <2>2. Init => \A c \in Counters : stats[c] = 0
    BY DEF Init
  <2>3. Init => Cardinality(Open) = 0 /\ Cardinality(Refused) = 0
    BY <2>1, FS_EmptySet
  <2> QED BY <2>2, <2>3 DEF Counters
<1>2. ASSUME IInv, Balance, [Next]_vars
      PROVE  Balance'
  <2>t. /\ pc \in [Probes -> Stages] /\ outcome \in [Probes -> Outcomes]
        /\ stats \in [Counters -> Nat]
        /\ \A p \in Probes : pc[p] \in {"send", "read"} => outcome[p] = "none"
    BY <1>2 DEF IInv, TypeOK, Replied
  <2>o. /\ Open \in SUBSET Probes /\ Open' \in SUBSET Probes
        /\ Refused \in SUBSET Probes /\ Refused' \in SUBSET Probes
    BY DEF Open, Refused
  <2>1. ASSUME NEW p \in Probes, Send(p)
        PROVE  Balance'
    <3>1. p \notin Open /\ Open' = Open \cup {p} /\ Refused' = Refused
      BY <2>t, <2>1 DEF Send, Goes, Open, Refused
    <3>2. Cardinality(Open') = Cardinality(Open) + 1
      BY <1>f, <2>o, <3>1, FS_AddElement
    <3>3. Balance' <=> stats'["sent"] + Cardinality(Refused')
                          = stats'["received"] + stats'["timeouts"]
                            + stats'["errors"] + Cardinality(Open')
      OBVIOUS
    <3>4. stats' = [stats EXCEPT !["sent"] = @ + 1]
      BY <2>1 DEF Send, Counted
    <3> QED BY <1>2, <1>f, <2>t, <2>o, <3>1, <3>2, <3>3, <3>4 DEF Counters
  <2>2. ASSUME NEW p \in Probes, NEW c \in {"received", "timeouts", "errors"},
               Goes(p, "read", "record"), Counted(c),
               NEW how \in {"reply", "timeout", "error"}, Returns(p, how)
        PROVE  Balance'
    <3>1. p \in Open /\ Open' = Open \ {p} /\ Refused' = Refused
      BY <2>t, <2>2 DEF Goes, Returns, Open, Refused
    <3>2. Cardinality(Open') = Cardinality(Open) - 1
      BY <1>f, <2>o, <3>1, FS_RemoveElement
    <3>4. stats' = [stats EXCEPT ![c] = @ + 1]
      BY <2>2 DEF Counted
    <3> QED BY <1>2, <1>f, <2>t, <2>o, <2>2, <3>1, <3>2, <3>4 DEF Counters
  <2>3. ASSUME Open' = Open, Refused' = Refused, stats' = stats
        PROVE  Balance'
    BY <1>2, <2>3
  <2>4. ASSUME NEW p \in Probes, Canceled(p)
        PROVE  Balance'
    BY <2>t, <2>3, <2>4 DEF Canceled, Goes, Returns, Open, Refused
  <2>11. ASSUME NEW p \in Probes, SendFails(p)
         PROVE  Balance'
    <3>1. Open' = Open /\ p \notin Refused
      BY <2>t, <2>11 DEF SendFails, Goes, Returns, Open, Refused
    <3>2. CASE Returns(p, "unresolved") /\ UNCHANGED stats
      <4>1. Refused' = Refused
        BY <2>t, <2>11, <3>2 DEF SendFails, Goes, Returns, Refused
      <4> QED BY <2>3, <3>1, <3>2, <4>1
    <3>3. CASE Returns(p, "refused") /\ Counted("errors")
      <4>1. Refused' = Refused \cup {p}
        BY <2>t, <3>3 DEF Returns, Refused
      <4>2. Cardinality(Refused') = Cardinality(Refused) + 1
        BY <1>f, <2>o, <3>1, <4>1, FS_AddElement
      <4>3. stats' = [stats EXCEPT !["errors"] = @ + 1]
        BY <3>3 DEF Counted
      <4> QED BY <1>2, <1>f, <2>t, <2>o, <3>1, <4>2, <4>3 DEF Counters
    <3> QED BY <2>11, <3>2, <3>3 DEF SendFails
  <2>5. ASSUME NEW p \in Probes,
               \/ Waits(p) \/ Lock(p) \/ Record(p) \/ Clear(p)
               \/ \E q \in Probes : Discard(p, q)
        PROVE  Balance'
    <3>1. /\ UNCHANGED <<outcome, stats>>
          /\ \/ pc' = pc
             \/ pc[p] = "lock" /\ pc' = [pc EXCEPT ![p] = "send"]
             \/ pc[p] = "record" /\ pc' = [pc EXCEPT ![p] = "clear"]
             \/ pc[p] = "clear" /\ pc' = [pc EXCEPT ![p] = "done"]
      BY <2>5 DEF Waits, Lock, Record, Clear, Discard, Goes
    <3> QED BY <2>t, <2>3, <3>1 DEF Open, Refused
  <2>6. ASSUME NEW t \in Targets, ProbeOne(t)
        PROVE  Balance'
    <3>1. started + 1 \in Probes /\ pc[started + 1] = "unborn"
      BY <1>2, <2>6 DEF ProbeOne, IInv, Turns, TypeOK, Probes
    <3> QED BY <2>t, <2>3, <2>6, <3>1 DEF ProbeOne, Open, Refused
  <2>7. CASE UNCHANGED vars
    BY <2>3, <2>7 DEF vars, Open, Refused
  <2>8. ASSUME NEW p \in Probes, ReadFails(p) PROVE Balance'
    BY <2>2, <2>8 DEF ReadFails
  <2>9. ASSUME NEW p \in Probes, TimesOut(p) PROVE Balance'
    BY <2>2, <2>9 DEF TimesOut
  <2>10. ASSUME NEW p \in Probes, NEW q \in Probes, Accept(p, q) PROVE Balance'
    BY <2>2, <2>10 DEF Accept
  <2> HIDE DEF Balance
  <2> QED BY <1>2, <2>1, <2>4, <2>5, <2>6, <2>7, <2>8, <2>9, <2>10, <2>11
       DEF Next, Step
<1>3. Balance => PingsAccounted
  BY DEF PingsAccounted, Open, Refused
<1>4. IInv /\ Balance /\ [Next]_vars => Balance'
  BY <1>2
<1> QED BY <1>1, <1>3, <1>4, Inductive, PTL DEF Spec
=============================================================================
