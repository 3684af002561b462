---------------------------- MODULE IcmpProbes ----------------------------
(***************************************************************************)
(* The ICMP prober of UVB-76 with its native backend (probe/icmp.go,       *)
(* native_icmp.go): a loop that starts a probe of every target that has    *)
(* none in flight, one socket that all pings share under one mutex, and    *)
(* replies that come late, in any order, or never.                         *)
(*                                                                         *)
(* What a probe does after its sample (the spike decision and the trigger) *)
(* is as in HttpProbes, except that a failed ping is no event; it touches  *)
(* nothing here.                                                           *)
(***************************************************************************)
EXTENDS Integers, Sequences, FiniteSets

CONSTANTS
    Targets,    \* the enabled targets
    Numbers,    \* the sequence numbers: the clock modulo 0xFFFF
    MaxProbes,  \* bound: the probes that are started
    None        \* nobody holds the mutex; no reply was accepted

ASSUME MaxProbesAssumption == MaxProbes \in Nat

Probes == 1..MaxProbes

ASSUME NoneAssumption == None \notin Targets \cup Probes \cup Numbers

VARIABLES
    started,   \* the probes that were started, in order
    target,    \* target[p]: the target of a probe
    inFlight,  \* inFlight[t]: a probe of t has not cleared its flag
    pc,        \* the next step of a probe
    mutex,     \* b.mu: the probe that holds it
    waited,    \* the probes that had to wait for the mutex
    number,    \* number[p]: the sequence number of its echo request
    replies,   \* the pings whose reply is under way or in the socket
    accepted,  \* accepted[p]: the ping whose reply p took for its own
    outcome,   \* outcome[p]: how its ping ended
    stats,     \* sent, received, timeouts, errors
    samples    \* what was recorded: the probe and whether it succeeded

vars == <<started, target, inFlight, pc, mutex, waited, number,
          replies, accepted, outcome, stats, samples>>

loopVars == <<started, target>>
netVars == <<number, replies, accepted>>

Stages == {"unborn", "lock", "send", "read", "record", "clear", "done"}

Sample == [by : Probes, ok : BOOLEAN]

Outcomes ==
    {"none", "unresolved", "refused", "reply", "timeout", "canceled", "error"}

Counters == {"sent", "received", "timeouts", "errors"}

Init ==
    /\ started = 0
    /\ target = [p \in Probes |-> None]
    /\ inFlight = [t \in Targets |-> FALSE]
    /\ pc = [p \in Probes |-> "unborn"]
    /\ mutex = None /\ waited = {}
    /\ number = [p \in Probes |-> None]
    /\ replies = {}
    /\ accepted = [p \in Probes |-> None]
    /\ outcome = [p \in Probes |-> "none"]
    /\ stats = [c \in Counters |-> 0]
    /\ samples = << >>

(********************************* The loop *********************************)

(* Mutant: a target is probed whether a probe of it is in flight or not. *)
ProbeOne_Unguarded(t) ==
    LET p == started + 1
    IN  /\ started < MaxProbes
        /\ started' = p
        /\ target' = [target EXCEPT ![p] = t]
        /\ inFlight' = [inFlight EXCEPT ![t] = TRUE]
        /\ pc' = [pc EXCEPT ![p] = "lock"]
        /\ UNCHANGED <<mutex, waited, netVars, outcome, stats,
                       samples>>

(* probeAll, for one target; the order of the targets is that of a map.    *)
(* Stop only ends these rounds, which may end at any time in any case.     *)
ProbeOne(t) ==
    LET p == started + 1
    IN  /\ started < MaxProbes /\ ~inFlight[t]
        /\ started' = p
        /\ target' = [target EXCEPT ![p] = t]
        /\ inFlight' = [inFlight EXCEPT ![t] = TRUE]
        /\ pc' = [pc EXCEPT ![p] = "lock"]
        /\ UNCHANGED <<mutex, waited, netVars, outcome, stats,
                       samples>>

(********************************** A ping **********************************)

Goes(p, from, to) == pc[p] = from /\ pc' = [pc EXCEPT ![p] = to]

Waits(p) ==
    /\ pc[p] = "lock" /\ mutex # None /\ p \notin waited
    /\ waited' = waited \cup {p}
    /\ UNCHANGED <<loopVars, inFlight, pc, mutex, netVars, outcome, stats,
                   samples>>

Lock(p) ==
    /\ Goes(p, "lock", "send")
    /\ mutex = None
    /\ mutex' = p
    /\ UNCHANGED <<loopVars, inFlight, waited, netVars, outcome, stats,
                   samples>>

(* Ping returns, and unlocks on the way. *)
Returns(p, how) ==
    /\ outcome' = [outcome EXCEPT ![p] = how]
    /\ mutex' = None
    /\ waited' = waited \ {p}

Counted(c) == stats' = [stats EXCEPT ![c] = @ + 1]

(* Mutant: the early return leaves the mutex locked. *)
SendFails_KeepsMutex(p) ==
    /\ Goes(p, "send", "record")
    /\ outcome' = [outcome EXCEPT ![p] = "refused"]
    /\ Counted("errors")
    /\ UNCHANGED <<loopVars, inFlight, mutex, waited, netVars, samples>>

(* Nothing counts as sent.  A host that does not resolve to an IPv4        *)
(* address is counted nowhere, a request that cannot be built or that the  *)
(* socket refuses is an error (parseErrors, permissionErrors or            *)
(* socketOpenErrors).                                                      *)
SendFails(p) ==
    /\ Goes(p, "send", "record")
    /\ \/ Returns(p, "unresolved") /\ UNCHANGED stats
       \/ Returns(p, "refused") /\ Counted("errors")
    /\ UNCHANGED <<loopVars, inFlight, netVars, samples>>

(* Mutant: the mutex guards the write only. *)
Send_Unlocks(p) ==
    /\ Goes(p, "send", "read")
    /\ mutex' = None
    /\ \E n \in Numbers : number' = [number EXCEPT ![p] = n]
    /\ replies' = replies \cup {p}
    /\ Counted("sent")
    /\ UNCHANGED <<loopVars, inFlight, waited, accepted, outcome, samples>>

(* The request goes out and the mutex stays locked for the reply.  When    *)
(* the reply comes, if it does, only a read can tell: late replies wait    *)
(* for whichever ping reads next.                                          *)
Send(p) ==
    /\ Goes(p, "send", "read")
    /\ \E n \in Numbers : number' = [number EXCEPT ![p] = n]
    /\ replies' = replies \cup {p}
    /\ Counted("sent")
    /\ UNCHANGED <<loopVars, inFlight, mutex, waited, accepted, outcome,
                   samples>>

(* Mutant: any reply from the target will do. *)
Matches_AnyNumber(p, q) == target[q] = target[p]

(* matchEchoReply: the identifier is that of the backend and the same for  *)
(* all; the sequence number and the address of the peer are compared.      *)
Matches(p, q) == number[q] = number[p] /\ target[q] = target[p]

Accept(p, q) ==
    /\ q \in replies /\ Matches(p, q)
    /\ Goes(p, "read", "record")
    /\ replies' = replies \ {q}
    /\ accepted' = [accepted EXCEPT ![p] = q]
    /\ Counted("received")
    /\ Returns(p, "reply")
    /\ UNCHANGED <<loopVars, inFlight, number, samples>>

(* A reply that does not match is read and thrown away (unmatchedReplies). *)
Discard(p, q) ==
    /\ pc[p] = "read"
    /\ q \in replies /\ ~Matches(p, q)
    /\ replies' = replies \ {q}
    /\ UNCHANGED <<loopVars, inFlight, pc, mutex, waited, number, accepted,
                   outcome, stats, samples>>

(* A packet of somebody else that cannot be parsed fails the ping          *)
(* (parseErrors), and so does an error of the read itself.                 *)
ReadFails(p) ==
    /\ Goes(p, "read", "record")
    /\ Counted("errors")
    /\ Returns(p, "error")
    /\ UNCHANGED <<loopVars, inFlight, netVars, samples>>

(* The deadline passes. *)
TimesOut(p) ==
    /\ Goes(p, "read", "record")
    /\ Counted("timeouts")
    /\ Returns(p, "timeout")
    /\ UNCHANGED <<loopVars, inFlight, netVars, samples>>

(* The deadline passes after that of the context, which began to run when  *)
(* the probe began to wait for the mutex, and leaves one more second: the  *)
(* timeout is called a cancellation and not counted.                       *)
Canceled(p) ==
    /\ p \in waited
    /\ Goes(p, "read", "record")
    /\ Returns(p, "canceled")
    /\ UNCHANGED <<loopVars, inFlight, netVars, stats, samples>>

Record(p) ==
    /\ Goes(p, "record", "clear")
    /\ samples' = Append(samples, [by |-> p, ok |-> outcome[p] = "reply"])
    /\ UNCHANGED <<loopVars, inFlight, mutex, waited, netVars, outcome, stats>>

Clear(p) ==
    /\ Goes(p, "clear", "done")
    /\ inFlight' = [inFlight EXCEPT ![target[p]] = FALSE]
    /\ UNCHANGED <<loopVars, mutex, waited, netVars, outcome, stats, samples>>

(* A step of the ping that holds the mutex, or of a probe that does not    *)
(* need it.                                                                *)
Step(p) ==
    \/ SendFails(p) \/ Send(p) \/ ReadFails(p)
    \/ TimesOut(p) \/ Canceled(p)
    \/ \E q \in Probes : Accept(p, q) \/ Discard(p, q)
    \/ Record(p) \/ Clear(p)

Next ==
    \/ \E t \in Targets : ProbeOne(t)
    \/ \E p \in Probes : Waits(p) \/ Lock(p) \/ Step(p)

Spec == Init /\ [][Next]_vars

(* Every ping has a deadline, and a Go mutex is handed to the waiter that  *)
(* has waited longest once it starves.  No reply is promised.              *)
FairSpec ==
    /\ Spec
    /\ \A p \in Probes : WF_vars(Step(p)) /\ SF_vars(Lock(p))

(******************************** Properties ********************************)

TypeOK ==
    /\ started \in 0..MaxProbes
    /\ target \in [Probes -> Targets \cup {None}]
    /\ inFlight \in [Targets -> BOOLEAN]
    /\ pc \in [Probes -> Stages]
    /\ mutex \in Probes \cup {None}
    /\ mutex # None => pc[mutex] \in {"send", "read"}
    /\ waited \subseteq Probes
    /\ number \in [Probes -> Numbers \cup {None}]
    /\ replies \subseteq Probes
    /\ accepted \in [Probes -> Probes \cup {None}]
    /\ outcome \in [Probes -> Outcomes]
    /\ stats \in [Counters -> Nat]
    /\ samples \in Seq(Sample)

Alive(p) == pc[p] \notin {"unborn", "done"}

(* The flag of a target stands for exactly one probe of it that has not    *)
(* ended, from the loop to the goroutine (probeAll).                       *)
OneProbePerTarget ==
    \A t \in Targets :
        Cardinality({p \in Probes : Alive(p) /\ target[p] = t})
            = IF inFlight[t] THEN 1 ELSE 0

(* The samples of a target are recorded in the order in which its probes   *)
(* were started, which the HTTP prober does not promise.                   *)
SamplesInOrder ==
    \A i, j \in DOMAIN samples :
        i < j /\ target[samples[i].by] = target[samples[j].by] =>
            samples[i].by < samples[j].by

(* A success rests on a reply of the target to a request that carried the  *)
(* number of this ping: to another request only where the number has come  *)
(* again (native_icmp.go:111 takes it from the clock).                     *)
RepliesMatch ==
    \A p \in Probes : outcome[p] = "reply" =>
        LET q == accepted[p]
        IN  /\ q \in Probes /\ q <= p /\ target[q] = target[p]
            /\ q # p => number[q] = number[p]

(* No ping throws away a reply that another still waits for: what is       *)
(* discarded came too late for the ping it answers (Ping holds the mutex   *)
(* from the request to the reply).                                         *)
OnlyLateDiscarded ==
    [][\A q \in replies \ replies' :
          \/ \E p \in Probes : accepted'[p] = q
          \/ pc[q] \notin {"send", "read"}]_vars

(* Every request that was sent is counted once more when its ping ends,    *)
(* but for the timeouts that look like cancellations, which are counted    *)
(* nowhere; and the errors hold, beside those of requests that were sent,  *)
(* one for each request that the socket refused.                           *)
PingsAccounted ==
    stats["sent"] + Cardinality({p \in Probes : outcome[p] = "refused"}) =
        stats["received"] + stats["timeouts"] + stats["errors"]
        + Cardinality({p \in Probes : pc[p] = "read" \/ outcome[p] = "canceled"})

(* No target is left in flight: however its probe ends, and however long   *)
(* the pings of other targets hold the socket, it is probed again.         *)
TargetsReleased == \A t \in Targets : inFlight[t] ~> ~inFlight[t]

=============================================================================
