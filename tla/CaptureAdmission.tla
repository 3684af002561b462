------------------------ MODULE CaptureAdmission ------------------------
(***************************************************************************)
(* What the capture service of UVB-76 promises of one diagnostic peer,     *)
(* with no event, timeline, store or thread in it.  A peer is asked for a  *)
(* capture by one trigger at a time; a capture starts only where no        *)
(* successful one stands or the cooldown since it has passed; only a       *)
(* capture that succeeded moves that time, and only forward; and a success *)
(* that can no longer be shown may be forgotten, by the trigger that holds *)
(* the peer.  CaptureCooldown implements it.                               *)
(***************************************************************************)
EXTENDS Integers

CONSTANTS
    Peers,      \* the diagnostic peers of the configuration
    Cooldown,   \* cooldown_seconds, a natural number
    None        \* "no successful capture stands", not a number

VARIABLES
    clock,  \* the time, in seconds
    slot,   \* slot[p]: what the trigger that holds p does, or "free"
    last    \* last[p]: when the last successful capture of p started

avars == <<clock, slot, last>>

AInit ==
    /\ clock = 0
    /\ slot = [p \in Peers |-> "free"]
    /\ last = [p \in Peers |-> None]

Passes ==
    /\ clock' = clock + 1
    /\ UNCHANGED <<slot, last>>

(* The holder of p goes from one stage to another. *)
Moves(p, from, to) ==
    /\ slot[p] = from
    /\ slot' = [slot EXCEPT ![p] = to]
    /\ UNCHANGED clock

Reserves(p) == Moves(p, "free", "deciding") /\ UNCHANGED last

(* A trigger is turned away only while a successful capture stands. *)
TurnedAway(p) ==
    /\ last[p] # None
    /\ Moves(p, "deciding", "free")
    /\ UNCHANGED last

Forgets(p) ==
    /\ slot[p] = "deciding"
    /\ last' = [last EXCEPT ![p] = None]
    /\ UNCHANGED <<clock, slot>>

Starts(p) ==
    /\ last[p] = None \/ clock >= last[p] + Cooldown
    /\ Moves(p, "deciding", "capturing")
    /\ UNCHANGED last

(* The time is that of the start, so it lies in the past. *)
Succeeds(p) ==
    /\ Moves(p, "capturing", "ending")
    /\ \E s \in 0..clock :
          /\ last[p] = None \/ s >= last[p] + Cooldown
          /\ last' = [last EXCEPT ![p] = s]

Fails(p) == Moves(p, "capturing", "ending") /\ UNCHANGED last

Releases(p) == Moves(p, "ending", "free") /\ UNCHANGED last

ANext ==
    \/ Passes
    \/ \E p \in Peers :
          \/ Reserves(p) \/ TurnedAway(p) \/ Forgets(p) \/ Starts(p)
          \/ Succeeds(p) \/ Fails(p) \/ Releases(p)

ASpec == AInit /\ [][ANext]_avars

=============================================================================
