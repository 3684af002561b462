------------------------------ MODULE LabRun ------------------------------
(***************************************************************************)
(* What a run of the memory-leak lab of UVB-76 promises, with no phase,    *)
(* request or signal in it: each part (a child process, a collector, the   *)
(* in-process server) runs at most once, a result is published and the run *)
(* ends only when none of them is left, and a run that succeeds has had    *)
(* all the parts it needs.  MemleakLab implements it.                      *)
(***************************************************************************)
CONSTANT Needed   \* the parts a successful run has had

VARIABLES
    live,       \* the parts that run now
    used,       \* the parts that were ever started
    published,  \* whether result.json is this run's
    outcome     \* "pending", then "success" or "failure"

labvars == <<live, used, published, outcome>>

LabInit ==
    /\ live = {} /\ used = {}
    /\ published = FALSE
    /\ outcome = "pending"

Begin ==
    /\ outcome = "pending" /\ ~published
    /\ live \subseteq live' /\ live' # live
    /\ (live' \ live) \cap used = {}
    /\ used' = used \cup live'
    /\ UNCHANGED <<published, outcome>>

End ==
    /\ live' \subseteq live
    /\ UNCHANGED <<used, published, outcome>>

Publish ==
    /\ outcome = "pending" /\ live = {}
    /\ published' \in BOOLEAN
    /\ outcome' \in {"pending", "success", "failure"}
    /\ outcome' = "success" => published' /\ Needed \subseteq used
    /\ UNCHANGED <<live, used>>

LabSpec == LabInit /\ [][Begin \/ End \/ Publish]_labvars

=============================================================================
