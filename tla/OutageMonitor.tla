-------------------------- MODULE OutageMonitor --------------------------
(***************************************************************************)
(* What the HTTP prober of UVB-76 promises about the outages of a target,  *)
(* with no sample, window or thread in it: the verdicts of the probes form *)
(* one line of ups and downs, and every step of it from down to up is      *)
(* reported as a recovery once, by the probe that took it.  HttpProbes     *)
(* implements it.                                                          *)
(***************************************************************************)
CONSTANT Probes

VARIABLES
    status,    \* the last verdict, "unknown" before the first
    owed,      \* the probes that ended an outage they have not reported
    reported   \* the probes whose recovery is reported

mvars == <<status, owed, reported>>

MInit ==
    /\ status = "unknown"
    /\ owed = {}
    /\ reported = {}

Down ==
    /\ status' = "down"
    /\ UNCHANGED <<owed, reported>>

StaysUp ==
    /\ status # "down"
    /\ status' = "up"
    /\ UNCHANGED <<owed, reported>>

Recovers(p) ==
    /\ status = "down"
    /\ p \notin owed \cup reported
    /\ status' = "up"
    /\ owed' = owed \cup {p}
    /\ UNCHANGED reported

Reports(p) ==
    /\ p \in owed
    /\ owed' = owed \ {p}
    /\ reported' = reported \cup {p}
    /\ UNCHANGED status

MNext ==
    \/ Down \/ StaysUp
    \/ \E p \in Probes : Recovers(p) \/ Reports(p)

MSpec == MInit /\ [][MNext]_mvars

=============================================================================
