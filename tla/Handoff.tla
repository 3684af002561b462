------------------------------ MODULE Handoff ------------------------------
(***************************************************************************)
(* What the hand-off of inbound BGP connections promises, with no slot, no *)
(* flag and no thread in it.  A connection only moves forward: it waits in *)
(* the backlog, is held, becomes the current one, is closed; it is closed  *)
(* once.  Only an admitted peer's is held, and one at a time is current:   *)
(* it is closed to make way for the next or given up.  A held connection   *)
(* may be lost, one for each taking at most, and only while the daemon     *)
(* serves; what is lost stays so, and the current one never is.            *)
(* PassiveListener implements it.                                          *)
(***************************************************************************)
EXTENDS Naturals

CONSTANTS
    Conn,       \* the connections peers may open
    Allowed     \* those of the configured peer

VARIABLES
    place,      \* where each connection is
    takes,      \* how often a held connection was asked for
    mayLose,    \* the taking under way may still lose one
    serving     \* the listening socket is open

handoff_vars == <<place, takes, mayLose, serving>>

At(p) == {c \in Conn : place[c] = p}

Move(S, to) == place' = [c \in Conn |-> IF c \in S THEN to ELSE place[c]]

HandoffInit ==
    /\ place = [c \in Conn |-> "new"]
    /\ takes = 0 /\ mayLose = FALSE
    /\ serving = TRUE

Arrive ==
    /\ serving
    /\ \E c \in At("new") : Move({c}, "queued")
    /\ UNCHANGED <<takes, mayLose, serving>>

Admit ==
    /\ serving
    /\ \E c \in At("queued") \cap Allowed : Move({c}, "held")
    /\ UNCHANGED <<takes, mayLose, serving>>

TurnAway ==
    /\ \E c \in (At("queued") \ Allowed) \cup At("held") : Move({c}, "closed")
    /\ UNCHANGED <<takes, mayLose, serving>>

Take ==
    /\ serving
    /\ takes' = takes + 1 /\ mayLose' \in BOOLEAN
    /\ UNCHANGED <<place, serving>>

Settle ==
    /\ mayLose' = FALSE
    /\ UNCHANGED <<place, takes, serving>>

Lose ==
    /\ serving /\ mayLose /\ mayLose' = FALSE
    /\ \E c \in At("held") : Move({c}, "lost")
    /\ UNCHANGED <<takes, serving>>

Install ==
    /\ serving
    /\ \E c \in At("held") :
          place' = [d \in Conn |-> IF d = c THEN "current"
                                   ELSE IF place[d] = "current" THEN "closed"
                                   ELSE place[d]]
    /\ UNCHANGED <<takes, mayLose, serving>>

Stop ==
    /\ serving /\ serving' = FALSE
    /\ Move(At("queued"), "closed")
    /\ UNCHANGED <<takes, mayLose>>

Release ==
    /\ Move(At("current"), "closed")
    /\ UNCHANGED <<takes, mayLose, serving>>

HandoffNext ==
    \/ Arrive \/ Admit \/ TurnAway
    \/ Take \/ Settle \/ Lose \/ Install
    \/ Stop \/ Release

HandoffSpec == HandoffInit /\ [][HandoffNext]_handoff_vars

=============================================================================
