------------------------------- MODULE TrackLog -------------------------------
(***************************************************************************)
(* What the play logger promises, without queue, loops, database or        *)
(* shutdown: the plays of a stage are logged in the order in which they    *)
(* were announced; each is logged once or given up, and a play given up is *)
(* never logged afterwards.  PlayLog implements this.                      *)
(***************************************************************************)
EXTENDS Integers, Sequences

CONSTANT Stages

VARIABLES
    announced,   \* how many changes each stage has announced
    owed,        \* the plays announced and neither logged nor given up
    rows,        \* the plays logged, oldest first
    lost         \* the plays given up

vars == <<announced, owed, rows, lost>>

Init ==
    /\ announced = [s \in Stages |-> 0]
    /\ owed = {}
    /\ rows = <<>>
    /\ lost = {}

\* A stage announces its next play, which is then owed.
Announce(s) ==
    /\ announced' = [announced EXCEPT ![s] = @ + 1]
    /\ owed' = owed \cup {[stage |-> s, n |-> announced[s] + 1]}
    /\ UNCHANGED <<rows, lost>>

\* The oldest play owed of its stage is logged.
Log(p) ==
    /\ \A q \in owed : q.stage = p.stage => p.n <= q.n
    /\ owed' = owed \ {p}
    /\ rows' = Append(rows, p)
    /\ UNCHANGED <<announced, lost>>

\* A play owed is given up.
Lose(p) ==
    /\ owed' = owed \ {p}
    /\ lost' = lost \cup {p}
    /\ UNCHANGED <<announced, rows>>

Next ==
    \/ \E s \in Stages : Announce(s)
    \/ \E p \in owed : Log(p) \/ Lose(p)

Spec == Init /\ [][Next]_vars
=============================================================================
