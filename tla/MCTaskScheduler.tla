------------------------- MODULE MCTaskScheduler -------------------------
(* Instances of TaskScheduler for TLC. *)
EXTENDS TaskScheduler

CONSTANTS u1, u2, c1, c2

MCTqs == 1 .. 5
MCTqs2 == 1 .. 2
NoLimit == -1

\* A bound of the run TaskScheduler_login.  c2 alone explores all of its input
\* and the clock; where c1 is opened it comes first, the clock stands, and the
\* lines are those of the last connection opened, until it is logged in.
TwoLogins ==
  c1 \in opened =>
    /\ clock = 1
    /\ \A q \in Tqs :
         input[q] > 0 => player[q] = IF c2 \in opened THEN c2 ELSE c1

=============================================================================
