---------------------------- MODULE AbstractQueue ----------------------------
(***************************************************************************)
(* What a produconsum_t promises to the two threads that share it, with    *)
(* no counter arithmetic, no mutex and no condition variable: a number of  *)
(* available units between 0 and Size, an end-of-file mark, and one        *)
(* outstanding question of the consumer ("are there min units?").          *)
(* Produconsum.tla is shown to implement this module.                      *)
(***************************************************************************)
EXTENDS Integers

CONSTANTS Size,   \* units the queue holds
          Mins    \* minimum amounts a consumer asks for

VARIABLES avail,   \* units available to the consumer
          closed,  \* the producer announced end of file
          phase,   \* "idle", "asking", "answered" or "eof"
          min,     \* what the outstanding question asks for
          timed,   \* whether that question may time out
          answer   \* the amount the consumer was told of, 0 outside "answered"

absVars == <<avail, closed, phase, min, timed, answer>>

AbsInit ==
    /\ avail = 0
    /\ closed = FALSE
    /\ phase = "idle"
    /\ min = 0
    /\ timed = FALSE
    /\ answer = 0

(* The producer adds units, never more than there is room for. *)
AbsProduce ==
    /\ ~closed
    /\ \E k \in 1 .. Size - avail : avail' = avail + k
    /\ UNCHANGED <<closed, phase, min, timed, answer>>

AbsClose ==
    /\ ~closed
    /\ closed' = TRUE
    /\ UNCHANGED <<avail, phase, min, timed, answer>>

AbsAsk ==
    /\ phase = "idle"
    /\ phase' = "asking"
    /\ \E m \in Mins : min' = m
    /\ timed' \in BOOLEAN
    /\ UNCHANGED <<avail, closed, answer>>

(* The consumer is told of units that are really there; it is told of fewer
   than it asked for only after end of file or, if it set a timeout, when
   that expires. *)
AbsAnswer ==
    /\ phase = "asking"
    /\ \E k \in 0 .. avail :
          /\ k >= min \/ closed \/ timed
          /\ answer' = k
    /\ phase' = "answered"
    /\ UNCHANGED <<avail, closed, min, timed>>

(* The consumer removes at most what it was told of. *)
AbsTake ==
    /\ phase = "answered"
    /\ \E k \in 0 .. answer : avail' = avail - k
    /\ phase' = "idle"
    /\ answer' = 0
    /\ UNCHANGED <<closed, min, timed>>

(* Told of nothing at all by a call without timeout, the consumer ends. *)
AbsGiveUp ==
    /\ phase = "answered"
    /\ answer = 0
    /\ closed
    /\ phase' = "eof"
    /\ UNCHANGED <<avail, closed, min, timed, answer>>

AbsNext ==
    \/ AbsProduce
    \/ AbsClose
    \/ AbsAsk
    \/ AbsAnswer
    \/ AbsTake
    \/ AbsGiveUp

AbsSpec == AbsInit /\ [][AbsNext]_absVars
=============================================================================
