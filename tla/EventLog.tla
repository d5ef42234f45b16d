------------------------------ MODULE EventLog ------------------------------
(***************************************************************************)
(* What a live stream promises its consumers: one numbered log of events,   *)
(* ended by a last one, that every reader follows from the place where it   *)
(* joined.  A reader may be made to skip events, but it is told how many,   *)
(* never skips the newest one, and is told of the end only after it has     *)
(* accounted for every event of the log.                                    *)
(***************************************************************************)
EXTENDS Integers

CONSTANT Readers

VARIABLES
    last,     \* number of the newest event
    open,     \* whether events may still be added
    cursor,   \* the last event a reader has accounted for, or Away
    said      \* what the reader was last told

Away == -1
Silence == [k |-> "nothing", n |-> 0]

logVars == <<last, open, cursor, said>>

LogInit ==
    /\ last = 0 /\ open = TRUE
    /\ cursor = [r \in Readers |-> Away]
    /\ said = [r \in Readers |-> Silence]

Publish == open /\ last' = last + 1 /\ UNCHANGED <<open, cursor, said>>

Finish == open /\ last' = last + 1 /\ open' = FALSE /\ UNCHANGED <<cursor, said>>

Join(r) ==
    /\ cursor' = [cursor EXCEPT ![r] = last]
    /\ said' = [said EXCEPT ![r] = Silence]
    /\ UNCHANGED <<last, open>>

Deliver(r) ==
    /\ cursor[r] # Away /\ cursor[r] < last
    /\ cursor' = [cursor EXCEPT ![r] = @ + 1]
    /\ said' = [said EXCEPT ![r] = [k |-> "event", n |-> cursor[r] + 1]]
    /\ UNCHANGED <<last, open>>

Skip(r) ==
    /\ cursor[r] # Away
    /\ \E n \in 1..last - cursor[r] - 1 :
           /\ cursor' = [cursor EXCEPT ![r] = @ + n]
           /\ said' = [said EXCEPT ![r] = [k |-> "lagged", n |-> n]]
    /\ UNCHANGED <<last, open>>

End(r) ==
    /\ ~open /\ cursor[r] = last
    /\ said' = [said EXCEPT ![r] = [k |-> "closed", n |-> 0]]
    /\ UNCHANGED <<last, open, cursor>>

Leave(r) ==
    /\ cursor' = [cursor EXCEPT ![r] = Away]
    /\ said' = [said EXCEPT ![r] = Silence]
    /\ UNCHANGED <<last, open>>

LogNext ==
    \/ Publish \/ Finish
    \/ \E r \in Readers : Join(r) \/ Deliver(r) \/ Skip(r) \/ End(r) \/ Leave(r)

LogSpec == LogInit /\ [][LogNext]_logVars

=============================================================================
