------------------------------- MODULE Alarms -------------------------------
(***************************************************************************)
(* What the timers of the client promise: alarms against true time. An     *)
(* alarm that is set rings when its time has passed, never earlier, and at *)
(* most Latency later unless it is stopped or set again first.             *)
(***************************************************************************)
EXTENDS Integers

CONSTANTS
    Names,      \* the alarms
    Period,     \* the time each of them is set to
    Latency     \* how late the application may be

\* The alarm is not set; one that is set is never as late as that.
Off == -Latency - 1

VARIABLES
    left,       \* the time left of every alarm, negative when it is overdue
    rang        \* the alarms that rang in the last step

alarmVars == <<left, rang>>

Init == left = [n \in Names |-> Off] /\ rang = {}

\* No alarm that is set may be missed.
Pass ==
    /\ \A n \in Names : left[n] # Off => left[n] > -Latency
    /\ left' = [n \in Names |-> IF left[n] = Off THEN Off ELSE left[n] - 1]
    /\ rang' = {}

\* A call of the client: what is due may ring, and alarms are set and stopped.
Act ==
    /\ rang' \subseteq {n \in Names : left[n] # Off /\ left[n] <= 0}
    /\ left' \in [Names -> {Off} \cup {left[n] : n \in Names} \cup {Period[n] : n \in Names}]
    /\ \A n \in Names : left'[n] \in {Off, Period[n]} \cup (IF n \in rang' THEN {} ELSE {left[n]})

Next == Pass \/ Act

Spec == Init /\ [][Next]_alarmVars

=============================================================================
