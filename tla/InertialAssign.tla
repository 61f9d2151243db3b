--------------------------- MODULE InertialAssign ---------------------------
(***************************************************************************)
(* IEEE 1800-2017 10.3.3, the inertial delay of a continuous assignment.   *)
(* When the right-hand side takes a value: (b) a pending event with this   *)
(* value stays as it is; (c) if the left-hand side has the value already   *)
(* the pending event is dropped; otherwise a new event replaces the        *)
(* pending one.  Settle implements it with generations on a wheel.         *)
(***************************************************************************)
EXTENDS Integers

CONSTANTS
    Delayed,             \* assigns with a delay
    Val,                 \* values
    None,                \* no value
    Never,               \* the delay of a transition that never happens
    Delay(_, _, _)       \* Delay(i, v, val): the delay of i's transition to v

VARIABLES
    val,      \* the nets, which anyone may write
    now,      \* simulated time
    out,      \* out[i]: the value i has put on its left-hand side, or None
    pending   \* pending[i]: the event to come, as a set of at most one [val, due]

Init == /\ now = 0
        /\ out = [i \in Delayed |-> None]
        /\ pending = [i \in Delayed |-> {}]

\* A transition to the same value counts as a rise.
DelayOf(i, v) == Delay(i, IF out[i] = v THEN "1" ELSE v, val)

Event(v, d) == IF d = Never THEN {} ELSE {[val |-> v, due |-> now + d]}

\* The right-hand side of i takes the value v.
Takes(i, v) ==
    /\ \/ out[i] = v /\ pending' = [pending EXCEPT ![i] = {}]
       \/ /\ out[i] # v
          /\ \A e \in pending[i] : e.val # v
          /\ pending' = [pending EXCEPT ![i] = Event(v, DelayOf(i, v))]
    /\ UNCHANGED <<now, out>>

\* Before the first process runs a zero delay is no delay.
AtOnce(i, v) == /\ now = 0 /\ DelayOf(i, v) = 0
                /\ out' = [out EXCEPT ![i] = v]
                /\ pending' = [pending EXCEPT ![i] = {}]
                /\ UNCHANGED now

Due(i) == {e \in pending[i] : e.due = now'}

\* Time moves, or the events of a time happen: none is passed.
Tick == /\ now' >= now
        /\ \A i \in Delayed : \A e \in pending[i] : e.due >= now'
        /\ out' = [i \in Delayed |-> IF Due(i) = {} THEN out[i]
                                     ELSE (CHOOSE e \in Due(i) : TRUE).val]
        /\ pending' = [i \in Delayed |-> pending[i] \ Due(i)]

Next == \/ \E i \in Delayed, v \in Val : Takes(i, v) \/ AtOnce(i, v)
        \/ Tick

Spec == Init /\ [][Next]_<<now, out, pending>>
=============================================================================
