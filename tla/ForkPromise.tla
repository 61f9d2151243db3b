---------------------------- MODULE ForkPromise ----------------------------
(***************************************************************************)
(* What fork / join promises a process, with no counter, free list or      *)
(* queue: which arms of a process are still running, and what the process  *)
(* is held on.  ForkJoin implements it.                                    *)
(***************************************************************************)
CONSTANTS Procs, Arms

VARIABLES
    children,  \* per process, its arms that are running
    held       \* per process, why it is held and the arms it is held on

Free == [why |-> "Free", on |-> {}]

Init == /\ children = [p \in Procs |-> {}]
        /\ held = [p \in Procs |-> Free]

Idle == Arms \ UNION {children[p] : p \in Procs}

Started(p) == children'[p] \ children[p]

\* A fork starts new arms; the process goes on, or is held on them.
Spawn(p) ==
    /\ held[p] = Free
    /\ Started(p) # {} /\ Started(p) \subseteq Idle
    /\ children' = [children EXCEPT ![p] = @ \cup Started(p)]
    /\ \/ UNCHANGED held
       \/ \E mode \in {"All", "Any"} :
             held' = [held EXCEPT ![p] = [why |-> mode, on |-> Started(p)]]

Wait(p) ==
    /\ held[p] = Free
    /\ children[p] # {}
    /\ held' = [held EXCEPT ![p] = [why |-> "Wait", on |-> children[p]]]
    /\ UNCHANGED children

Disable(p) ==
    /\ held[p] = Free
    /\ children' = [children EXCEPT ![p] = {}]
    /\ UNCHANGED held

\* The process is let go by the first arm of a join_any, by the last of the others.
Releases(h, c) == c \in h.on /\ (h.why = "Any" \/ h.on = {c})

\* What holds it once arm c is done.
StillHeld(h, c) == IF Releases(h, c) THEN Free ELSE [h EXCEPT !.on = @ \ {c}]

ArmDone(p, c) ==
    /\ children' = [children EXCEPT ![p] = @ \ {c}]
    /\ held' = [held EXCEPT ![p] = StillHeld(@, c)]

Next == \E p \in Procs :
            \/ Spawn(p)
            \/ Wait(p)
            \/ Disable(p)
            \/ \E c \in children[p] : ArmDone(p, c)

Spec == Init /\ [][Next]_<<children, held>>
=============================================================================
