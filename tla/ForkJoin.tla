------------------------------ MODULE ForkJoin ------------------------------
(***************************************************************************)
(* The activity arena of the event scheduler: fork / join / join_any /     *)
(* join_none, `wait fork`, `disable fork`, and the two free lists that     *)
(* recycle the slots of completed arms and drained barriers                *)
(* (crates/sim-engine/src/sched/{mod,propagate,wait_fork,kernel}.rs).      *)
(*                                                                         *)
(* One action is one thing a process body, or the run loop between two     *)
(* bodies, does to the arena.  A body runs alone (`cur_aid`) until it      *)
(* suspends, parks, completes or returns.  Which of several ready entries  *)
(* runs next is left open here: the order is the business of RunLoop.      *)
(*                                                                         *)
(* Slots and barriers are numbered from 1 where the code numbers from 0;   *)
(* 0 is None.                                                              *)
(***************************************************************************)
EXTENDS Integers, Sequences, FiniteSets

CONSTANTS
    NProc,        \* top-level processes (`ir.processes.len()`)
    MaxArms,      \* bound: most arms of one fork
    MaxActs,      \* bound: activity slots ever allocated
    MaxBarriers,  \* bound: barrier slots ever allocated
    MaxGen,       \* bound: re-issues of one slot (u32, wrapping, in the code)
    MaxReports,   \* bound: deferred reports pending at once
    TieHalf       \* 2^16: one half of the packed tie key

ASSUME ForkJoinAssumption ==
    /\ NProc \in Nat \ {0}
    /\ MaxArms \in Nat
    /\ MaxActs \in Nat
    /\ NProc <= MaxActs
    /\ MaxBarriers \in Nat
    /\ MaxGen \in Nat
    /\ MaxReports \in Nat
    /\ TieHalf \in Nat \ {0}

Aids     == 1 .. MaxActs
Bars     == 1 .. MaxBarriers
BaseAids == 1 .. NProc
JoinMode == {"All", "Any", "None"}

Activity == [is_child : BOOLEAN, join_ref : 0 .. MaxBarriers, tie : Nat,
             reported : BOOLEAN, dead : BOOLEAN, wait_fork : Nat,
             busy : BOOLEAN, stopped : BOOLEAN, gen : Nat]

Barrier  == [parent : 0 .. MaxActs, mode : JoinMode, outstanding : Nat,
             fired : BOOLEAN]

VARIABLES
    activities,       \* the arena; slots above `acts` are not allocated yet
    acts,             \* activities.len()
    barriers,         \* the join barriers; those above `bars` are not allocated
    bars,             \* barriers.len()
    free_activities,  \* LIFO free list of activity slots
    free_barriers,    \* LIFO free list of barrier slots
    cur_aid,          \* the activity whose body is running, 0 between bodies
    ready,            \* per slot: its entries in the run queues
    armed,            \* per slot: its entries in the delay wheel and waiter list
    deferred,         \* pending deferred-assertion reports, by (aid, gen)
    finished          \* the run has ended

vars == <<activities, acts, barriers, bars, free_activities, free_barriers,
          cur_aid, ready, armed, deferred, finished>>

slots  == <<acts, free_activities>>
joins  == <<barriers, bars, free_barriers>>
queues == <<ready, armed>>

-----------------------------------------------------------------------------
(* Reading the arena.                                                      *)

Live(a) == /\ activities[a].is_child
           /\ ~activities[a].dead
           /\ ~activities[a].reported

ParentOf(a) == barriers[activities[a].join_ref].parent

\* mutant: `wait fork` counts the killed arms too
LiveChildren_CountsKilled(p) ==
    {a \in 1 .. acts : /\ activities[a].is_child
                       /\ ~activities[a].reported
                       /\ ParentOf(a) = p}

\* The unfinished immediate children of p, over every fork it has executed.
LiveChildren(p) == {a \in 1 .. acts : Live(a) /\ ParentOf(a) = p}

\* `disable fork`: the descendants of p, as the smallest set that holds p and
\* every live child of a member.
Descendants(p) ==
    LET Closed(S) == /\ p \in S
                     /\ \A a \in 1 .. acts : Live(a) /\ ParentOf(a) \in S => a \in S
    IN  {a \in 1 .. acts : \A S \in SUBSET (1 .. acts) : Closed(S) => a \in S} \ {p}

-----------------------------------------------------------------------------
(* Slot allocation.                                                        *)

compose_child_tie(parent_tie, child_idx) == (parent_tie + 1) * TieHalf + child_idx

TieOverflow(p, n) == activities[p].tie >= TieHalf - 1 \/ n > TieHalf

\* mutant: slots are taken from the bottom of the list that is popped at the top
ArmSlot_WrongEnd(i) ==
    IF i <= Len(free_activities) THEN free_activities[i]
    ELSE acts + (i - Len(free_activities))

\* Arm i of a fork takes the top of the free list, or a new slot once that is empty.
ArmSlot(i) ==
    IF i <= Len(free_activities)
    THEN free_activities[Len(free_activities) + 1 - i]
    ELSE acts + (i - Len(free_activities))

ArmSlots(n) == {ArmSlot(i) : i \in 1 .. n}

Recycled(n) == IF n <= Len(free_activities) THEN n ELSE Len(free_activities)

JoinSlot == IF free_barriers = <<>> THEN bars + 1
                                    ELSE free_barriers[Len(free_barriers)]

\* mutant: a re-issued slot keeps its generation
NextGen_NotBumped(a) == IF a <= acts THEN activities[a].gen ELSE 0

\* A re-issued slot is the same slot in its next generation.
NextGen(a) == IF a <= acts THEN activities[a].gen + 1 ELSE 0

NewArm(b, parent_tie, i) ==
    [is_child |-> TRUE, join_ref |-> b, tie |-> compose_child_tie(parent_tie, i - 1),
     reported |-> FALSE, dead |-> FALSE, wait_fork |-> 0, busy |-> FALSE,
     stopped |-> FALSE, gen |-> NextGen(ArmSlot(i))]

\* The parent goes on at once: join_none, and a fork without arms.
Continues(mode, n) == mode = "None" \/ n = 0

Fits(n) == /\ JoinSlot <= MaxBarriers
           /\ acts + (n - Recycled(n)) <= MaxActs
           /\ \A a \in ArmSlots(n) : NextGen(a) <= MaxGen

-----------------------------------------------------------------------------
BaseActivity(tie) ==
    [is_child |-> FALSE, join_ref |-> 0, tie |-> tie, reported |-> FALSE,
     dead |-> FALSE, wait_fork |-> 0, busy |-> FALSE, stopped |-> FALSE, gen |-> 0]

Init ==
    /\ activities = [a \in Aids |-> BaseActivity(a - 1)]
    /\ acts = NProc
    /\ barriers = [b \in Bars |-> [parent |-> 0, mode |-> "None",
                                   outstanding |-> 0, fired |-> FALSE]]
    /\ bars = 0
    /\ free_activities = <<>>
    /\ free_barriers = <<>>
    /\ cur_aid = 0
    /\ ready = [a \in Aids |-> 0]
    /\ armed = [a \in Aids |-> 0]
    /\ deferred = {}
    /\ finished = FALSE

Running(a) == cur_aid = a /\ a # 0 /\ ~finished
Between    == cur_aid = 0 /\ ~finished

\* The body gives the thread back, mid-body (busy) or at its end.
Yield(a, busy) == /\ cur_aid' = 0
                  /\ activities' = [activities EXCEPT ![a].busy = busy]

(* The run loop, between bodies.                                           *)

\* mutant: the permanent edge registration re-enters a suspended body
Trigger_WhileBusy(p) ==
    /\ Between
    /\ ready[p] = 0
    /\ ready' = [ready EXCEPT ![p] = @ + 1]
    /\ UNCHANGED <<activities, slots, joins, cur_aid, armed, deferred, finished>>

\* A top-level sensitivity fires.  A process suspended in its body is not
\* re-entered, and one already woken is not woken twice.
Trigger(p) ==
    /\ Between
    /\ ~activities[p].busy
    /\ ready[p] = 0
    /\ ready' = [ready EXCEPT ![p] = @ + 1]
    /\ UNCHANGED <<activities, slots, joins, cur_aid, armed, deferred, finished>>

\* A delay comes due or an in-body wait is satisfied.
Wake(a) ==
    /\ Between
    /\ armed[a] > 0
    /\ armed' = [armed EXCEPT ![a] = @ - 1]
    /\ ready' = [ready EXCEPT ![a] = @ + 1]
    /\ UNCHANGED <<activities, slots, joins, cur_aid, deferred, finished>>

\* `run_body`, the one dispatch choke: the entry of a killed activity is dropped.
Dispatch(a) ==
    /\ Between
    /\ ready[a] > 0
    /\ ready' = [ready EXCEPT ![a] = @ - 1]
    /\ IF activities[a].dead
       THEN /\ activities' = [activities EXCEPT ![a].busy = FALSE]
            /\ UNCHANGED cur_aid
       ELSE /\ cur_aid' = a
            /\ UNCHANGED activities
    /\ UNCHANGED <<slots, joins, armed, deferred, finished>>

\* The Observed region: every run queue is empty, the reports mature.  (A pending `#0`
\* is in `armed`, so the model may mature earlier than the code, never later.)
MatureDeferred ==
    /\ Between
    /\ deferred # {}
    /\ \A a \in 1 .. acts : ready[a] = 0
    /\ deferred' = {}
    /\ UNCHANGED <<activities, slots, joins, cur_aid, queues, finished>>

(* The running body.                                                       *)

\* `#d`, `@(...)`, `wait (e)`: one entry in the wheel or the waiter list.
Suspend(a) ==
    /\ Running(a)
    /\ Yield(a, TRUE)
    /\ armed' = [armed EXCEPT ![a] = @ + 1]
    /\ UNCHANGED <<slots, joins, ready, deferred, finished>>

\* A top-level body reaches its end.
Return(p) ==
    /\ Running(p)
    /\ ~activities[p].is_child
    /\ Yield(p, FALSE)
    /\ UNCHANGED <<slots, joins, queues, deferred, finished>>

\* `$finish`: the body stops for good; the others go on to the end of the time step.
Finish(a) ==
    /\ Running(a)
    /\ cur_aid' = 0
    /\ activities' = [activities EXCEPT ![a].busy = TRUE, ![a].stopped = TRUE]
    /\ UNCHANGED <<slots, joins, queues, deferred, finished>>

\* The barrier is registered before anything can refuse the fork.
RegisterBarrier(p, mode, n, fired) ==
    /\ barriers' = [barriers EXCEPT ![JoinSlot] =
           [parent |-> p, mode |-> mode, outstanding |-> n, fired |-> fired]]
    /\ bars' = IF free_barriers = <<>> THEN bars + 1 ELSE bars
    /\ free_barriers' = IF free_barriers = <<>> THEN free_barriers
                        ELSE SubSeq(free_barriers, 1, Len(free_barriers) - 1)

Fork(p, mode, n) ==
    /\ Running(p)
    /\ ~TieOverflow(p, n)
    /\ Fits(n)
    /\ RegisterBarrier(p, mode, n, Continues(mode, n))
    /\ LET parks == ~Continues(mode, n)
           arm   == [a \in ArmSlots(n) |->
                        LET i == CHOOSE j \in 1 .. n : ArmSlot(j) = a
                        IN  NewArm(JoinSlot, activities[p].tie, i)]
       IN  /\ activities' = [a \in Aids |->
                  IF a \in ArmSlots(n) THEN arm[a]
                  ELSE IF a = p /\ parks THEN [activities[a] EXCEPT !.busy = TRUE]
                  ELSE activities[a]]
           /\ cur_aid' = IF parks THEN 0 ELSE p
    /\ ready' = [a \in Aids |-> IF a \in ArmSlots(n) THEN ready[a] + 1 ELSE ready[a]]
    /\ acts' = acts + (n - Recycled(n))
    /\ free_activities' = SubSeq(free_activities, 1,
                                 Len(free_activities) - Recycled(n))
    /\ UNCHANGED <<armed, deferred, finished>>

\* FORK-TIE-CAP: a fork whose arms' ties would alias ends the run.
ForkRefused(p, mode, n) ==
    /\ Running(p)
    /\ TieOverflow(p, n)
    /\ JoinSlot <= MaxBarriers
    /\ RegisterBarrier(p, mode, n, FALSE)
    /\ Yield(p, TRUE)
    /\ finished' = TRUE
    /\ UNCHANGED <<slots, queues, deferred>>

\* `wait fork` parks on the children still running; with none it falls through.
WaitFork(p) ==
    /\ Running(p)
    /\ LiveChildren(p) # {}
    /\ cur_aid' = 0
    /\ activities' = [activities EXCEPT
           ![p].busy = TRUE, ![p].wait_fork = Cardinality(LiveChildren(p))]
    /\ UNCHANGED <<slots, joins, queues, deferred, finished>>

\* mutant: a completed predecessor's report under a killed slot is dropped too
Cancelled_BySlot(kill) == {k \in deferred : k[1] \in kill}

\* The pending reports of the killed incarnations.
Cancelled(kill) == {k \in deferred :
                       k[1] \in kill /\ k[2] = activities[k[1]].gen}

DisableFork(p) ==
    /\ Running(p)
    /\ LET kill == Descendants(p)
       IN  /\ activities' = [a \in Aids |->
                  IF a \in kill THEN [activities[a] EXCEPT !.dead = TRUE]
                                ELSE activities[a]]
           /\ deferred' = deferred \ Cancelled(kill)
    /\ UNCHANGED <<slots, joins, cur_aid, queues, finished>>

\* mutant: a full join fires one arm early
Fires_Early(b, left) == /\ ~barriers[b].fired
                        /\ \/ barriers[b].mode = "All" /\ left <= 1
                           \/ barriers[b].mode = "Any"

\* The barrier's decision, once `left` arms are still to report.
Fires(b, left) == /\ ~barriers[b].fired
                  /\ \/ barriers[b].mode = "All" /\ left = 0
                     \/ barriers[b].mode = "Any"

\* mutant: a barrier is recycled as soon as it fires
Drains_WhenFired(b, left) == left = 0 \/ Fires(b, left)

\* The barrier's last arm has reported: its slot goes to the free list.
Drains(b, left) == left = 0

\* mutant: the countdown is missing
WaitForkLeft_Never(wf) == wf

\* The parent's `wait fork` countdown; 0 is not parked.
WaitForkLeft(wf) == IF wf > 0 THEN wf - 1 ELSE 0

\* `on_child_complete`: an arm reaches its barrier's join block.
Complete(c) ==
    /\ Running(c)
    /\ activities[c].is_child
    /\ LET b    == activities[c].join_ref
           p    == barriers[b].parent
           left == barriers[b].outstanding - 1
           wf   == activities[p].wait_fork
       IN  /\ activities' = [activities EXCEPT
                  ![c].reported = TRUE, ![c].busy = FALSE,
                  ![p].wait_fork = WaitForkLeft(wf)]
           /\ barriers' = [barriers EXCEPT
                  ![b].outstanding = left, ![b].fired = @ \/ Fires(b, left)]
           /\ free_barriers' = IF Drains(b, left) THEN Append(free_barriers, b)
                                                   ELSE free_barriers
           /\ ready' = [ready EXCEPT ![p] = @ + (IF Fires(b, left) THEN 1 ELSE 0)
                                              + (IF wf = 1 THEN 1 ELSE 0)]
    /\ free_activities' = Append(free_activities, c)
    /\ cur_aid' = 0
    /\ UNCHANGED <<acts, bars, armed, deferred, finished>>

Key(a) == <<a, activities[a].gen>>

\* A deferred assertion fails and files its report.
Defer(a) ==
    /\ Running(a)
    /\ Cardinality(deferred) < MaxReports
    /\ deferred' = deferred \cup {Key(a)}
    /\ UNCHANGED <<activities, slots, joins, cur_aid, queues, finished>>

\* The body passes the assertion's marker again: its own pending report is flushed.
DeferMarker(a) ==
    /\ Running(a)
    /\ deferred' = deferred \ {Key(a)}
    /\ UNCHANGED <<activities, slots, joins, cur_aid, queues, finished>>

ForkSome(a) == \E mode \in JoinMode, n \in 0 .. MaxArms :
                  Fork(a, mode, n) \/ ForkRefused(a, mode, n)

\* The run is over: it was ended, or the run loop finds nothing scheduled.
Quiescent == Between /\ \A a \in 1 .. acts : ready[a] = 0 /\ armed[a] = 0
Ended     == (finished \/ Quiescent) /\ UNCHANGED vars

Next ==
    \/ Ended
    \/ \E p \in BaseAids : Trigger(p)
    \/ \E a \in Aids : Wake(a) \/ Dispatch(a)
    \/ MatureDeferred
    \/ \E a \in Aids : \/ Suspend(a) \/ Return(a) \/ Finish(a)
                       \/ ForkSome(a) \/ WaitFork(a) \/ DisableFork(a)
                       \/ Complete(a) \/ Defer(a) \/ DeferMarker(a)

Spec == Init /\ [][Next]_vars

-----------------------------------------------------------------------------
(* What must hold.                                                         *)

\* Every variable keeps its type; in particular no counter goes below zero.
TypeOK ==
    /\ activities \in [Aids -> Activity]
    /\ acts \in NProc .. MaxActs
    /\ barriers \in [Bars -> Barrier]
    /\ bars \in 0 .. MaxBarriers
    /\ free_activities \in Seq(Aids)
    /\ free_barriers \in Seq(Bars)
    /\ cur_aid \in 0 .. acts
    /\ ready \in [Aids -> Nat]
    /\ armed \in [Aids -> Nat]
    /\ deferred \subseteq Aids \X Nat
    /\ finished \in BOOLEAN

\* The arms that still have to report to barrier b: the killed ones never will.
Unreported(b) == {a \in 1 .. acts : /\ activities[a].is_child
                                    /\ ~activities[a].reported
                                    /\ activities[a].join_ref = b}

Distinct(q) == \A i, j \in 1 .. Len(q) : q[i] = q[j] => i = j
Listed(q)   == {q[i] : i \in 1 .. Len(q)}

\* A barrier's countdown is exact through every recycling of slots: an
\* under-count would fire a join early, an over-count never
\* (on_child_complete_into, exec_fork_into).
BarrierCount ==
    ~finished => \A b \in 1 .. bars :
        barriers[b].outstanding = Cardinality(Unreported(b))

\* A slot on a free list belongs to nobody: it is listed once, its arm has
\* reported, no queue, wheel or waiter entry names it, and no arm will report to
\* a barrier that is up for re-issue.  And nothing that has reported leaks.
RecycledIsGone ==
    /\ Distinct(free_activities) /\ Distinct(free_barriers)
    /\ \A a \in 1 .. acts :
          a \in Listed(free_activities) <=> activities[a].reported
    /\ \A a \in Listed(free_activities) :
          ready[a] = 0 /\ armed[a] = 0 /\ cur_aid # a /\ ~activities[a].dead
    /\ \A b \in Listed(free_barriers) :
          Unreported(b) = {} /\ barriers[b].fired

\* The unfired barrier that holds a parent, when there is one.
Awaited(p) == {b \in 1 .. bars : /\ barriers[b].parent = p
                                 /\ ~barriers[b].fired
                                 /\ Unreported(b) # {}}

Continuations(a) == ready[a] + armed[a] + (IF cur_aid = a THEN 1 ELSE 0)
                      + Cardinality(Awaited(a))
                      + (IF activities[a].wait_fork > 0 THEN 1 ELSE 0)

\* A process is one thread: a suspended body has exactly one thing that will
\* resume it (an entry, its join, or its `wait fork`), an idle one at most a
\* start, a killed arm at most the stale entry that will be dropped, and a body
\* that reached `$finish` nothing.
OneContinuation ==
    ~finished => \A a \in 1 .. acts :
        /\ Continuations(a) <= 1
        /\ (Live(a) \/ (activities[a].busy /\ ~activities[a].dead))
             /\ ~activities[a].stopped => Continuations(a) = 1
        /\ activities[a].reported \/ activities[a].stopped => Continuations(a) = 0

\* A parked `wait fork` counts exactly the children that can still report, over
\* all the forks the process has executed (exec_wait_fork).
WaitForkCount ==
    \A p \in 1 .. acts : activities[p].wait_fork > 0 =>
        activities[p].wait_fork = Cardinality(LiveChildren(p))

\* The arms a step starts, in a new slot or a re-issued one.
Started == {a \in Aids :
               /\ activities'[a].is_child /\ ~activities'[a].reported
               /\ activities[a].reported \/ ~activities[a].is_child}

StartsClean == \A a \in Started : <<a, activities'[a].gen>> \notin deferred

\* A re-issued slot never inherits the pending deferred report of the arm that
\* had the slot before: the generation tells them apart.
FreshReportKey == [][StartsClean]_vars

LostToOwner ==
    \A k \in deferred \ deferred' :
        \/ deferred' = {} /\ cur_aid = 0
        \/ k = Key(k[1]) /\ cur_aid = k[1]
        \/ k = Key(k[1]) /\ activities'[k[1]].dead /\ ~activities[k[1]].dead

\* A pending report is lost only to its own arm's marker, to the killing of its
\* own arm, or to maturing: never to another incarnation of the slot.
ReportLostOnlyByOwner == [][LostToOwner]_vars

-----------------------------------------------------------------------------
(* The promise the arena keeps (ForkPromise), with sets for its counters.  *)

Holding(p) ==
    IF activities[p].wait_fork > 0
    THEN [why |-> "Wait", on |-> LiveChildren(p)]
    ELSE IF Awaited(p) # {}
         THEN LET b == CHOOSE x \in Awaited(p) : TRUE
              IN  [why |-> barriers[b].mode, on |-> Unreported(b)]
         ELSE [why |-> "Free", on |-> {}]

Promise == INSTANCE ForkPromise WITH
    Procs <- BaseAids, Arms <- Aids,
    children <- [p \in BaseAids |-> LiveChildren(p)],
    held <- [p \in BaseAids |-> Holding(p)]

\* A fork's parent resumes exactly when its join mode says so, `wait fork` when
\* the last child is gone, and `disable fork` takes every child.
KeepsPromise == Promise!Spec

-----------------------------------------------------------------------------
(* Liveness.  The run loop empties each batch (strong fairness of Dispatch:  *)
(* other bodies run in between), a body that never yields is ended by the   *)
(* loop guard of run_process, and an arm is taken to be one that terminates *)
(* and waits on delays, which the wheel always delivers.                    *)

FairSpec ==
    /\ Spec
    /\ \A a \in Aids : /\ SF_vars(Dispatch(a))
                       /\ SF_vars(Wake(a))
                       /\ SF_vars(Complete(a))
                       /\ SF_vars(Suspend(a) \/ Return(a))

\* A parent held by a join or a `wait fork` is eventually let go, unless a
\* `$finish` is reached or the run ends first.
HeldIsReleased ==
    \A p \in BaseAids :
        Holding(p).why # "Free"
        ~> Holding(p).why = "Free" \/ finished \/ \E a \in 1 .. acts : activities[a].stopped
=============================================================================
