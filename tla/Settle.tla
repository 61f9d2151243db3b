------------------------------- MODULE Settle -------------------------------
(***************************************************************************)
(* Continuous assigns (crates/sim-engine/src/sched/scan_arm.rs): the       *)
(* fixpoint over the assigns whose inputs moved, the resolution of nets    *)
(* with several drivers, and the inertial writes of delayed assigns, which *)
(* are decided once the fixpoint has converged and cancelled by raising    *)
(* their driver's generation.                                              *)
(*                                                                         *)
(* A net is one four-state bit with whole-net drivers.  A delayed assign   *)
(* is the sole driver of its net (elaboration refuses anything else).      *)
(***************************************************************************)
EXTENDS Integers, FiniteSets

CONSTANTS
    Nets,
    Inputs,         \* nets that processes write
    NAssigns,       \* assigns 1 .. NAssigns, in declaration order
    Lhs,            \* Lhs[i]: the net assign i drives
    Deps,           \* Deps[i]: the nets its right-hand side reads
    Rhs(_, _),      \* Rhs(i, f): its value, f the values of Deps[i]
    Delayed,        \* the assigns with a delay
    Runtime,        \* those whose delay is read from nets
    Delay(_, _, _), \* Delay(i, v, val): the delay of i's transition to v
    Resolve(_, _),  \* Resolve(n, vs): what drivers with the values vs make of n
    InitVal,        \* InitVal[n]: net n before the first settle
    Initializers,   \* nets with a declaration initializer
    None, Never,
    MaxDeltas,      \* max_deltas
    MaxTime,        \* bound: simulated time
    MaxWrites       \* bound: writes of processes

Assigns == 1 .. NAssigns
Val     == {"0", "1", "x", "z"}

ASSUME SettleAssumption ==
    /\ NAssigns \in Nat /\ MaxDeltas \in Nat /\ MaxTime \in Nat /\ MaxWrites \in Nat
    /\ Lhs \in [Assigns -> Nets \ Inputs]
    /\ Deps \in [Assigns -> SUBSET Nets]
    /\ Delayed \subseteq Assigns /\ Runtime \subseteq Delayed
    /\ \A i \in Delayed, j \in Assigns : Lhs[i] = Lhs[j] => i = j
    /\ InitVal \in [Nets -> Val]
    /\ Initializers \subseteq Inputs /\ Inputs \subseteq Nets
    /\ Never \in Nat /\ None \notin Val
    /\ \A i \in Assigns : \A f \in [Deps[i] -> Val] : Rhs(i, f) \in Val
    /\ \A n \in Nets, vs \in SUBSET Val : Resolve(n, vs) \in Val
    /\ \A i \in Delayed, v \in Val, f \in [Nets -> Val] :
          Delay(i, v, f) \in IF i \in Runtime THEN Nat ELSE Nat \ {Never}

VARIABLES
    val,       \* val[n]: the nets
    phase,     \* "pass", "decide": inside settle_cont_assigns;
               \* "settled": it has converged; "run": something was written
               \* since; "fatal": the delta limit
    pass,      \* assigns this pass has still to visit
    dirty,     \* ca_dirty
    groups,    \* multi-driven nets this pass has still to resolve
    changed,   \* this pass moved a net
    deltas,    \* delta_count
    undecided, \* delayed assigns this round has still to decide
    landings,  \* time-0 writes handed back, as <<i, v>>
    now, armed, pre_init,
    wheel,     \* delayed_ca: entries [ci, gen, tick, val]
    gen,       \* ca_slot[i].gen
    rhs_seen,  \* ca_slot[i].rhs_seen
    last_ca,   \* the value last decided, or None
    last_drv,  \* last_ca_drv: the value last driven, or None
    writes     \* writes of processes so far

nets   == <<val, dirty>>
loop   == <<pass, groups, changed, deltas, undecided, landings>>
inert  == <<wheel, gen, rhs_seen, last_ca, last_drv>>
stage  == <<now, armed, pre_init, writes>>
vars   == <<val, phase, pass, dirty, groups, changed, deltas, undecided, landings,
            now, armed, pre_init, wheel, gen, rhs_seen, last_ca, last_drv, writes>>

-----------------------------------------------------------------------------
Eval(i) == Rhs(i, [n \in Deps[i] |-> val[n]])

Drivers(n) == {i \in Assigns \ Delayed : Lhs[i] = n}

\* multi_driver_groups: nets with several undelayed drivers.
MdNets == {n \in Nets : Cardinality(Drivers(n)) >= 2}
Multi  == {i \in Assigns \ Delayed : Lhs[i] \in MdNets}

\* ca_always: what the worklist does not certify.
Always    == Delayed \cup Multi
Certified == Assigns \ Always

\* mutant: a reader declared before the net's driver is not marked
Readers_Forward(n) == {i \in Certified : /\ n \in Deps[i]
                                         /\ \A j \in Assigns : Lhs[j] = n => j < i}

\* ca_of_net
Readers(n) == {i \in Certified : n \in Deps[i]}

\* write_lvalue and note_change for the writes w, a function from nets: an
\* equal value is no change and marks nobody.
Moved(w) == {n \in DOMAIN w : w[n] # val[n]}
WriteNets(w) ==
    /\ val' = [n \in Nets |-> IF n \in DOMAIN w THEN w[n] ELSE val[n]]
    /\ dirty' = dirty \cup UNION {Readers(n) : n \in Moved(w)}

-----------------------------------------------------------------------------
Init ==
    /\ val = InitVal
    /\ phase = "run"
    /\ pass = {} /\ dirty = Certified /\ groups = {} /\ changed = FALSE
    /\ deltas = 0 /\ undecided = {} /\ landings = {}
    /\ now = 0 /\ armed = FALSE /\ pre_init = (Initializers # {})
    /\ wheel = {}
    /\ gen = [i \in Delayed |-> 0]
    /\ rhs_seen = [i \in Delayed |-> None]
    /\ last_ca = [i \in Delayed |-> None]
    /\ last_drv = [i \in Delayed |-> None]
    /\ writes = 0

\* A pass takes the worklist and clears it.
Pass(marked) ==
        /\ phase' = "pass"
        /\ pass' = marked \cup Always
        /\ dirty' = {}
        /\ changed' = FALSE
        /\ groups' = MdNets

Start == /\ phase = "run"
         /\ Pass(dirty)
         /\ UNCHANGED <<val, deltas, undecided, landings, stage, inert>>

\* An undelayed single driver writes its value; a delayed one that has driven
\* nothing yet drives x; a driver of a resolved net writes nothing here.
Drives(i) == IF i \in Multi \/ (i \in Delayed /\ last_drv[i] # None) THEN <<>>
             ELSE [n \in {Lhs[i]} |-> IF i \in Delayed THEN "x" ELSE Eval(i)]

\* Declaration order.
First(i, S) == i \in S /\ \A j \in S : i <= j

Visit(i) ==
    /\ phase = "pass"
    /\ First(i, pass)
    /\ WriteNets(Drives(i))
    /\ changed' = (changed \/ Moved(Drives(i)) # {})
    /\ pass' = pass \ {i}
    /\ UNCHANGED <<phase, groups, deltas, undecided, landings, stage, inert>>

\* resolve_md_group: one write with what all its drivers make of the net.
ResolveGroup(n) ==
    /\ phase = "pass"
    /\ pass = {} /\ n \in groups
    /\ LET w == [m \in {n} |-> Resolve(n, {Eval(i) : i \in Drivers(n)})]
       IN  /\ WriteNets(w)
           /\ changed' = (changed \/ Moved(w) # {})
    /\ groups' = groups \ {n}
    /\ UNCHANGED <<phase, pass, deltas, undecided, landings, stage, inert>>

\* mutant: a round that moved a net costs nothing
Charge_Free == deltas

Charge == deltas + 1

Over(d) == d > MaxDeltas

\* A round that moved something is one delta; past max_deltas the run is over.
\* marked: the worklist of the next pass.
Again(marked) ==
    /\ deltas' = Charge
    /\ IF Over(deltas')
       THEN /\ phase' = "fatal"
            /\ dirty' = marked
            /\ UNCHANGED <<pass, changed, groups>>
       ELSE Pass(marked)

NextPass ==
    /\ phase = "pass" /\ pass = {} /\ groups = {}
    /\ changed
    /\ Again(dirty)
    /\ UNCHANGED <<val, undecided, landings, stage, inert>>

Converged ==
    /\ phase = "pass" /\ pass = {} /\ groups = {} /\ ~changed
    /\ phase' = "decide"
    /\ undecided' = Delayed
    /\ UNCHANGED <<nets, pass, groups, changed, deltas, landings, stage, inert>>

-----------------------------------------------------------------------------
\* settle_may_land
MayLand == ~armed /\ ~pre_init

\* transition_delay: from the value last driven, not the one last computed.
Transition(i, v) == IF last_drv[i] = v THEN Delay(i, "1", val) ELSE Delay(i, v, val)

\* mutant: initializers are not waited for
Deferred_Never(i, v) == FALSE

\* Before the initializers a runtime delay and a zero delay decide nothing.
Deferred(i, v) == pre_init /\ (i \in Runtime \/ Transition(i, v) = 0)

NextGen(i) == gen[i] + 1

Repeats(i, v) == rhs_seen[i] = v

Keeps(i, v) == /\ last_ca[i] = v
               /\ rhs_seen' = [rhs_seen EXCEPT ![i] = v]
               /\ UNCHANGED <<wheel, gen, last_ca, last_drv, landings>>

\* mutant: a deferred decision counts as made
Defers_Seen(i, v) == /\ rhs_seen' = [rhs_seen EXCEPT ![i] = v]
                     /\ UNCHANGED <<wheel, gen, last_ca, last_drv, landings>>

Defers(i, v) == /\ rhs_seen' = [rhs_seen EXCEPT ![i] = None]
                /\ UNCHANGED <<wheel, gen, last_ca, last_drv, landings>>

Supersedes(i, v) ==
    /\ rhs_seen' = [rhs_seen EXCEPT ![i] = v]
    /\ last_ca' = [last_ca EXCEPT ![i] = v]
    /\ gen' = [gen EXCEPT ![i] = NextGen(i)]

LandsNow(i, v) ==
    /\ last_drv' = [last_drv EXCEPT ![i] = v]
    /\ landings' = landings \cup {<<i, v>>}
    /\ UNCHANGED wheel

Schedules(i, v, d) ==
    /\ wheel' = wheel \cup
         {[ci |-> i, gen |-> gen'[i], tick |-> now + d, val |-> v]}
    /\ UNCHANGED <<last_drv, landings>>

\* schedule_delayed_cas for assign i, whose right-hand side is v.
DecideOn(i, v) ==
    IF Repeats(i, v) THEN UNCHANGED <<inert, landings>>
    ELSE \/ Keeps(i, v)
         \/ last_ca[i] # v /\ Deferred(i, v) /\ Defers(i, v)
         \/ /\ last_ca[i] # v /\ ~Deferred(i, v)
            /\ Supersedes(i, v)
            /\ LET d == Transition(i, v)
               IN  CASE d = Never         -> UNCHANGED <<wheel, last_drv, landings>>
                     [] d = 0 /\ MayLand  -> LandsNow(i, v)
                     [] OTHER             -> Schedules(i, v, d)

Decide(i) ==
    /\ phase = "decide"
    /\ First(i, undecided)
    /\ DecideOn(i, Eval(i))
    /\ undecided' = undecided \ {i}
    /\ UNCHANGED <<nets, phase, pass, groups, changed, deltas, stage>>

Landed == [n \in {Lhs[p[1]] : p \in landings} |->
             (CHOOSE p \in landings : Lhs[p[1]] = n)[2]]

\* The landings are written; if one moved its net the fixpoint runs again.
Land ==
    /\ phase = "decide" /\ undecided = {}
    /\ Moved(Landed) # {}
    /\ landings' = {}
    /\ val' = [n \in Nets |-> IF n \in DOMAIN Landed THEN Landed[n] ELSE val[n]]
    /\ Again(dirty \cup UNION {Readers(n) : n \in Moved(Landed)})
    /\ UNCHANGED <<undecided, stage, inert>>

Settled ==
    /\ phase = "decide" /\ undecided = {}
    /\ Moved(Landed) = {}
    /\ landings' = {}
    /\ phase' = "settled"
    /\ UNCHANGED <<nets, pass, groups, changed, deltas, undecided, stage, inert>>

-----------------------------------------------------------------------------
\* arm_processes: the initializers' writes, and the settle after them.
Initialize ==
    /\ phase = "settled" /\ pre_init
    /\ \E w \in [Initializers -> {"0", "1"}] : WriteNets(w)
    /\ pre_init' = FALSE
    /\ deltas' = 0
    /\ phase' = "run"
    /\ UNCHANGED <<pass, groups, changed, undecided, landings, now, armed, writes, inert>>

Arm ==
    /\ phase = "settled" /\ ~pre_init /\ ~armed
    /\ armed' = TRUE
    /\ UNCHANGED <<nets, phase, loop, now, pre_init, writes, inert>>

\* A process writes a net; the settle comes after the batch.
Write(n, v) ==
    /\ phase \in {"settled", "run"} /\ armed
    /\ writes < MaxWrites
    /\ v # val[n]
    /\ WriteNets([m \in {n} |-> v])
    /\ writes' = writes + 1
    /\ phase' = "run"
    /\ UNCHANGED <<loop, now, armed, pre_init, inert>>

\* mutant: what was superseded is written too
Survives_All(e) == TRUE

Survives(e) == e.gen = gen[e.ci]

\* take_due_delayed_ca at tick t.
Due(t) == {e \in wheel : e.tick = t}
TakeDue(t) ==
    LET live == {e \in Due(t) : Survives(e)}
        w    == [n \in {Lhs[e.ci] : e \in live} |->
                   (CHOOSE e \in live : Lhs[e.ci] = n).val]
    IN  /\ wheel' = wheel \ Due(t)
        /\ last_drv' = [i \in Delayed |->
              IF \E e \in live : e.ci = i THEN w[Lhs[i]] ELSE last_drv[i]]
        /\ WriteNets(w)
        /\ UNCHANGED <<gen, rhs_seen, last_ca>>

\* The run loop drains the time it is at, one delta a round, ...
SameTime ==
    /\ phase = "settled" /\ armed
    /\ Due(now) # {}
    /\ TakeDue(now)
    /\ deltas' = deltas + 1
    /\ phase' = IF Over(deltas') THEN "fatal" ELSE "run"
    /\ UNCHANGED <<pass, groups, changed, undecided, landings, stage>>

\* ... and moves to the next one with a write on the wheel or a process.
Advance(t) ==
    /\ phase = "settled" /\ armed
    /\ t > now /\ \A e \in wheel : e.tick >= t
    /\ now' = t
    /\ deltas' = 0
    /\ TakeDue(t)
    /\ phase' = "run"
    /\ UNCHANGED <<pass, groups, changed, undecided, landings, armed, pre_init, writes>>

Settling == \/ Start \/ NextPass \/ Converged \/ Land \/ Settled
            \/ \E i \in pass : Visit(i)
            \/ \E n \in groups : ResolveGroup(n)
            \/ \E i \in undecided : Decide(i)

Next == \/ Settling
        \/ Initialize \/ Arm \/ SameTime
        \/ \E n \in Inputs, v \in Val : Write(n, v)
        \/ \E t \in now + 1 .. MaxTime : Advance(t)

\* settle_cont_assigns is one call: once begun it runs to its end.
Spec == Init /\ [][Next]_vars /\ WF_vars(Settling)

-----------------------------------------------------------------------------
Entry == [ci : Delayed, gen : Nat, tick : Nat, val : Val]

\* The type of every variable; the run is fatal exactly when the delta count
\* has passed the limit, by one.
TypeOK ==
    /\ val \in [Nets -> Val]
    /\ phase \in {"pass", "decide", "settled", "run", "fatal"}
    /\ pass \subseteq Assigns /\ dirty \subseteq Certified
    /\ groups \subseteq MdNets /\ changed \in BOOLEAN
    /\ deltas \in 0 .. MaxDeltas + 1
    /\ (phase = "fatal" <=> deltas > MaxDeltas)
    /\ undecided \subseteq Delayed
    /\ landings \subseteq Delayed \X Val
    /\ now \in Nat /\ armed \in BOOLEAN /\ pre_init \in BOOLEAN
    /\ wheel \subseteq Entry
    /\ gen \in [Delayed -> Nat]
    /\ rhs_seen \in [Delayed -> Val \cup {None}]
    /\ last_ca \in [Delayed -> Val \cup {None}]
    /\ last_drv \in [Delayed -> Val \cup {None}]
    /\ writes \in 0 .. MaxWrites

\* Visiting only the assigns whose inputs moved settles the whole circuit:
\* every undelayed net has the value of its driver, or the resolution of all
\* of its drivers, and a delayed net that has been driven has what it was
\* driven to and x until then (settle_cont_assigns, the sound skip).
SettledComplete ==
    phase = "settled" =>
        /\ \A i \in Assigns \ (Delayed \cup Multi) : val[Lhs[i]] = Eval(i)
        /\ \A n \in MdNets : val[n] = Resolve(n, {Eval(i) : i \in Drivers(n)})
        /\ \A i \in Delayed : val[Lhs[i]] = IF last_drv[i] = None THEN "x"
                                            ELSE last_drv[i]

Live(i) == {e \in wheel : e.ci = i /\ e.gen = gen[i]}

\* At most one write per delayed assign is still to land, its generation is
\* the newest on the wheel, it carries the value last decided and its time
\* has not passed (schedule_delayed_cas, take_due_delayed_ca).
OneLive ==
    /\ \A e \in wheel : e.tick >= now /\ e.gen <= gen[e.ci]
    /\ \A i \in Delayed : /\ Cardinality(Live(i)) <= 1
                          /\ \A e \in Live(i) : e.val = last_ca[i]

\* Once the processes run and the assigns have settled, each delayed assign is
\* on its way to its right-hand side: the write to come, or else the value
\* driven, is the value of the right-hand side, unless that transition never
\* happens (schedule_delayed_cas: rhs_seen, last_ca and last_ca_drv agree).
FollowsRhs ==
    (phase = "settled" /\ armed) =>
        \A i \in Delayed :
            \/ \E e \in Live(i) : e.val = Eval(i)
            \/ Live(i) = {} /\ last_drv[i] = Eval(i)
            \/ Live(i) = {} /\ last_ca[i] = Eval(i) /\ i \in Runtime

\* Nothing read before the initializers is decided on it: no zero-delay write
\* lands and no runtime delay is read (schedule_delayed_cas, DEFERRED).
InitFirst ==
    pre_init => /\ landings = {}
                /\ \A i \in Delayed : last_drv[i] = None
                /\ \A e \in wheel : e.ci \notin Runtime /\ e.tick > now

\* The writes on the wheel, the generations and the values last driven
\* implement the inertial delay of IEEE 1800-2017 10.3.3.
Pending(i) == {[val |-> e.val, due |-> e.tick] : e \in {f \in Live(i) : f.val # last_drv[i]}}

Inertial == INSTANCE InertialAssign WITH out <- last_drv,
                                         pending <- [i \in Delayed |-> Pending(i)]
KeepsInertial == Inertial!Spec

\* Every settle ends, with a circuit at its fixpoint or with the fatal delta
\* limit: an oscillating loop of assigns does not hang the run (max_deltas).
SettleEnds == (phase \in {"pass", "decide"}) ~> (phase \in {"settled", "fatal"})
=============================================================================
