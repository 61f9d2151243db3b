------------------------------ MODULE RunLoop -------------------------------
(***************************************************************************)
(* The event loop: the regions of a time step, the order in which ready    *)
(* processes run, and the advance of time                                  *)
(* (crates/sim-engine/src/sched/run_loop.rs, with propagate_changes,       *)
(* schedule_resume, suspend_on and the delayed continuous assigns).        *)
(*                                                                         *)
(* A process body is any sequence of statements that ends by giving the    *)
(* thread back.  The design has a variable v that bodies write, `assign w  *)
(* = v`, `assign #CaDelay y = v`, and a clocking sample c that an edge of  *)
(* v commits.  A process of EdgeProcs is an `always @(v)` block; the       *)
(* others are `initial` blocks, and any body may suspend on a net.         *)
(* Forked arms are the business of ForkJoin; the passes that only time 0   *)
(* has are left out.                                                       *)
(***************************************************************************)
EXTENDS Integers, Sequences, Keeping

CONSTANTS
    NProcs,     \* processes; a process's number is its tie
    EdgeProcs,  \* the `always @(v)` blocks
    Delays,     \* the delays of `#d` and of `<= #d`
    CaDelay,    \* the delay of `assign #CaDelay y = v`
    MaxDelay,   \* bound: no delay is longer
    MaxTime,    \* the run's time limit
    MaxDeltas,  \* the run's delta limit
    Fuel        \* bound: statements executed, suspensions apart

ASSUME RunLoopAssumption ==
    /\ NProcs \in Nat \ {0}
    /\ EdgeProcs \subseteq 1 .. NProcs
    /\ MaxDelay \in Nat
    /\ Delays \subseteq 0 .. MaxDelay /\ CaDelay \in 0 .. MaxDelay
    /\ MaxTime \in Nat /\ MaxDeltas \in Nat /\ Fuel \in Nat

Procs    == 1 .. NProcs
Nets     == {"v", "w", "y", "c"}
Controls == {"print", "finish", "stop", "fatal"}
Times    == 0 .. MaxTime + MaxDelay

VARIABLES
    now, delta_count,
    reason,          \* "run" until the run has ended, then why
    phase,           \* "settle", "region" or "batch"
    batch,           \* what is left of the batch; the head's body is running
    active, inactive,\* the region queues, of [proc, seq]
    wheel,           \* per time, the processes to resume, in scheduling order
    nba,             \* the NBA region holds updates of v
    delayed_nba,     \* the ticks transport updates of v are due at
    delayed_ca,      \* when the pending write of y lands, or -1
    stale_ca,        \* when cancelled writes of y are still on their wheel
    dirty,           \* the nets changed since the last propagate
    writer,          \* the last blocking writer of v, 0 for none
    ca_dirty,        \* v has changed since the last settle
    waiting,         \* per process, the wait its body is suspended on
    hit,             \* level waits whose net has changed since they were armed
    busy,            \* processes suspended in, or stopped in, their bodies
    edge_seen,       \* edge processes already woken in this event cluster
    observed, reactive, \* pending deferred assertion reports
    lost,            \* a report was dropped (history)
    strobes,         \* a $strobe is registered
    finish_pending,
    stopped,         \* the processes that have reached `$finish` (history)
    fuel

vars == <<now, delta_count, reason, phase, batch, active, inactive,
          wheel, nba, delayed_nba, delayed_ca, stale_ca, dirty,
          writer, ca_dirty, waiting, hit, busy, edge_seen, observed, reactive, lost,
          strobes, finish_pending, stopped, fuel>>

clock   == <<now, wheel, delayed_nba, delayed_ca, stale_ca>>
regions == <<nba, observed, reactive, lost, strobes>>
waits   == <<waiting, hit, edge_seen>>
nets    == <<dirty, writer, ca_dirty>>

NoWait == [net |-> "none", kind |-> "none"]
Wait   == [net : Nets, kind : {"level", "edge"}]

-----------------------------------------------------------------------------
(* The queues.  Only the order of the scheduling numbers matters, so `seq`  *)
(* is "old" (scheduled before the last wake_seq refresh), "wake" (carries   *)
(* the wake_seq itself; ties decide) or "new" (scheduled since).            *)

Entry(p, s) == [proc |-> p, seq |-> s]

InTieOrder(S) == Kept([i \in Procs |-> i], S)
Aged(q, s)  == Kept(q, {i \in 1 .. Len(q) : q[i].seq = s})
ProcsOf(q)  == {q[i].proc : i \in 1 .. Len(q)}
As(ps, s)   == [i \in 1 .. Len(ps) |-> Entry(ps[i], s)]

\* mutant: a wake goes to the back of the queue
WithWakes_Appended(q, S) == q \o As(InTieOrder(S), "wake")

\* `push_sorted` of woken processes: after what was scheduled before them.
WithWakes(q, S) ==
    LET woken == S \cup ProcsOf(Aged(q, "wake"))
    IN  Aged(q, "old") \o As(InTieOrder(woken), "wake") \o Aged(q, "new")

\* `refresh_wake_seq`: what is queued is now older than any wake to come.
Refreshed(q) == [i \in 1 .. Len(q) |-> Entry(q[i].proc, "old")]

\* mutant: an edge process suspended in its body is woken again
Rouses_Busy(D, seen) == {p \in EdgeProcs : "v" \in D /\ writer # p /\ p \notin seen}

\* Pass (a): the edge processes a change of v starts.
Rouses(D, seen) ==
    {p \in EdgeProcs : /\ "v" \in D
                       /\ p \notin busy
                       /\ writer # p
                       /\ p \notin seen}

\* Pass (b): the suspended bodies that changes of D resume.
Resumes(D, H) ==
    {p \in Procs :
        \/ waiting[p].kind = "level" /\ p \in H
        \/ waiting[p].kind = "edge" /\ waiting[p].net \in D
             /\ ~(waiting[p].net = "v" /\ writer = p)}

Armed(n) == {p \in Procs : waiting[p] = [net |-> n, kind |-> "level"]}

\* `propagate_changes` of the nets D into the queue q; an edge of v may commit
\* the clocking sample, a change this pass leaves for the next one.
Propagate(D, H, q, seen) ==
    \E commit \in BOOLEAN :
       /\ commit => "v" \in D
       /\ LET C == IF commit THEN {"c"} ELSE {}
              R == Rouses(D, seen)
              W == Resumes(D, IF commit THEN H \cup Armed("c") ELSE H)
          IN  /\ active' = WithWakes(q, R \cup W)
              /\ waiting' = [p \in Procs |-> IF p \in W THEN NoWait ELSE waiting[p]]
              /\ hit' = {}
              /\ edge_seen' = seen \cup R
              /\ dirty' = C

\* The nets of S change now, by no process.
Hits(S)   == hit \cup UNION {Armed(n) : n \in S}

\* mutant: every delta restarts the count
Delta_Restarts == delta_count' = 1 /\ phase' = "settle" /\ UNCHANGED reason

\* The delta limit: the next delta, or the end of the run.
Delta == /\ delta_count' = delta_count + 1
         /\ reason' = IF delta_count + 1 > MaxDeltas THEN "delta_limit" ELSE reason
         /\ phase' = "settle"

-----------------------------------------------------------------------------
Init ==
    /\ now = 0 /\ delta_count = 0 /\ reason = "run"
    /\ phase = "settle" /\ batch = <<>>
    /\ active = As(InTieOrder(Procs \ EdgeProcs), "old") /\ inactive = <<>>
    /\ wheel = [t \in Times |-> <<>>]
    /\ nba = FALSE /\ delayed_nba = {}
    /\ delayed_ca = -1 /\ stale_ca = {}
    /\ dirty = {} /\ writer = 0 /\ ca_dirty = FALSE
    /\ waiting = [p \in Procs |-> NoWait] /\ hit = {}
    /\ busy = {} /\ edge_seen = {}
    /\ observed = {} /\ reactive = {} /\ lost = FALSE /\ strobes = FALSE
    /\ finish_pending = FALSE /\ stopped = {} /\ fuel = Fuel

At(ph) == reason = "run" /\ phase = ph
Cur    == Head(batch)

\* The loop-top settle: w follows v, and a new value of y is scheduled; a write
\* already pending is cancelled but leaves its tick on the wheel.
Settle ==
    /\ At("settle")
    /\ ca_dirty' = FALSE
    /\ \E event \in BOOLEAN :
         /\ event => ca_dirty
         /\ delayed_ca' = IF event THEN now + CaDelay ELSE delayed_ca
         /\ stale_ca' = IF event THEN stale_ca \cup ({delayed_ca} \ {-1}) ELSE stale_ca
    /\ \/ UNCHANGED <<active, waits, dirty, delta_count, reason>>
       \/ /\ ca_dirty
          /\ delta_count' = delta_count + 1
          /\ IF delta_count' > MaxDeltas
             THEN reason' = "delta_limit" /\ UNCHANGED <<active, waits, dirty>>
             ELSE /\ Propagate(dirty \cup {"w"}, Hits({"w"}), active, edge_seen)
                  /\ UNCHANGED reason
    /\ phase' = "region"
    /\ UNCHANGED <<now, batch, inactive, wheel, delayed_nba, regions,
                   writer, busy, finish_pending, stopped, fuel>>

\* mutant: a change that no propagate has seen does not hold the step open
Late_Ignored == FALSE

\* A change left behind by a propagate (a clocking commit).
Late == dirty # {}

CaDue == delayed_ca = now \/ now \in stale_ca

\* The first region with something to do decides what the loop does next.
Region ==
    IF active # <<>> THEN "Active"
    ELSE IF inactive # <<>> \/ CaDue THEN "Inactive"
    ELSE IF nba THEN "NBA"
    ELSE IF observed # {} THEN "Observed"
    ELSE IF reactive # {} THEN "Reactive"
    ELSE IF Late THEN "Late"
    ELSE "Stable"

Does(r) == At("region") /\ Region = r

TakeBatch ==
    /\ Does("Active")
    /\ batch' = [i \in 1 .. Len(active) |-> active[i].proc]
    /\ active' = <<>>
    /\ inactive' = Refreshed(inactive)
    /\ phase' = "batch"
    /\ UNCHANGED <<clock, delta_count, reason, regions, nets,
                   waits, busy, finish_pending, stopped, fuel>>

\* The last body of the batch has yielded: propagate, next delta.
EndBatch ==
    /\ At("batch")
    /\ batch = <<>>
    /\ Propagate(dirty, hit, active, edge_seen)
    /\ Delta
    /\ UNCHANGED <<clock, batch, inactive, regions, writer, ca_dirty, busy,
                   finish_pending, stopped, fuel>>

\* mutant: the promotion does not check the limit
InactiveDelta_Unlimited == /\ delta_count' = delta_count + 1
                           /\ phase' = "settle"
                           /\ UNCHANGED reason

InactiveDelta == Delta

\* The pending write of y lands at time t, if it is due; q is the queue its wakes
\* join.  A new event cluster begins.
Land(t, q) ==
    /\ delayed_ca' = IF delayed_ca = t THEN -1 ELSE delayed_ca
    /\ stale_ca' = stale_ca \ {t}
    /\ IF delayed_ca = t
       THEN Propagate(dirty \cup {"y"}, Hits({"y"}), q, {})
       ELSE /\ active' = q
            /\ edge_seen' = {}
            /\ UNCHANGED <<waiting, hit, dirty>>

\* The Inactive region: the due write lands, and what it wakes joins the `#0`
\* resumes in scheduling order.
Promote ==
    /\ Does("Inactive")
    /\ Land(now, inactive)
    /\ inactive' = <<>>
    /\ InactiveDelta
    /\ UNCHANGED <<now, batch, wheel, delayed_nba, regions, writer,
                   ca_dirty, busy, finish_pending, stopped, fuel>>

\* The NBA region: every update lands.
ApplyNba ==
    /\ Does("NBA")
    /\ nba' = FALSE
    /\ writer' = 0
    /\ ca_dirty' = TRUE
    /\ Propagate(dirty \cup {"v"}, Hits({"v"}), active, {})
    /\ Delta
    /\ UNCHANGED <<clock, batch, inactive, observed, reactive, lost, strobes,
                   busy, finish_pending, stopped, fuel>>

\* Maturing the reports of Q in the order of their keys, which nothing relates to
\* the order they were filed in: the outcomes, as the control that ends the run
\* and the reports that never matured.
Matured(Q) ==
    LET stops  == Q \cap {"stop", "fatal"}
        \* the reports that may come after the `$fatal`: a `$stop` must
        Behind == {L \in SUBSET (Q \ {"fatal"}) : "stop" \in Q => "stop" \in L}
    IN  (IF stops = {} THEN {<<"none", {}>>} ELSE {})
          \cup (IF "stop" \in stops THEN {<<"stop", {}>>} ELSE {})
          \cup (IF "fatal" \in stops THEN {<<"fatal", L>> : L \in Behind} ELSE {})

\* Observed, then Reactive: their pending reports mature.  A `$fatal` among them
\* ends the run at once, a `$stop` after its region (and the Reactive one).
Mature(region, Q) ==
    /\ Does(region)
    /\ \E m \in Matured(Q) :
         LET ends   == m[1] # "none"
             drains == m[1] = "stop" /\ region = "Observed"
         IN  \E r \in IF drains THEN Matured(reactive) ELSE {<<"none", {}>>} :
               /\ observed' = IF region = "Observed" THEN {} ELSE observed
               /\ reactive' = IF region = "Reactive" \/ drains THEN {} ELSE reactive
               /\ lost' = (lost \/ m[2] # {} \/ r[2] # {})
               /\ finish_pending' = (finish_pending \/ "finish" \in Q \ m[2])
               /\ IF ends
                  THEN /\ reason' = m[1]
                       /\ strobes' = FALSE
                       /\ UNCHANGED <<active, waits, dirty, delta_count, phase>>
                  ELSE /\ Propagate(dirty, hit, active, edge_seen)
                       /\ Delta
                       /\ UNCHANGED strobes
    /\ UNCHANGED <<clock, batch, inactive, nba, writer,
                   ca_dirty, busy, stopped, fuel>>

PropagateLate ==
    /\ Does("Late")
    /\ Propagate(dirty, hit, active, edge_seen)
    /\ Delta
    /\ UNCHANGED <<clock, batch, inactive, regions, writer, ca_dirty, busy,
                   finish_pending, stopped, fuel>>

\* The time step is over: a pending `$finish` takes effect.
FinishStep ==
    /\ Does("Stable")
    /\ finish_pending
    /\ reason' = "finish"
    /\ strobes' = FALSE
    /\ UNCHANGED <<clock, delta_count, phase, batch, active, inactive, nba,
                   observed, reactive, lost, nets, waits, busy,
                   finish_pending, stopped, fuel>>

\* The ticks something is scheduled for.
Ticks == {t \in Times : wheel[t] # <<>> \/ t \in delayed_nba}
            \cup stale_ca \cup ({delayed_ca} \ {-1})

Next_tick == CHOOSE t \in Ticks : \A u \in Ticks : t <= u

Quiesce ==
    /\ Does("Stable")
    /\ ~finish_pending
    /\ \A t \in Ticks : t > MaxTime
    /\ reason' = "quiescent"
    /\ strobes' = FALSE
    /\ UNCHANGED <<clock, delta_count, phase, batch, active, inactive, nba,
                   observed, reactive, lost, nets, waits, busy,
                   finish_pending, stopped, fuel>>

\* mutant: the transport updates due are left for a later look at the queue
TakeDue_Late(t) == FALSE

\* The transport updates due at t.
TakeDue(t) == t \in delayed_nba

\* The Postponed region, then the next time step: due writes land, due transport
\* updates join the NBA region, and the resumes of the tick become active.
Advance ==
    /\ Does("Stable")
    /\ ~finish_pending
    /\ Ticks # {}
    /\ Next_tick <= MaxTime
    /\ strobes' = FALSE
    /\ now' = Next_tick
    /\ Land(Next_tick, As(wheel[Next_tick], "old"))
    /\ nba' = TakeDue(Next_tick)
    /\ delayed_nba' = IF TakeDue(Next_tick) THEN delayed_nba \ {Next_tick} ELSE delayed_nba
    /\ wheel' = [wheel EXCEPT ![Next_tick] = <<>>]
    /\ delta_count' = 0
    /\ phase' = "settle"
    /\ UNCHANGED <<reason, batch, inactive, observed, reactive, lost,
                   writer, ca_dirty, busy, finish_pending, stopped, fuel>>

-----------------------------------------------------------------------------
(* A body of the batch.  One action is one statement, or the suspension.   *)

Running == At("batch") /\ batch # <<>>

Statement == /\ Running /\ fuel > 0
             /\ fuel' = fuel - 1
             /\ UNCHANGED <<now, wheel, delayed_ca, stale_ca, delta_count, reason,
                            phase, batch, active, inactive, waiting, edge_seen, busy,
                            lost, finish_pending, stopped>>

\* A blocking assignment to v.
Write ==
    /\ Statement
    /\ dirty' = dirty \cup {"v"}
    /\ hit' = Hits({"v"})
    /\ writer' = Cur
    /\ ca_dirty' = TRUE
    /\ UNCHANGED <<delayed_nba, nba, observed, reactive, strobes>>

\* `v <= e` and `v <= #d e`; with d = 0 the latter is the former.
Assign(d) ==
    /\ Statement
    /\ nba' = (nba \/ d = 0)
    /\ delayed_nba' = delayed_nba \cup ({now + d} \ {now})
    /\ UNCHANGED <<dirty, writer, ca_dirty, hit, observed, reactive, strobes>>

Strobe ==
    /\ Statement
    /\ strobes' = TRUE
    /\ UNCHANGED <<delayed_nba, nba, dirty, writer, ca_dirty, hit, observed, reactive>>

\* `assert #0` and `assert final` fail: the report waits for its region.
Defer(region, control) ==
    /\ Statement
    /\ observed' = observed \cup (IF region = "Observed" THEN {control} ELSE {})
    /\ reactive' = reactive \cup (IF region = "Reactive" THEN {control} ELSE {})
    /\ UNCHANGED <<delayed_nba, nba, dirty, writer, ca_dirty, hit, strobes>>

\* The running body gives the thread back: to the next of the batch, or to the
\* end of the batch.
Yield == /\ Running
         /\ batch' = Tail(batch)
         /\ UNCHANGED <<now, delta_count, delayed_ca, stale_ca, delayed_nba, active,
                        nba, dirty, writer, ca_dirty, hit, edge_seen, fuel>>

Suspend == /\ Yield
           /\ busy' = busy \cup {Cur}
           /\ UNCHANGED <<reason, phase, observed, reactive, lost, strobes, stopped>>

\* `#d`.
Delay(d) ==
    /\ Suspend
    /\ inactive' = IF d = 0 THEN Append(inactive, Entry(Cur, "new")) ELSE inactive
    /\ wheel' = IF d = 0 THEN wheel ELSE [wheel EXCEPT ![now + d] = Append(@, Cur)]
    /\ UNCHANGED <<waiting, finish_pending>>

\* `@(...)`: it resumes on a later change of its net.
WaitOn(w) ==
    /\ Suspend
    /\ waiting' = [waiting EXCEPT ![Cur] = w]
    /\ UNCHANGED <<inactive, wheel, finish_pending>>

\* mutant: a body that reached `$finish` may be started again
StopsAtFinish_Not == UNCHANGED busy

\* A body that reached `$finish` is never entered again.
StopsAtFinish == busy' = busy \cup {Cur}

\* `$finish`: it takes effect when the time step is over.
Finish ==
    /\ Yield
    /\ StopsAtFinish
    /\ finish_pending' = TRUE
    /\ stopped' = stopped \cup {Cur}
    /\ UNCHANGED <<reason, phase, observed, reactive, lost, strobes, inactive, wheel,
                   waiting>>

\* The body's end.  An `initial` block is over, an `always @(v)` block idle.
Done ==
    /\ Yield
    /\ busy' = busy \ {Cur}
    /\ UNCHANGED <<reason, phase, observed, reactive, lost, strobes, inactive, wheel,
                   waiting, finish_pending, stopped>>

\* `$stop` and `$fatal` end the run here, maturing what is pending.
Abort(control) ==
    /\ Yield
    /\ reason' = control
    /\ \E m \in Matured(observed), r \in Matured(reactive) :
         /\ lost' = (lost \/ m[2] # {} \/ r[2] # {})
         /\ finish_pending' = (finish_pending \/ "finish" \in (observed \ m[2])
                                                     \cup (reactive \ r[2]))
    /\ observed' = {} /\ reactive' = {} /\ strobes' = FALSE
    /\ UNCHANGED <<phase, inactive, wheel, waiting, busy, stopped>>

Body == \/ Write \/ Strobe \/ Finish \/ Done
        \/ \E d \in Delays : Assign(d) \/ Delay(d)
        \/ \E r \in {"Observed", "Reactive"}, c \in Controls : Defer(r, c)
        \/ \E w \in Wait : WaitOn(w)
        \/ \E c \in {"stop", "fatal"} : Abort(c)

Ended == reason # "run" /\ UNCHANGED vars

Step == \/ Settle \/ TakeBatch \/ Body \/ EndBatch \/ Promote \/ ApplyNba
        \/ Mature("Observed", observed) \/ Mature("Reactive", reactive)
        \/ PropagateLate \/ FinishStep \/ Quiesce \/ Advance

Next == Step \/ Ended

Spec == Init /\ [][Next]_vars

\* The loop is one thread that never blocks.
FairSpec == Spec /\ WF_vars(Step)

-----------------------------------------------------------------------------
Entries == [proc : Procs, seq : {"old", "wake", "new"}]

TypeOK ==
    /\ now \in 0 .. MaxTime /\ delta_count \in 0 .. MaxDeltas + 1
    /\ reason \in {"run", "finish", "stop", "fatal", "delta_limit", "quiescent"}
    /\ phase \in {"settle", "region", "batch"} /\ batch \in Seq(Procs)
    /\ active \in Seq(Entries) /\ inactive \in Seq(Entries)
    /\ wheel \in [Times -> Seq(Procs)]
    /\ nba \in BOOLEAN /\ delayed_nba \subseteq Times
    /\ delayed_ca \in Times \cup {-1} /\ stale_ca \subseteq Times
    /\ dirty \subseteq Nets /\ writer \in Procs \cup {0} /\ ca_dirty \in BOOLEAN
    /\ waiting \in [Procs -> Wait \cup {NoWait}] /\ hit \subseteq Procs
    /\ busy \subseteq Procs /\ edge_seen \subseteq EdgeProcs
    /\ observed \subseteq Controls /\ reactive \subseteq Controls
    /\ lost \in BOOLEAN /\ strobes \in BOOLEAN /\ finish_pending \in BOOLEAN
    /\ stopped \subseteq Procs /\ fuel \in 0 .. Fuel

\* The places p has in the queues, and its wait.
Places(p) ==
    {<<"batch", 0, i>> : i \in {j \in 1 .. Len(batch) : batch[j] = p}}
      \cup {<<"active", 0, i>> : i \in {j \in 1 .. Len(active) : active[j].proc = p}}
      \cup {<<"inactive", 0, i>> : i \in {j \in 1 .. Len(inactive) : inactive[j].proc = p}}
      \cup (UNION {{<<"wheel", t, i>> : i \in {j \in 1 .. Len(wheel[t]) : wheel[t][j] = p}} :
                       t \in Times})
      \cup (IF waiting[p] = NoWait THEN {} ELSE {<<"waiting", 0, 0>>})

\* A process runs in one place: however many nets, delays and updates wake it, it
\* is in one queue, once, or suspended on one wait (propagate_changes).
OneEntry == \A p \in Procs : \A x, y \in Places(p) : x = y

\* Entry r may stand before entry s: by scheduling number, then by tie.
Before(r, s) == \/ r.seq # s.seq /\ (r.seq = "old" \/ s.seq = "new")
                \/ r.seq = s.seq /\ (r.seq = "wake" => r.proc < s.proc)

Sorted(q) == \A i, j \in 1 .. Len(q) : i < j => Before(q[i], q[j])

\* A run queue is in order of scheduling number and tie, whatever the mixture of
\* `#0` resumes, wakes and tick resumes that filled it (push_sorted).
QueueSorted == Sorted(active)

\* Nothing scheduled is left behind by the advance of time: every resume and
\* transport update is due later, every delayed write now or later.
NothingOverdue ==
    /\ \A t \in Times : wheel[t] # <<>> => t > now
    /\ \A t \in delayed_nba : t > now
    /\ \A t \in stale_ca \cup ({delayed_ca} \ {-1}) : t >= now

\* No time step ends, and no `$finish` takes effect, with a change that a waiting
\* process, an edge or a continuous assign has still to see.
StepComplete ==
    [][(now' # now \/ (reason' = "finish" /\ reason = "run"))
         => dirty = {} /\ hit = {} /\ ~ca_dirty]_vars

\* A process that has reached `$finish` is in no queue again, though the rest of
\* the time step still runs and may wake it (Step::Finish).
StopsForGood == \A p \in stopped : Places(p) = {}

\* The run ends: zero-delay loops at the delta limit, others at the time limit.
RunEnds == <>(reason # "run")

\* What drain_deferred_on_finish says: a `$finish`, `$stop` or `$fatal` exit loses
\* no verdict of its time step.
VerdictNotLost ==
    reason \in {"finish", "stop", "fatal"} => ~lost /\ observed = {} /\ reactive = {}
=============================================================================
