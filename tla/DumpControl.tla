---------------------------- MODULE DumpControl -----------------------------
(***************************************************************************)
(* The dump tasks and the waveform writer they drive                       *)
(* (crates/sim-engine/src/builtins/dispatch.rs and queues_io.rs,           *)
(* state/changes.rs; crates/vcd-writer/src/lib.rs).                        *)
(*                                                                         *)
(* A writer w is a record: its clock, its gates, the bytes it has written, *)
(* the stamps among them, and what a viewer of the file shows at every     *)
(* time.  A record counts one byte.  The sink never fails here: VcdThread  *)
(* has the sink.                                                           *)
(***************************************************************************)
EXTENDS Integers, Sequences, FiniteSets

CONSTANTS
    Nets,
    Values,     \* the values nets take
    X,          \* what `$dumpoff` shows
    MaxTime,    \* bound: the last time slot
    Limits,     \* sizes given to `$dumplimit`; 0 is an x, a zero, a missing one
    MaxBytes    \* bound: no task or write once the file is longer

ASSUME DumpControlAssumption ==
    /\ MaxTime \in Nat /\ MaxBytes \in Nat /\ Limits \subseteq Nat
    /\ IsFiniteSet(Nets) /\ Values # {}

VARIABLES
    now,
    cur,        \* the values of the nets
    vcd,        \* the writer, or Closed
    declared,   \* the nets with an id code: what the first `$dumpvars` selects
    dumping,    \* SimState::dumping
    held,       \* history: the values at the end of every time slot
    live        \* history: the slots that end with dumping on and no limit hit

vars == <<now, cur, vcd, declared, dumping, held, live>>

Time  == 0 .. MaxTime
Shows == Values \cup {X}

Closed == [open |-> FALSE]
Writer == [open : {TRUE}, current_time : Time, time_written : BOOLEAN,
           dumping : BOOLEAN, byte_limit : Nat, limit_hit : BOOLEAN, bytes : Nat,
           stamps : Seq(Time), shown : [Time -> [Nets -> Shows]]]

-----------------------------------------------------------------------------
(* The writer.                                                             *)

\* VcdWriter::new, and the header.
NewWriter ==
    [open |-> TRUE, current_time |-> 0, time_written |-> FALSE, dumping |-> TRUE,
     byte_limit |-> 0, limit_hit |-> FALSE, bytes |-> 1, stamps |-> <<>>,
     shown |-> [t \in Time |-> [n \in Nets |-> X]]]

\* mutant: the limit is looked at again after it was hit
Over_Again(w) == w.byte_limit # 0 /\ w.bytes >= w.byte_limit

Over(w) == w.limit_hit \/ (w.byte_limit # 0 /\ w.bytes >= w.byte_limit)

\* check_limit when it holds: the comment, once.
Trip(w) == [w EXCEPT !.limit_hit = TRUE, !.bytes = IF w.limit_hit THEN @ ELSE @ + 1]

\* mutant: a time already stamped is stamped again
Stamped_Never(w, t) == FALSE

Stamped(w, t) == w.time_written /\ t = w.current_time

set_time(w, t) ==
    IF Stamped(w, t) THEN w
    ELSE LET clocked == [w EXCEPT !.current_time = t, !.time_written = TRUE]
         IN  IF Over(w) THEN Trip(clocked)
             ELSE [clocked EXCEPT !.bytes = @ + 1, !.stamps = Append(@, t)]

\* A record holds from the last stamp on; before any stamp, from the start.
Since(w) == IF w.stamps = <<>> THEN 0 ELSE w.stamps[Len(w.stamps)]

\* write_change for the nets of S, with their values.
Records(w, S, val) ==
    [w EXCEPT !.bytes = @ + Cardinality(S),
              !.shown = [t \in Time |-> [n \in Nets |->
                           IF t >= Since(w) /\ n \in S THEN val[n] ELSE w.shown[t][n]]]]

\* A keyword, the records and $end.
Block(w, S, val) == [Records(w, S, val) EXCEPT !.bytes = @ + 2]

value_change(w, n, val) == IF ~w.dumping THEN w
                           ELSE IF Over(w) THEN Trip(w)
                           ELSE Records(w, {n}, val)

dump_initial(w, S, val) == Block(w, S, val)

dump_all(w, S, val) == IF Over(w) THEN Trip(w) ELSE Block(w, S, val)

dump_off(w, S) ==
    [IF Over(w) THEN Trip(w) ELSE Block(w, S, [n \in Nets |-> X]) EXCEPT !.dumping = FALSE]

dump_on(w, S, val) == dump_all([w EXCEPT !.dumping = TRUE], S, val)

-----------------------------------------------------------------------------
(* The simulation.                                                         *)

Init ==
    /\ now = 0
    /\ cur \in [Nets -> Values]
    /\ vcd = Closed /\ declared = {} /\ dumping = FALSE
    /\ held = [t \in Time |-> cur]
    /\ live = [t \in Time |-> FALSE]

\* The histories: a slot ends as the last step taken in it leaves things.
Recorded ==
    /\ held' = [t \in Time |-> IF t >= now THEN cur' ELSE held[t]]
    /\ live' = [t \in Time |->
          IF t < now THEN live[t]
          ELSE dumping' /\ vcd'.open /\ ~vcd'.limit_hit]

Room == vcd.open => vcd.bytes < MaxBytes

\* mutant: the net store leaves the gate to the writer
Emits_Always(n) == vcd.open /\ n \in declared

\* emit_vcd_change, emit_vcd_packed: dumping, and an id.
Emits(n) == dumping /\ vcd.open /\ n \in declared

\* note_change: a value of a net really changes.
Write(n, v) ==
    /\ Room
    /\ v # cur[n]
    /\ cur' = [cur EXCEPT ![n] = v]
    /\ vcd' = IF Emits(n) THEN value_change(set_time(vcd, now), n, cur') ELSE vcd
    /\ UNCHANGED <<now, declared, dumping>>
    /\ Recorded

Advance == /\ now < MaxTime
           /\ now' = now + 1
           /\ UNCHANGED <<cur, vcd, declared, dumping, held, live>>

\* The first `$dumpvars` that opens its file; a later one only warns.
DumpVars(S) ==
    /\ ~vcd.open
    /\ declared' = S
    /\ vcd' = set_time(dump_initial(NewWriter, S, cur), now)
    /\ dumping' = TRUE
    /\ UNCHANGED <<now, cur>>
    /\ Recorded

DumpOff ==
    /\ Room
    /\ vcd' = IF vcd.open THEN dump_off(set_time(vcd, now), declared) ELSE vcd
    /\ dumping' = FALSE
    /\ UNCHANGED <<now, cur, declared>>
    /\ Recorded

\* mutant: the snapshot is the one of time 0
Snapshot_Initial == held[0]

\* full_snapshot_with: the running store.
Snapshot == cur

DumpOn ==
    /\ Room
    /\ vcd' = IF vcd.open THEN dump_on(set_time(vcd, now), declared, Snapshot) ELSE vcd
    /\ dumping' = TRUE
    /\ UNCHANGED <<now, cur, declared>>
    /\ Recorded

DumpAll ==
    /\ Room
    /\ vcd' = IF vcd.open THEN dump_all(set_time(vcd, now), declared, Snapshot) ELSE vcd
    /\ UNCHANGED <<now, cur, declared, dumping>>
    /\ Recorded

DumpLimit(size) ==
    /\ size > 0 /\ vcd.open
    /\ vcd' = [vcd EXCEPT !.byte_limit = size]
    /\ UNCHANGED <<now, cur, declared, dumping, held, live>>

Next == \/ \E n \in Nets, v \in Values : Write(n, v)
        \/ Advance
        \/ \E S \in SUBSET Nets : DumpVars(S)
        \/ DumpOff \/ DumpOn \/ DumpAll
        \/ \E size \in Limits : DumpLimit(size)

Spec == Init /\ [][Next]_vars

-----------------------------------------------------------------------------
\* The types; and an open file has its first stamp, none of the future.
TypeOK ==
    /\ now \in Time
    /\ cur \in [Nets -> Values]
    /\ \/ vcd = Closed
       \/ vcd \in Writer /\ vcd.time_written /\ vcd.current_time <= now
    /\ declared \subseteq Nets
    /\ dumping \in BOOLEAN
    /\ held \in [Time -> [Nets -> Values]]
    /\ live \in [Time -> BOOLEAN]

\* What a viewer shows of a dumped net at a time is what the net held when that
\* time slot ended, for every slot that ended with dumping on and below the
\* limit: no change lands under an older stamp, none made while dumping was off
\* is missing from the resuming checkpoint, none is lost to the limit before it
\* is hit (set_time before every record, `$dumpon`'s snapshot).
ViewFaithful ==
    \A t \in 0 .. now : live[t] => \A n \in declared : vcd.shown[t][n] = held[t][n]

\* Every stamp is later than the one before: a time is stamped once, whichever
\* tasks and changes share it (set_time).
StampsIncrease ==
    vcd.open => \A i, j \in DOMAIN vcd.stamps : i < j => vcd.stamps[i] < vcd.stamps[j]

\* The two copies of the gate, the simulation's and the writer's, never part,
\* whatever order the tasks come in and wherever the limit strikes
\* (SimState::dumping, VcdWriter::dumping).
FlagsAgree == vcd.open => vcd.dumping = dumping

\* Once the limit has been hit the file is closed for good, a larger limit
\* included (VcdWriter::limit_hit).
LimitIsFinal ==
    [][vcd.open /\ vcd.limit_hit =>
         /\ vcd'.open /\ vcd'.limit_hit
         /\ vcd'.bytes = vcd.bytes /\ vcd'.stamps = vcd.stamps /\ vcd'.shown = vcd.shown]_vars

\* A change made while dumping is off leaves nothing in the file, no stamp
\* either: the writer's own gate stops the record and not set_time
\* (emit_vcd_packed).
NoTraceWhileOff == [][~dumping /\ cur' # cur => vcd' = vcd]_vars
=============================================================================
