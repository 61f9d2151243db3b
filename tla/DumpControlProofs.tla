------------------------- MODULE DumpControlProofs --------------------------
(***************************************************************************)
(* The waveform a viewer shows is what the nets held, for any nets, any    *)
(* values, any limits and any order of the dump tasks.                     *)
(***************************************************************************)
EXTENDS DumpControl, FiniteSetTheorems, TLAPS

\* Times stamped are stamped in order, the last one at the writer's clock until
\* the limit stops them.
Clocked(w, t) ==
    /\ w \in Writer
    /\ w.time_written
    /\ w.current_time <= t
    /\ w.stamps # <<>>
    /\ \A i \in DOMAIN w.stamps : w.stamps[i] <= w.current_time
    /\ \A i, j \in DOMAIN w.stamps : i < j => w.stamps[i] < w.stamps[j]
    /\ ~w.limit_hit => Since(w) = w.current_time

\* A slot not yet over is held and live as things stand.
HistoryCurrent ==
    \A t \in Time : t >= now =>
        /\ held[t] = cur
        /\ live[t] = (dumping /\ vcd.open /\ ~vcd.limit_hit)

Faithful == \A t \in Time : live[t] => \A n \in declared : vcd.shown[t][n] = held[t][n]

NotYetLive == ~vcd.open => \A t \in Time : live[t] = FALSE

DInv == /\ TypeOK
        /\ vcd.open => Clocked(vcd, now)
        /\ FlagsAgree
        /\ HistoryCurrent
        /\ Faithful
        /\ NotYetLive

\* What a writer's operation may do to it at time t: it stays clocked, an earlier
\* time is shown as before, and the limit is final.
Keeps(w, v, t) ==
    /\ Clocked(v, t)
    /\ \A u \in Time, n \in Nets : u < t => v.shown[u][n] = w.shown[u][n]
    /\ w.limit_hit => /\ v.limit_hit /\ v.bytes = w.bytes
                      /\ v.stamps = w.stamps /\ v.shown = w.shown

\* v shows what w shows, with the values val for the nets of S from time t on.
ShownFrom(w, v, S, val, t) ==
    \A u \in Time, n \in Nets :
        u >= t => v.shown[u][n] = IF n \in S THEN val[n] ELSE w.shown[u][n]

-----------------------------------------------------------------------------
\* The writer's `open` is a boolean, whichever of the two it is.
LEMMA OpenTypes ==
    ASSUME vcd = Closed \/ vcd \in Writer
    PROVE  (vcd \in Writer /\ vcd.open = TRUE) \/ (vcd = Closed /\ vcd.open = FALSE)
<1>1. CASE vcd = Closed
  BY <1>1 DEF Closed
<1>2. CASE vcd \in Writer
  BY <1>2 DEF Writer
<1> QED BY <1>1, <1>2

\* What a viewer shows: a value of every net at every time.
Shown == [Time -> [Nets -> Shows]]

\* A stamp written: the clock, the bytes and the stamps move, the rest stays.
StampWriter(w, t, b, s) ==
    [w EXCEPT !.current_time = t, !.time_written = TRUE, !.bytes = b, !.stamps = s]

\* The fields of a writer that has written a stamp (set_time below the limit).
LEMMA StampUpdate ==
    ASSUME NEW w \in Writer, NEW t \in Time, NEW b \in Nat, NEW s \in Seq(Time)
    PROVE  /\ StampWriter(w, t, b, s) \in Writer
           /\ StampWriter(w, t, b, s).current_time = t
           /\ StampWriter(w, t, b, s).time_written
           /\ StampWriter(w, t, b, s).bytes = b
           /\ StampWriter(w, t, b, s).stamps = s
           /\ StampWriter(w, t, b, s).limit_hit <=> w.limit_hit
           /\ StampWriter(w, t, b, s).shown = w.shown
           /\ StampWriter(w, t, b, s).dumping <=> w.dumping
BY DEF Writer, StampWriter

\* A stamp the limit suppressed: the clock moves all the same.
LateWriter(w, t, b) == [w EXCEPT !.current_time = t, !.time_written = TRUE,
                                 !.limit_hit = TRUE, !.bytes = b]

\* The fields of a writer whose stamp the limit suppressed (set_time).
LEMMA LateUpdate ==
    ASSUME NEW w \in Writer, NEW t \in Time, NEW b \in Nat
    PROVE  /\ LateWriter(w, t, b) \in Writer
           /\ LateWriter(w, t, b).current_time = t
           /\ LateWriter(w, t, b).time_written
           /\ LateWriter(w, t, b).bytes = b
           /\ LateWriter(w, t, b).stamps = w.stamps
           /\ LateWriter(w, t, b).limit_hit
           /\ LateWriter(w, t, b).shown = w.shown
           /\ LateWriter(w, t, b).dumping <=> w.dumping
BY DEF Writer, LateWriter

\* The limit's comment written.
TripWriter(w, b) == [w EXCEPT !.limit_hit = TRUE, !.bytes = b]

\* The fields of a writer that has hit its limit (check_limit).
LEMMA TripUpdate ==
    ASSUME NEW w \in Writer, NEW b \in Nat
    PROVE  /\ TripWriter(w, b) \in Writer
           /\ TripWriter(w, b).current_time = w.current_time
           /\ TripWriter(w, b).time_written <=> w.time_written
           /\ TripWriter(w, b).bytes = b
           /\ TripWriter(w, b).stamps = w.stamps
           /\ TripWriter(w, b).limit_hit
           /\ TripWriter(w, b).shown = w.shown
           /\ TripWriter(w, b).dumping <=> w.dumping
BY DEF Writer, TripWriter

\* Records written.
ShowWriter(w, b, s) == [w EXCEPT !.bytes = b, !.shown = s]

\* The fields of a writer that has written records (write_change).
LEMMA ShowUpdate ==
    ASSUME NEW w \in Writer, NEW b \in Nat, NEW s \in Shown
    PROVE  /\ ShowWriter(w, b, s) \in Writer
           /\ ShowWriter(w, b, s).current_time = w.current_time
           /\ ShowWriter(w, b, s).time_written <=> w.time_written
           /\ ShowWriter(w, b, s).bytes = b
           /\ ShowWriter(w, b, s).stamps = w.stamps
           /\ ShowWriter(w, b, s).limit_hit <=> w.limit_hit
           /\ ShowWriter(w, b, s).shown = s
           /\ ShowWriter(w, b, s).dumping <=> w.dumping
BY DEF Writer, ShowWriter, Shown

\* set_time shows nothing new, leaves the gates alone, and below the limit what
\* follows it holds from its time on.
LEMMA SetTime ==
    ASSUME NEW w, NEW t \in Time, Clocked(w, t), NEW v, v = set_time(w, t)
    PROVE  /\ Keeps(w, v, t)
           /\ v.shown = w.shown /\ (v.dumping <=> w.dumping)
           /\ ~v.limit_hit => ~w.limit_hit /\ Since(v) = t
<1>0. w \in Writer /\ w.current_time \in Time /\ w.stamps \in Seq(Time)
  BY DEF Clocked, Writer
<1>1. CASE Stamped(w, t)
  BY <1>0, <1>1 DEF set_time, Stamped, Keeps, Clocked, Since
<1>2. CASE ~Stamped(w, t) /\ Over(w)
  <2> DEFINE b == IF w.limit_hit THEN w.bytes ELSE w.bytes + 1
  <2>1. v = LateWriter(w, t, b)
    BY <1>0, <1>2 DEF set_time, Trip, Writer, LateWriter
  <2>2. b \in Nat
    BY <1>0 DEF Writer
  <2>14. w.limit_hit => b = w.bytes
    OBVIOUS
  <2>15. w \in Writer
    BY <1>0
  <2> HIDE DEF b
  <2>3. /\ v \in Writer /\ v.current_time = t /\ v.time_written
        /\ v.bytes = b /\ v.stamps = w.stamps /\ v.limit_hit
        /\ v.shown = w.shown /\ (v.dumping <=> w.dumping)
    BY <2>1, <2>2, <2>15, LateUpdate
  <2>16. w.stamps \in Seq(Time) /\ DOMAIN w.stamps = 1 .. Len(w.stamps)
    BY <1>0
  <2>4. \A i \in DOMAIN w.stamps : w.stamps[i] \in Time /\ w.stamps[i] <= w.current_time
    BY <2>16 DEF Clocked
  <2>5. \A i \in DOMAIN w.stamps : w.stamps[i] <= t
    BY <1>0, <2>4 DEF Clocked, Time
  <2> QED BY <2>14, <2>3, <2>5 DEF Keeps, Clocked, Time
<1>3. CASE ~Stamped(w, t) /\ ~Over(w)
  <2> DEFINE b == w.bytes + 1
             s == Append(w.stamps, t)
  <2>1. v = StampWriter(w, t, b, s)
    BY <1>0, <1>3 DEF set_time, Writer, StampWriter
  <2>2. b \in Nat
    BY <1>0 DEF Writer
  <2>17. s \in Seq(Time)
    BY <1>0
  <2>15. w \in Writer
    BY <1>0
  <2>3. /\ Len(s) = Len(w.stamps) + 1 /\ s[Len(s)] = t /\ DOMAIN s = 1 .. Len(s)
        /\ \A i \in 1 .. Len(w.stamps) : s[i] = w.stamps[i]
        /\ DOMAIN w.stamps = 1 .. Len(w.stamps) /\ Len(w.stamps) \in Nat
    BY <1>0
  <2> HIDE DEF b, s
  <2>4. /\ v \in Writer /\ v.current_time = t /\ v.time_written
        /\ v.stamps = s /\ (v.limit_hit <=> w.limit_hit)
        /\ v.shown = w.shown /\ (v.dumping <=> w.dumping)
    BY <2>1, <2>2, <2>17, <2>15, StampUpdate
  <2>5. ~w.limit_hit
    BY <1>3 DEF Over
  <2>6. \A i \in 1 .. Len(w.stamps) : w.stamps[i] \in Time /\ w.stamps[i] <= w.current_time
    <3>1. \A i \in 1 .. Len(w.stamps) : w.stamps[i] <= w.current_time
      BY <2>3 DEF Clocked
    <3>2. w.stamps \in Seq(Time)
      BY <1>0
    <3> QED BY <3>1, <3>2
  <2>7. w.current_time < t
    BY <1>0, <1>3 DEF Clocked, Stamped, Time
  <2>8. \A i \in 1 .. Len(w.stamps) : w.stamps[i] < t
    BY <1>0, <2>6, <2>7 DEF Time
  <2>9. s # <<>>
    BY <2>3
  <2>10. \A i \in DOMAIN s : s[i] <= t
    <3>1. t \in Int /\ \A i \in 1 .. Len(w.stamps) : w.stamps[i] \in Int
      BY <2>6 DEF Time
    <3>2. \A i \in DOMAIN s : i = Len(s) \/ i \in 1 .. Len(w.stamps)
      BY <2>3
    <3> QED BY <2>3, <2>8, <3>1, <3>2
  <2>11. \A i, j \in DOMAIN w.stamps : i < j => w.stamps[i] < w.stamps[j]
    BY DEF Clocked
  <2>12. \A i, j \in DOMAIN s : i < j => s[i] < s[j]
    BY <2>3, <2>8, <2>11
  <2>13. Since(v) = t
    BY <2>3, <2>4, <2>9 DEF Since
  <2> QED BY <2>4, <2>5, <2>9, <2>10, <2>12, <2>13 DEF Keeps, Clocked, Time
<1> QED BY <1>1, <1>2, <1>3

\* Records written right after the stamp of their time change what is shown from
\* that time on, to the values given.
Padded(w, S, val, extra) == [Records(w, S, val) EXCEPT !.bytes = @ + extra]

LEMMA RecordsShow ==
    ASSUME NEW w, NEW t \in Time, Clocked(w, t), Since(w) = t, ~w.limit_hit,
           NEW S \in SUBSET Nets, NEW val \in [Nets -> Shows], NEW extra \in {0, 2},
           NEW v, v = Padded(w, S, val, extra)
    PROVE  /\ Keeps(w, v, t)
           /\ (v.dumping <=> w.dumping) /\ ~v.limit_hit /\ Since(v) = t
           /\ ShownFrom(w, v, S, val, t)
<1> DEFINE sh == [u \in Time |-> [n \in Nets |->
                    IF u >= Since(w) /\ n \in S THEN val[n] ELSE w.shown[u][n]]]
<1> DEFINE b == w.bytes + Cardinality(S) + extra
<1>0. w \in Writer /\ Cardinality(S) \in Nat
  BY DumpControlAssumption, FS_Subset, FS_CardinalityType DEF Clocked
<1>1. v = ShowWriter(w, b, sh)
  BY <1>0 DEF Padded, Records, Writer, ShowWriter
<1>2. sh \in Shown
  BY <1>0 DEF Writer, Shown
<1>3. b \in Nat
  BY <1>0 DEF Writer
<1>4. \A u \in Time, n \in Nets :
         sh[u][n] = IF u >= t /\ n \in S THEN val[n] ELSE w.shown[u][n]
  OBVIOUS
<1>7. w \in Writer
  BY <1>0
<1> HIDE DEF b, sh
<1>8. /\ ShowWriter(w, b, sh) \in Writer
      /\ ShowWriter(w, b, sh).shown = sh
      /\ ShowWriter(w, b, sh).stamps = w.stamps
      /\ ShowWriter(w, b, sh).current_time = w.current_time
      /\ ShowWriter(w, b, sh).dumping <=> w.dumping
      /\ ShowWriter(w, b, sh).limit_hit <=> w.limit_hit
      /\ ShowWriter(w, b, sh).time_written <=> w.time_written
  BY <1>7, <1>2, <1>3, ShowUpdate
<1>5. /\ v \in Writer /\ v.shown = sh /\ v.stamps = w.stamps /\ (v.dumping <=> w.dumping)
      /\ (v.limit_hit <=> w.limit_hit) /\ v.current_time = w.current_time
      /\ (v.time_written <=> w.time_written)
  BY <1>1, <1>8
<1>6. Clocked(v, t) /\ Since(v) = t
  BY <1>5 DEF Clocked, Since
<1> QED BY <1>4, <1>5, <1>6 DEF Keeps, ShownFrom, Time

\* The limit's comment shows nothing.
LEMMA TripShows ==
    ASSUME NEW w, NEW t \in Time, Clocked(w, t), NEW v, v = Trip(w)
    PROVE  Keeps(w, v, t) /\ v.limit_hit /\ (v.dumping <=> w.dumping) /\ v.shown = w.shown
<1> DEFINE b == IF w.limit_hit THEN w.bytes ELSE w.bytes + 1
<1>1. w \in Writer /\ v = TripWriter(w, b)
  BY DEF Trip, Clocked, TripWriter
<1>2. b \in Nat
  BY <1>1 DEF Writer
<1>4. w.limit_hit => b = w.bytes
  OBVIOUS
<1> HIDE DEF b
<1>3. /\ v \in Writer /\ v.current_time = w.current_time
      /\ (v.time_written <=> w.time_written)
      /\ v.bytes = b /\ v.stamps = w.stamps /\ v.limit_hit
      /\ v.shown = w.shown /\ (v.dumping <=> w.dumping)
  BY <1>1, <1>2, TripUpdate
<1> QED BY <1>4, <1>3 DEF Keeps, Clocked

\* A gate set alters nothing else.
LEMMA GateShows ==
    ASSUME NEW w, NEW t \in Time, Clocked(w, t), NEW g \in BOOLEAN,
           NEW v, v = [w EXCEPT !.dumping = g]
    PROVE  /\ Keeps(w, v, t) /\ (v.limit_hit <=> w.limit_hit) /\ v.shown = w.shown
           /\ v.dumping = g /\ Since(v) = Since(w)
           /\ v.byte_limit = w.byte_limit /\ v.bytes = w.bytes
<1>1. /\ v \in Writer /\ (v.limit_hit <=> w.limit_hit) /\ v.stamps = w.stamps
      /\ v.shown = w.shown /\ v.dumping = g /\ v.current_time = w.current_time
      /\ (v.time_written <=> w.time_written) /\ v.bytes = w.bytes
      /\ v.byte_limit = w.byte_limit
  BY DEF Clocked, Writer
<1> QED BY <1>1 DEF Keeps, Clocked, Since

\* Two operations at the same time keep what each of them keeps.
LEMMA KeepsChain ==
    ASSUME NEW w, NEW u, NEW v, NEW t \in Time, Keeps(w, u, t), Keeps(u, v, t)
    PROVE  Keeps(w, v, t)
BY DEF Keeps

\* A checkpoint at the time of its stamp: below the limit it shows what it is
\* given.
LEMMA Checkpoint ==
    ASSUME NEW w, NEW t \in Time, Clocked(w, t), ~w.limit_hit => Since(w) = t,
           NEW S \in SUBSET Nets, NEW val \in [Nets -> Shows], NEW v, v = dump_all(w, S, val)
    PROVE  /\ Keeps(w, v, t) /\ (v.dumping <=> w.dumping)
           /\ ~v.limit_hit => ShownFrom(w, v, S, val, t)
<1>1. CASE Over(w)
  BY <1>1, TripShows DEF dump_all
<1>2. CASE ~Over(w)
  <2>1. ~w.limit_hit
    BY <1>2 DEF Over
  <2>2. v = Padded(w, S, val, 2) /\ 2 \in {0, 2}
    BY <1>2 DEF dump_all, Block, Padded
  <2>3. Since(w) = t
    BY <2>1
  <2>4. /\ Keeps(w, v, t) /\ (v.dumping <=> w.dumping)
        /\ ShownFrom(w, v, S, val, t)
    BY <2>1, <2>2, <2>3, RecordsShow
  <2> QED BY <2>4
<1> QED BY <1>1, <1>2
-----------------------------------------------------------------------------
\* The stamp before a task's records: what each task finds.
LEMMA Stamping ==
    ASSUME NEW w, NEW t \in Time, Clocked(w, t)
    PROVE  LET u == set_time(w, t)
           IN  /\ Keeps(w, u, t) /\ Clocked(u, t)
               /\ u.shown = w.shown /\ (u.dumping <=> w.dumping)
               /\ ~u.limit_hit => ~w.limit_hit /\ Since(u) = t
<1>1. /\ Keeps(w, set_time(w, t), t)
      /\ set_time(w, t).shown = w.shown /\ (set_time(w, t).dumping <=> w.dumping)
      /\ ~set_time(w, t).limit_hit => ~w.limit_hit /\ Since(set_time(w, t)) = t
  BY SetTime
<1> QED BY <1>1 DEF Keeps

\* `$dumpall`, `$dumpon` and `$dumpoff`, each with its stamp.
LEMMA TaskWrites ==
    ASSUME NEW w, NEW t \in Time, Clocked(w, t), NEW S \in SUBSET Nets,
           NEW val \in [Nets -> Shows]
    PROVE  /\ LET v == dump_all(set_time(w, t), S, val)
              IN  /\ Keeps(w, v, t) /\ (v.dumping <=> w.dumping)
                  /\ ~v.limit_hit => ShownFrom(w, v, S, val, t)
           /\ LET v == dump_on(set_time(w, t), S, val)
              IN  /\ Keeps(w, v, t) /\ v.dumping
                  /\ ~v.limit_hit => ShownFrom(w, v, S, val, t)
           /\ LET v == dump_off(set_time(w, t), S)
              IN  Keeps(w, v, t) /\ ~v.dumping
<1> DEFINE u == set_time(w, t)
<1>1. /\ Keeps(w, u, t) /\ Clocked(u, t)
      /\ u.shown = w.shown /\ (u.dumping <=> w.dumping)
      /\ ~u.limit_hit => Since(u) = t
  BY Stamping
<1> HIDE DEF u
<1>2. ASSUME NEW va \in [Nets -> Shows], NEW v, v = dump_all(u, S, va)
      PROVE  /\ Keeps(w, v, t) /\ (v.dumping <=> w.dumping)
             /\ ~v.limit_hit => ShownFrom(w, v, S, va, t)
  <2>1. /\ Keeps(u, v, t) /\ (v.dumping <=> u.dumping)
        /\ ~v.limit_hit => ShownFrom(u, v, S, va, t)
    BY <1>1, <1>2, Checkpoint
  <2>2. Keeps(w, v, t)
    BY <1>1, <2>1, KeepsChain
  <2> QED BY <1>1, <2>1, <2>2 DEF ShownFrom
<1>3. LET v == dump_all(u, S, val)
      IN  /\ Keeps(w, v, t) /\ (v.dumping <=> w.dumping)
          /\ ~v.limit_hit => ShownFrom(w, v, S, val, t)
  BY <1>2
<1>4. LET v == dump_on(u, S, val)
      IN  /\ Keeps(w, v, t) /\ v.dumping
          /\ ~v.limit_hit => ShownFrom(w, v, S, val, t)
  <2> DEFINE g == [u EXCEPT !.dumping = TRUE]
             v == dump_all(g, S, val)
  <2>1. /\ Keeps(u, g, t) /\ (g.limit_hit <=> u.limit_hit) /\ g.shown = u.shown
        /\ g.dumping = TRUE /\ Since(g) = Since(u)
    BY <1>1, GateShows
  <2>2. Clocked(g, t) /\ (~g.limit_hit => Since(g) = t)
    BY <1>1, <2>1 DEF Keeps
  <2> HIDE DEF g
  <2>3. /\ Keeps(g, v, t) /\ (v.dumping <=> g.dumping)
        /\ ~v.limit_hit => ShownFrom(g, v, S, val, t)
    BY <2>2, Checkpoint
  <2>4. v = dump_on(u, S, val)
    BY DEF dump_on, g
  <2> HIDE DEF v
  <2>5. Keeps(w, v, t)
    BY <1>1, <2>1, <2>3, KeepsChain
  <2>6. ~v.limit_hit => ShownFrom(w, v, S, val, t)
    BY <1>1, <2>1, <2>3 DEF ShownFrom
  <2> QED BY <2>1, <2>3, <2>4, <2>5, <2>6
<1>5. LET v == dump_off(u, S) IN Keeps(w, v, t) /\ ~v.dumping
  <2> DEFINE xs == [n \in Nets |-> X]
             v  == dump_all(u, S, xs)
  <2>1. xs \in [Nets -> Shows]
    BY DEF Shows
  <2>2. Keeps(w, v, t)
    BY <1>2, <2>1
  <2>3. dump_off(u, S) = [v EXCEPT !.dumping = FALSE]
    BY DEF dump_off, dump_all
  <2> HIDE DEF v
  <2>4. Clocked(v, t)
    BY <2>2 DEF Keeps
  <2>5. /\ Keeps(v, dump_off(u, S), t)
        /\ dump_off(u, S).dumping = FALSE
    BY <2>3, <2>4, GateShows
  <2> QED BY <2>2, <2>5, KeepsChain
<1> QED BY <1>3, <1>4, <1>5 DEF u

\* A change, with its stamp.
LEMMA ChangeWrites ==
    ASSUME NEW w, NEW t \in Time, Clocked(w, t), NEW n \in Nets,
           NEW val \in [Nets -> Shows], NEW v, v = value_change(set_time(w, t), n, val)
    PROVE  /\ Keeps(w, v, t) /\ (v.dumping <=> w.dumping)
           /\ w.dumping /\ ~v.limit_hit => ShownFrom(w, v, {n}, val, t)
<1> DEFINE u == set_time(w, t)
<1>1. /\ Keeps(w, u, t) /\ Clocked(u, t)
      /\ u.shown = w.shown /\ (u.dumping <=> w.dumping)
      /\ ~u.limit_hit => Since(u) = t
  BY Stamping
<1>2. v = value_change(u, n, val)
  OBVIOUS
<1> HIDE DEF u
<1>3. CASE ~u.dumping
  <2>1. v = u
    BY <1>2, <1>3 DEF value_change
  <2> QED BY <1>1, <1>3, <2>1
<1>4. CASE u.dumping /\ Over(u)
  <2>1. v = Trip(u)
    BY <1>2, <1>4 DEF value_change
  <2>2. Keeps(u, v, t) /\ v.limit_hit /\ (v.dumping <=> u.dumping)
    BY <1>1, <2>1, TripShows
  <2> QED BY <1>1, <2>2, KeepsChain
<1>5. CASE u.dumping /\ ~Over(u)
  <2>1. ~u.limit_hit /\ Since(u) = t
    BY <1>1, <1>5 DEF Over
  <2>2. u \in Writer /\ {n} \in SUBSET Nets /\ 0 \in {0, 2}
    BY <1>1 DEF Clocked
  <2>3. Records(u, {n}, val).bytes + 0 = Records(u, {n}, val).bytes
    <3>1. Cardinality({n}) = 1
      BY FS_Singleton
    <3> QED BY <2>2, <3>1 DEF Records, Writer
  <2>4. v = Padded(u, {n}, val, 0)
    BY <1>2, <1>5, <2>2, <2>3 DEF value_change, Padded, Records, Writer
  <2>5. /\ Keeps(u, v, t) /\ (v.dumping <=> u.dumping)
        /\ ShownFrom(u, v, {n}, val, t)
    BY <1>1, <2>1, <2>2, <2>4, RecordsShow
  <2>6. Keeps(w, v, t)
    BY <1>1, <2>5, KeepsChain
  <2> QED BY <1>1, <2>5, <2>6 DEF ShownFrom
<1> QED BY <1>3, <1>4, <1>5
-----------------------------------------------------------------------------
\* A step that writes to the file at the present time.
Writes(w, v) == /\ Keeps(w, v, now)
                /\ v.dumping = dumping'
                /\ dumping' /\ ~v.limit_hit =>
                     \A u \in Time, n \in declared : u >= now => v.shown[u][n] = cur'[n]

\* Such a step preserves the invariant.
LEMMA OpenStep ==
    ASSUME DInv, vcd.open, Writes(vcd, vcd'), Recorded, now' = now, declared' = declared,
           cur' \in [Nets -> Values], dumping' \in BOOLEAN
    PROVE  DInv'
<1>1. /\ vcd' \in Writer /\ vcd'.open = TRUE /\ Clocked(vcd', now)
      /\ now \in Time /\ declared \subseteq Nets
  BY DEF Writes, Keeps, Clocked, Writer, DInv, TypeOK
<1>2. /\ held' \in [Time -> [Nets -> Values]]
      /\ \A t \in Time : held'[t] = IF t >= now THEN cur' ELSE held[t]
  BY DEF Recorded, DInv, TypeOK
<1>3. /\ live' \in [Time -> BOOLEAN]
      /\ \A t \in Time : live'[t] = IF t < now THEN live[t]
                                    ELSE dumping' /\ vcd'.open /\ ~vcd'.limit_hit
  <2>1. live' = [t \in Time |-> IF t < now THEN live[t]
                                ELSE dumping' /\ vcd'.open /\ ~vcd'.limit_hit]
    BY DEF Recorded
  <2>2. live \in [Time -> BOOLEAN]
    BY DEF DInv, TypeOK
  <2> QED BY <2>1, <2>2
<1>4. TypeOK'
  BY <1>1, <1>2, <1>3 DEF TypeOK, DInv, Clocked
<1>5. (vcd.open => Clocked(vcd, now))'
  BY <1>1
<1>6. FlagsAgree'
  BY DEF FlagsAgree, Writes
<1>7. HistoryCurrent'
  BY <1>1, <1>2, <1>3 DEF HistoryCurrent, Time
<1>8. Faithful'
  <2> SUFFICES ASSUME NEW t \in Time, live'[t], NEW n \in declared
               PROVE  vcd'.shown[t][n] = held'[t][n]
    BY DEF Faithful
  <2>1. CASE t >= now
    <3>1. dumping' /\ ~vcd'.limit_hit
      BY <1>1, <1>3, <2>1 DEF Time
    <3> QED BY <1>2, <2>1, <3>1 DEF Writes
  <2>2. CASE t < now
    <3>1. live[t] /\ vcd'.shown[t][n] = vcd.shown[t][n]
      BY <1>1, <1>3, <2>2 DEF Writes, Keeps
    <3>2. vcd.shown[t][n] = held[t][n]
      BY <3>1 DEF DInv, Faithful
    <3>3. held'[t] = held[t]
      BY <1>1, <1>2, <2>2 DEF Time
    <3> QED BY <3>1, <3>2, <3>3
  <2> QED BY <1>1, <2>1, <2>2 DEF Time
<1>9. NotYetLive'
  BY <1>1 DEF NotYetLive
<1> QED BY <1>4, <1>5, <1>6, <1>7, <1>8, <1>9 DEF DInv

\* A step that leaves the file closed.
LEMMA ClosedStep ==
    ASSUME DInv, ~vcd.open, vcd' = vcd, Recorded, now' = now, declared' = declared,
           cur' \in [Nets -> Values], dumping' \in BOOLEAN
    PROVE  DInv'
<1>1. vcd.open = FALSE /\ now \in Time /\ vcd = Closed
  BY OpenTypes DEF DInv, TypeOK
<1>2. /\ held' \in [Time -> [Nets -> Values]]
      /\ \A t \in Time : held'[t] = IF t >= now THEN cur' ELSE held[t]
  BY DEF Recorded, DInv, TypeOK
<1>3. /\ live' \in [Time -> BOOLEAN]
      /\ \A t \in Time : live'[t] = IF t < now THEN live[t] ELSE FALSE
  <2>1. live' = [t \in Time |-> IF t < now THEN live[t] ELSE FALSE]
    BY <1>1 DEF Recorded
  <2>2. live \in [Time -> BOOLEAN]
    BY DEF DInv, TypeOK
  <2> QED BY <2>1, <2>2
<1>4. TypeOK'
  BY <1>1, <1>2, <1>3 DEF TypeOK, DInv
<1>5. HistoryCurrent'
  <2> SUFFICES ASSUME NEW t \in Time, t >= now
               PROVE  held'[t] = cur' /\ live'[t] = (dumping' /\ vcd'.open /\ ~vcd'.limit_hit)
    BY DEF HistoryCurrent
  <2>1. held'[t] = cur'
    BY <1>2
  <2>2. ~(t < now)
    BY <1>1 DEF Time
  <2>3. live'[t] = (dumping' /\ vcd'.open /\ ~vcd'.limit_hit)
    BY <2>2 DEF Recorded
  <2> QED BY <2>1, <2>3
<1>6. \A t \in Time : live'[t] = FALSE
  BY <1>1, <1>3 DEF DInv, NotYetLive
<1>7. (vcd.open => Clocked(vcd, now))' /\ FlagsAgree' /\ NotYetLive' /\ Faithful'
  BY <1>1, <1>6 DEF FlagsAgree, NotYetLive, Faithful
<1> QED BY <1>4, <1>5, <1>7 DEF DInv
-----------------------------------------------------------------------------
\* Every action, on an open file.
LEMMA OpenActions ==
    ASSUME DInv, vcd.open,
           \/ \E n \in Nets, v \in Values : Write(n, v)
           \/ DumpOff \/ DumpOn \/ DumpAll
    PROVE  /\ Writes(vcd, vcd') /\ Recorded /\ now' = now /\ declared' = declared
           /\ cur' \in [Nets -> Values] /\ dumping' \in BOOLEAN
<1>1. /\ Clocked(vcd, now) /\ now \in Time /\ declared \in SUBSET Nets
      /\ cur \in [Nets -> Values] /\ cur \in [Nets -> Shows]
      /\ dumping \in BOOLEAN /\ vcd.dumping = dumping /\ vcd \in Writer
  BY DEF DInv, TypeOK, FlagsAgree, Shows, Clocked
<1>2. \A u \in Time, n \in declared : u >= now /\ dumping /\ ~vcd.limit_hit =>
          vcd.shown[u][n] = cur[n]
  BY DEF DInv, HistoryCurrent, Faithful
<1>3. CASE DumpOff
  <2>1. /\ Keeps(vcd, vcd', now) /\ ~vcd'.dumping
        /\ Recorded /\ now' = now /\ declared' = declared /\ cur' = cur
        /\ dumping' = FALSE
    BY <1>1, <1>3, TaskWrites DEF DumpOff
  <2>2. vcd'.dumping \in BOOLEAN
    BY <2>1 DEF Keeps, Clocked, Writer
  <2> QED BY <1>1, <2>1, <2>2 DEF Writes
<1>4. CASE DumpOn
  <2>1. /\ Keeps(vcd, vcd', now) /\ vcd'.dumping
        /\ ~vcd'.limit_hit => ShownFrom(vcd, vcd', declared, cur, now)
        /\ Recorded /\ now' = now /\ declared' = declared /\ cur' = cur
        /\ dumping' = TRUE
    BY <1>1, <1>4, TaskWrites DEF DumpOn, Snapshot
  <2>2. vcd'.dumping \in BOOLEAN
    BY <2>1 DEF Keeps, Clocked, Writer
  <2>3. ~vcd'.limit_hit =>
          \A u \in Time, n \in declared : u >= now => vcd'.shown[u][n] = cur'[n]
    BY <1>1, <2>1 DEF ShownFrom
  <2> QED BY <1>1, <2>1, <2>2, <2>3 DEF Writes
<1>5. CASE DumpAll
  <2>1. /\ Keeps(vcd, vcd', now) /\ (vcd'.dumping <=> vcd.dumping)
        /\ ~vcd'.limit_hit => ShownFrom(vcd, vcd', declared, cur, now)
        /\ Recorded /\ now' = now /\ declared' = declared /\ cur' = cur
        /\ dumping' = dumping
    BY <1>1, <1>5, TaskWrites DEF DumpAll, Snapshot
  <2>2. vcd'.dumping \in BOOLEAN
    BY <2>1 DEF Keeps, Clocked, Writer
  <2>3. ~vcd'.limit_hit =>
          \A u \in Time, n \in declared : u >= now => vcd'.shown[u][n] = cur'[n]
    BY <1>1, <2>1 DEF ShownFrom
  <2> QED BY <1>1, <2>1, <2>2, <2>3 DEF Writes
<1>6. ASSUME NEW n \in Nets, NEW v \in Values, Write(n, v)
      PROVE  /\ Writes(vcd, vcd') /\ Recorded /\ now' = now /\ declared' = declared
             /\ cur' \in [Nets -> Values] /\ dumping' \in BOOLEAN
  <2>1. /\ Recorded /\ now' = now /\ declared' = declared /\ dumping' = dumping
        /\ cur' = [cur EXCEPT ![n] = v]
    BY <1>6 DEF Write
  <2>2. cur' \in [Nets -> Values] /\ cur' \in [Nets -> Shows]
    BY <1>1, <2>1 DEF Shows
  <2>3. \A m \in Nets : m # n => cur'[m] = cur[m]
    BY <1>1, <2>1
  <2>4. CASE Emits(n)
    <3>1. /\ Keeps(vcd, vcd', now) /\ (vcd'.dumping <=> vcd.dumping)
          /\ vcd.dumping /\ ~vcd'.limit_hit => ShownFrom(vcd, vcd', {n}, cur', now)
      <4>1. vcd' = value_change(set_time(vcd, now), n, cur')
        BY <1>6, <2>4 DEF Write
      <4>2. Clocked(vcd, now) /\ now \in Time /\ cur' \in [Nets -> Shows]
        BY <1>1, <2>2
      <4> QED BY <4>1, <4>2, ChangeWrites
    <3>2. vcd'.dumping \in BOOLEAN
      BY <3>1 DEF Keeps, Clocked, Writer
    <3>3. ASSUME dumping, ~vcd'.limit_hit, NEW u \in Time, NEW m \in declared, u >= now
          PROVE  vcd'.shown[u][m] = cur'[m]
      <4>1. ~vcd.limit_hit
        BY <3>1, <3>3 DEF Keeps
      <4> QED BY <1>1, <1>2, <2>3, <3>1, <3>3, <4>1 DEF ShownFrom
    <3>4. vcd'.dumping = dumping'
      BY <1>1, <2>1, <3>1, <3>2
    <3> QED BY <2>1, <2>2, <3>1, <3>3, <3>4, <1>1 DEF Writes
  <2>5. CASE ~Emits(n)
    <3>1. vcd' = vcd
      BY <1>6, <2>5 DEF Write
    <3>2. Keeps(vcd, vcd', now)
      BY <1>1, <3>1 DEF Keeps
    <3>3. dumping => \A m \in declared : m # n
      BY <2>5 DEF Emits
    <3>4. ASSUME dumping, ~vcd.limit_hit, NEW u \in Time, NEW m \in declared, u >= now
          PROVE  vcd'.shown[u][m] = cur'[m]
      BY <1>1, <1>2, <2>3, <3>1, <3>3, <3>4
    <3> QED BY <1>1, <2>1, <2>2, <3>1, <3>2, <3>4 DEF Writes
  <2> QED BY <2>4, <2>5
<1> QED BY <1>3, <1>4, <1>5, <1>6
-----------------------------------------------------------------------------
\* A file opens with everything it dumps, and its first stamp.
LEMMA Opening ==
    ASSUME NEW t \in Time, NEW S \in SUBSET Nets, NEW val \in [Nets -> Shows],
           NEW v, v = set_time(dump_initial(NewWriter, S, val), t)
    PROVE  /\ Clocked(v, t) /\ v.dumping /\ ~v.limit_hit
           /\ \A u \in Time, n \in S : v.shown[u][n] = val[n]
<1> DEFINE b == 1 + Cardinality(S) + 2
           sh == [u \in Time |-> [n \in Nets |->
                     IF u >= Since(NewWriter) /\ n \in S THEN val[n] ELSE X]]
<1>1. /\ Cardinality(S) \in Nat /\ 0 \in Time
  BY DumpControlAssumption, FS_Subset, FS_CardinalityType DEF Time
<1>2. Since(NewWriter) = 0
  BY DEF Since, NewWriter
<1>3. b \in Nat
  BY <1>1
<1>4. sh \in Shown
  BY DEF Shown, Shows
<1>5. \A u \in Time, n \in S : sh[u][n] = val[n]
  BY <1>2 DEF Time
<1> DEFINE w == [open |-> TRUE, current_time |-> 0, time_written |-> FALSE, dumping |-> TRUE,
                 byte_limit |-> 0, limit_hit |-> FALSE, bytes |-> b, stamps |-> <<>>,
                 shown |-> sh]
<1>6. dump_initial(NewWriter, S, val) = w
  <2>1. \A u \in Time, n \in Nets : NewWriter.shown[u][n] = X
    BY DEF NewWriter
  <2>2. [u \in Time |-> [n \in Nets |->
            IF u >= Since(NewWriter) /\ n \in S THEN val[n] ELSE NewWriter.shown[u][n]]] = sh
    BY <2>1
  <2>3. Records(NewWriter, S, val) =
          [NewWriter EXCEPT !.bytes = NewWriter.bytes + Cardinality(S), !.shown = sh]
    BY <2>2 DEF Records
  <2> HIDE DEF sh
  <2>4. Records(NewWriter, S, val).bytes = 1 + Cardinality(S)
    BY <2>3 DEF NewWriter
  <2>5. Block(NewWriter, S, val) = [Records(NewWriter, S, val) EXCEPT !.bytes = b]
    BY <2>4 DEF Block
  <2> QED BY <2>3, <2>5 DEF dump_initial, NewWriter
<1> HIDE DEF b, sh
<1>7. w \in Writer
  BY <1>1, <1>3, <1>4 DEF Writer, Shown
<1>8. ~Stamped(w, t) /\ ~Over(w)
  BY DEF Stamped, Over
<1>9. v = StampWriter(w, t, b + 1, Append(<<>>, t))
  BY <1>6, <1>8 DEF set_time, StampWriter
<1>10. b + 1 \in Nat /\ Append(<<>>, t) = <<t>> /\ <<t>> \in Seq(Time)
  BY <1>3
<1>11. w.stamps = <<>> /\ w.shown = sh /\ ~w.limit_hit /\ w.dumping
  OBVIOUS
<1> HIDE DEF w
<1> DEFINE c == b + 1
           s == <<t>>
<1>12. c \in Nat /\ s \in Seq(Time) /\ v = StampWriter(w, t, c, s)
  BY <1>9, <1>10
<1>13. s # <<>> /\ DOMAIN s = {1} /\ Len(s) = 1 /\ s[1] = t
  OBVIOUS
<1> HIDE DEF c, s
<1>14. /\ v \in Writer /\ v.current_time = t /\ v.time_written
       /\ v.stamps = s /\ (v.limit_hit <=> w.limit_hit)
       /\ v.shown = w.shown /\ (v.dumping <=> w.dumping)
  BY <1>7, <1>12, StampUpdate
<1>15. Since(v) = t
  BY <1>13, <1>14 DEF Since
<1>16. Clocked(v, t)
  BY <1>13, <1>14, <1>15 DEF Clocked, Time
<1> QED BY <1>5, <1>11, <1>14, <1>16

\* The invariant holds before the first dump task.
LEMMA DInvInit == Init => DInv
<1> SUFFICES ASSUME Init PROVE DInv
  OBVIOUS
<1>1. vcd = Closed /\ vcd.open = FALSE /\ 0 \in Time
  BY DumpControlAssumption DEF Init, Closed, Time
<1>2. TypeOK
  BY <1>1 DEF Init, TypeOK
<1>3. /\ \A t \in Time : held[t] = cur
      /\ \A t \in Time : live[t] = FALSE
  BY DEF Init
<1>4. HistoryCurrent
  BY <1>1, <1>3 DEF HistoryCurrent
<1> QED BY <1>1, <1>2, <1>3, <1>4 DEF DInv, FlagsAgree, Faithful, NotYetLive

\* Every step, dump task, change or passing time, preserves the invariant.
LEMMA DInvStep == DInv /\ [Next]_vars => DInv'
<1> SUFFICES ASSUME DInv, [Next]_vars PROVE DInv'
  OBVIOUS
<1>0. /\ TypeOK /\ vcd.open \in BOOLEAN /\ now \in Time
      /\ (vcd \in Writer /\ vcd.open = TRUE) \/ (vcd = Closed /\ vcd.open = FALSE)
  BY OpenTypes DEF DInv, TypeOK
<1>1. CASE UNCHANGED vars
  BY <1>1 DEF vars, DInv, TypeOK, Clocked, FlagsAgree, HistoryCurrent, Faithful, NotYetLive
<1>2. CASE \/ \E n \in Nets, v \in Values : Write(n, v)
           \/ DumpOff \/ DumpOn \/ DumpAll
  <2>1. CASE vcd.open
    BY <1>2, <2>1, OpenActions, OpenStep
  <2>2. CASE ~vcd.open
    <3>1. vcd' = vcd /\ now' = now /\ declared' = declared /\ dumping' \in BOOLEAN
      BY <1>0, <1>2, <2>2 DEF Write, Emits, DumpOff, DumpOn, DumpAll, TypeOK
    <3>2. Recorded
      BY <1>2 DEF Write, DumpOff, DumpOn, DumpAll
    <3>3. cur' \in [Nets -> Values]
      BY <1>0, <1>2 DEF Write, DumpOff, DumpOn, DumpAll, TypeOK
    <3> QED BY <2>2, <3>1, <3>2, <3>3, ClosedStep
  <2> QED BY <2>1, <2>2
<1>3. CASE Advance
  <2>1. /\ now' = now + 1 /\ now' \in Time /\ now \in Int
        /\ UNCHANGED <<cur, vcd, declared, dumping, held, live>>
    <3>1. now < MaxTime /\ now' = now + 1
      BY <1>3 DEF Advance
    <3>2. now \in Nat /\ MaxTime \in Nat
      BY <1>0, DumpControlAssumption DEF Time
    <3>3. now + 1 \in 0 .. MaxTime
      BY <3>1, <3>2
    <3> QED BY <1>3, <3>1, <3>2, <3>3 DEF Advance, Time
  <2>2. ASSUME vcd \in Writer, vcd.current_time <= now
        PROVE  vcd'.current_time <= now'
    <3>1. vcd.current_time \in Int
      BY <2>2 DEF Writer, Time
    <3> QED BY <2>1, <2>2, <3>1
  <2>6. TypeOK'
    BY <1>0, <2>1, <2>2 DEF TypeOK
  <2>3. (vcd.open => Clocked(vcd, now))'
    <3> SUFFICES ASSUME vcd.open PROVE Clocked(vcd, now')
      BY <2>1
    <3>1. Clocked(vcd, now) /\ vcd \in Writer /\ vcd.current_time <= now'
      BY <2>1, <2>2 DEF DInv, Clocked
    <3> QED BY <3>1 DEF Clocked
  <2>4. HistoryCurrent'
    <3>1. \A t \in Time : t >= now' => t >= now
      BY <2>1 DEF Time
    <3> QED BY <2>1, <3>1 DEF DInv, HistoryCurrent
  <2>5. FlagsAgree' /\ Faithful' /\ NotYetLive'
    BY <2>1 DEF DInv, FlagsAgree, Faithful, NotYetLive
  <2> QED BY <2>3, <2>4, <2>5, <2>6 DEF DInv
<1>4. ASSUME NEW size \in Limits, DumpLimit(size) PROVE DInv'
  <2>1. /\ vcd.open /\ vcd \in Writer /\ size \in Nat
        /\ vcd' = [vcd EXCEPT !.byte_limit = size]
        /\ UNCHANGED <<now, cur, declared, dumping, held, live>>
    BY <1>0, <1>4, DumpControlAssumption DEF DumpLimit
  <2>2. vcd' \in Writer
    BY <2>1 DEF Writer
  <2>3. /\ vcd'.open = vcd.open /\ vcd'.current_time = vcd.current_time
        /\ vcd'.time_written = vcd.time_written /\ vcd'.dumping = vcd.dumping
        /\ vcd'.limit_hit = vcd.limit_hit /\ vcd'.stamps = vcd.stamps
        /\ vcd'.shown = vcd.shown
    BY <2>1 DEF Writer
  <2>4. Clocked(vcd', now)
    BY <2>1, <2>2, <2>3 DEF DInv, Clocked, Since
  <2>5. TypeOK'
    BY <1>0, <2>1, <2>2, <2>4 DEF TypeOK, Clocked
  <2>6. FlagsAgree' /\ Faithful' /\ NotYetLive' /\ HistoryCurrent'
    BY <2>1, <2>3 DEF DInv, FlagsAgree, Faithful, NotYetLive, HistoryCurrent
  <2> QED BY <2>1, <2>4, <2>5, <2>6 DEF DInv
<1>5. ASSUME NEW S \in SUBSET Nets, DumpVars(S) PROVE DInv'
  <2>1. /\ vcd.open = FALSE /\ Recorded /\ declared' = S /\ dumping' = TRUE
        /\ now' = now /\ cur' = cur
        /\ vcd' = set_time(dump_initial(NewWriter, S, cur), now)
    BY <1>0, <1>5 DEF DumpVars
  <2>2. cur \in [Nets -> Values] /\ cur \in [Nets -> Shows]
    BY <1>0 DEF TypeOK, Shows
  <2>3. /\ Clocked(vcd', now) /\ vcd'.dumping /\ ~vcd'.limit_hit
        /\ \A u \in Time, n \in S : vcd'.shown[u][n] = cur[n]
    BY <1>0, <2>1, <2>2, Opening
  <2>4. /\ vcd' \in Writer /\ vcd'.open = TRUE /\ vcd'.dumping \in BOOLEAN
        /\ vcd'.time_written /\ vcd'.current_time <= now
    BY <2>3 DEF Clocked, Writer
  <2>5. /\ held' \in [Time -> [Nets -> Values]]
        /\ \A t \in Time : held'[t] = IF t >= now THEN cur ELSE held[t]
    BY <1>0, <2>1, <2>2 DEF Recorded, TypeOK
  <2>6. \A t \in Time : live[t] = FALSE
    BY <2>1 DEF DInv, NotYetLive
  <2>7. /\ live' \in [Time -> BOOLEAN]
        /\ \A t \in Time : live'[t] = IF t < now THEN FALSE ELSE TRUE
    <3>1. live' = [t \in Time |-> IF t < now THEN live[t]
                                  ELSE dumping' /\ vcd'.open /\ ~vcd'.limit_hit]
      BY <2>1 DEF Recorded
    <3>2. (dumping' /\ vcd'.open /\ ~vcd'.limit_hit) = TRUE
      BY <2>1, <2>3, <2>4
    <3> QED BY <2>6, <3>1, <3>2
  <2>8. TypeOK'
    BY <1>0, <2>1, <2>2, <2>4, <2>5, <2>7 DEF TypeOK
  <2>9. HistoryCurrent'
    <3> SUFFICES ASSUME NEW t \in Time, t >= now
                 PROVE  /\ held'[t] = cur'
                        /\ live'[t] = (dumping' /\ vcd'.open /\ ~vcd'.limit_hit)
      BY <2>1 DEF HistoryCurrent
    <3>1. (dumping' /\ vcd'.open /\ ~vcd'.limit_hit) = TRUE
      BY <2>1, <2>3, <2>4
    <3>2. ~(t < now)
      BY <1>0 DEF Time
    <3>3. live'[t] = TRUE
      BY <2>7, <3>2
    <3> QED BY <2>1, <2>5, <3>1, <3>3
  <2>10. Faithful'
    <3> SUFFICES ASSUME NEW t \in Time, live'[t], NEW n \in S
                 PROVE  vcd'.shown[t][n] = held'[t][n]
      BY <2>1 DEF Faithful
    <3>1. ~(t < now)
      BY <2>7
    <3>2. t >= now
      BY <1>0, <3>1 DEF Time
    <3>3. held'[t] = cur
      BY <2>5, <3>2
    <3> QED BY <2>3, <3>3
  <2>11. FlagsAgree'
    BY <2>1, <2>3, <2>4 DEF FlagsAgree
  <2> QED BY <2>1, <2>3, <2>4, <2>8, <2>9, <2>10, <2>11 DEF DInv, NotYetLive
<1> QED BY <1>1, <1>2, <1>3, <1>4, <1>5 DEF Next
-----------------------------------------------------------------------------
\* The invariant holds of every reachable state.
LEMMA Invariance == Spec => []DInv
<1> QED BY DInvInit, DInvStep, PTL DEF Spec

\* The types, and a file never stamped with the future.
THEOREM TypesHold == Spec => []TypeOK
<1>1. DInv => TypeOK
  BY DEF DInv
<1> QED BY <1>1, Invariance, PTL

\* A viewer sees, at the end of every slot with dumping on, what the nets held.
THEOREM WaveformIsFaithful == Spec => []ViewFaithful
<1>1. DInv => ViewFaithful
  <2> SUFFICES ASSUME DInv, NEW t \in 0 .. now, live[t], NEW n \in declared
               PROVE  vcd.shown[t][n] = held[t][n]
    BY DEF ViewFaithful
  <2>1. t \in Time
    BY DumpControlAssumption DEF DInv, TypeOK, Time
  <2> QED BY <2>1 DEF DInv, Faithful
<1> QED BY <1>1, Invariance, PTL

\* No time is stamped twice, none is stamped late.
THEOREM StampsAreOrdered == Spec => []StampsIncrease
<1>1. DInv => StampsIncrease
  BY DEF DInv, Clocked, StampsIncrease
<1> QED BY <1>1, Invariance, PTL

\* The simulation's gate and the writer's never part.
THEOREM GatesAgree == Spec => []FlagsAgree
<1>1. DInv => FlagsAgree
  BY DEF DInv
<1> QED BY <1>1, Invariance, PTL

\* Nothing reaches the file after its limit.
THEOREM LimitHolds == Spec => LimitIsFinal
<1>1. ASSUME DInv, [Next]_vars, vcd.open, vcd.limit_hit
      PROVE  /\ vcd'.open /\ vcd'.limit_hit
             /\ vcd'.bytes = vcd.bytes /\ vcd'.stamps = vcd.stamps
             /\ vcd'.shown = vcd.shown
  <2>1. CASE UNCHANGED vars \/ Advance
    BY <1>1, <2>1 DEF vars, Advance
  <2>2. CASE \/ \E n \in Nets, v \in Values : Write(n, v)
             \/ DumpOff \/ DumpOn \/ DumpAll
    <3>1. Keeps(vcd, vcd', now)
      BY <1>1, <2>2, OpenActions DEF Writes
    <3>2. vcd'.open
      BY <3>1 DEF Keeps, Clocked, Writer
    <3> QED BY <1>1, <3>1, <3>2 DEF Keeps
  <2>3. ASSUME NEW size \in Limits, DumpLimit(size)
        PROVE  /\ vcd'.open /\ vcd'.limit_hit
               /\ vcd'.bytes = vcd.bytes /\ vcd'.stamps = vcd.stamps
               /\ vcd'.shown = vcd.shown
    <3>1. vcd \in Writer
      BY <1>1 DEF DInv, Clocked
    <3> QED BY <1>1, <2>3, <3>1 DEF DumpLimit, Writer
  <2>4. ASSUME NEW S \in SUBSET Nets, DumpVars(S) PROVE FALSE
    BY <1>1, <2>4 DEF DumpVars
  <2> QED BY <1>1, <2>1, <2>2, <2>3, <2>4 DEF Next
<1>2. DInv /\ [Next]_vars =>
        [vcd.open /\ vcd.limit_hit =>
           /\ vcd'.open /\ vcd'.limit_hit
           /\ vcd'.bytes = vcd.bytes /\ vcd'.stamps = vcd.stamps
           /\ vcd'.shown = vcd.shown]_vars
  BY <1>1
<1> QED BY <1>2, Invariance, PTL DEF Spec, LimitIsFinal

\* A change made while dumping is off leaves the file alone.
THEOREM OffLeavesNoTrace == Spec => NoTraceWhileOff
<1>1. [Next]_vars => [~dumping /\ cur' # cur => vcd' = vcd]_vars
  <2> SUFFICES ASSUME [Next]_vars, ~dumping, cur' # cur PROVE vcd' = vcd
    OBVIOUS
  <2>1. \E n \in Nets, v \in Values : Write(n, v)
    BY DEF Next, vars, Advance, DumpVars, DumpOff, DumpOn, DumpAll, DumpLimit
  <2> QED BY <2>1 DEF Write, Emits
<1> QED BY <1>1, PTL DEF Spec, NoTraceWhileOff
=============================================================================
