--------------------------- MODULE ForkJoinProofs ---------------------------
(***************************************************************************)
(* What holds of the activity arena for every number of processes, arms,   *)
(* slots and barriers: its types, the soundness of its two free lists, the *)
(* exactness of every join barrier's countdown, and, below, that a process *)
(* is one thread and the arena keeps the promise of ForkPromise.           *)
(*                                                                         *)
(* None of these is inductive alone.  A countdown is exact because a slot  *)
(* is re-issued only when nobody will report for it; a slot is free of     *)
(* entries because an arm is one thread; a parent's slot is never free     *)
(* because the tie cap keeps arms from forking.  IInv states them together.*)
(***************************************************************************)
EXTENDS ForkJoin, FiniteSetTheorems, TLAPS

Arms == NProc + 1 .. acts

\* The slots past the top-level processes, and only they, are arms; an arm has a
\* barrier, and a tie that the cap refuses to fork from.
SlotKinds ==
    \A a \in Aids :
        IF a \in Arms
        THEN /\ activities[a].is_child
             /\ activities[a].join_ref \in 1 .. bars
             /\ activities[a].tie >= TieHalf
        ELSE /\ ~activities[a].is_child
             /\ ~activities[a].reported
             /\ ~activities[a].dead

\* Nothing names a slot that was never allocated.
Unallocated == \A a \in Aids : a > acts => ready[a] = 0 /\ armed[a] = 0

\* Barriers belong to processes, to top-level ones until a refusal ends the run.
BarrierParents ==
    \A b \in 1 .. bars :
        /\ barriers[b].parent \in 1 .. acts
        /\ ~finished => /\ barriers[b].parent \in BaseAids
                        /\ barriers[b].mode = "None" => barriers[b].fired

ListsAllocated == /\ Listed(free_activities) \subseteq 1 .. acts
                  /\ Listed(free_barriers) \subseteq 1 .. bars

\* An arm is one thread.
OneThread ==
    \A a \in Arms : ready[a] + armed[a] + (IF cur_aid = a THEN 1 ELSE 0) <= 1

RunningIsAlive == cur_aid # 0 => /\ ~activities[cur_aid].dead
                                 /\ ~activities[cur_aid].reported

IInv == /\ TypeOK
        /\ SlotKinds
        /\ Unallocated
        /\ BarrierParents
        /\ ListsAllocated
        /\ OneThread
        /\ RunningIsAlive
        /\ RecycledIsGone
        /\ BarrierCount
-----------------------------------------------------------------------------
(* Lists.                                                                  *)

\* What is left of a free list after its top k slots are taken.
LEMMA PoppedList ==
    ASSUME NEW S, NEW s \in Seq(S), NEW k \in 0 .. Len(s), Distinct(s)
    PROVE  LET t == SubSeq(s, 1, Len(s) - k)
           IN  /\ t \in Seq(S)
               /\ Distinct(t)
               /\ Listed(t) = Listed(s) \ {s[i] : i \in Len(s) + 1 - k .. Len(s)}
<1> DEFINE t == SubSeq(s, 1, Len(s) - k)
<1>1. t \in Seq(S) /\ Len(t) = Len(s) - k /\ \A i \in 1 .. Len(t) : t[i] = s[i]
  OBVIOUS
<1>2. Distinct(t)
  BY <1>1 DEF Distinct
<1>3. \A x : x \in Listed(t) <=> x \in Listed(s) /\ \A i \in Len(s) + 1 - k .. Len(s) : s[i] # x
  <2>1. ASSUME NEW x, x \in Listed(t)
        PROVE  x \in Listed(s) /\ \A i \in Len(s) + 1 - k .. Len(s) : s[i] # x
    BY <1>1, <2>1 DEF Listed, Distinct
  <2>2. ASSUME NEW x, x \in Listed(s), \A i \in Len(s) + 1 - k .. Len(s) : s[i] # x
        PROVE  x \in Listed(t)
    BY <1>1, <2>2 DEF Listed
  <2> QED BY <2>1, <2>2
<1> QED BY <1>1, <1>2, <1>3

\* A slot that is not on a free list is pushed on it.
LEMMA PushedList ==
    ASSUME NEW S, NEW s \in Seq(S), NEW e \in S, Distinct(s), e \notin Listed(s)
    PROVE  /\ Append(s, e) \in Seq(S)
           /\ Distinct(Append(s, e))
           /\ Listed(Append(s, e)) = Listed(s) \cup {e}
<1> DEFINE t == Append(s, e)
<1>1. /\ t \in Seq(S) /\ Len(t) = Len(s) + 1 /\ t[Len(s) + 1] = e
      /\ \A i \in 1 .. Len(s) : t[i] = s[i]
  OBVIOUS
<1>2. Distinct(t)
  BY <1>1 DEF Distinct, Listed
<1>3. \A x : x \in Listed(t) <=> x \in Listed(s) \/ x = e
  <2>1. ASSUME NEW x, x \in Listed(t) PROVE x \in Listed(s) \/ x = e
    BY <1>1, <2>1 DEF Listed
  <2>2. ASSUME NEW x, x \in Listed(s) PROVE x \in Listed(t)
    BY <1>1, <2>2 DEF Listed
  <2>3. e \in Listed(t)
    BY <1>1 DEF Listed
  <2> QED BY <2>1, <2>2, <2>3
<1> QED BY <1>1, <1>2, <1>3

\* The packed tie of an arm is one the cap refuses to fork from.
LEMMA ArmTie ==
    ASSUME NEW pt \in Nat, NEW k \in Nat
    PROVE  compose_child_tie(pt, k) \in Nat /\ compose_child_tie(pt, k) >= TieHalf
<1> DEFINE m == pt * TieHalf
<1>1. TieHalf \in Nat
  BY ForkJoinAssumption
<1>2. m \in Nat
  BY <1>1
<1>3. (pt + 1) * TieHalf = m + TieHalf
  BY <1>1
<1> QED BY <1>1, <1>2, <1>3 DEF compose_child_tie

-----------------------------------------------------------------------------
(* The slots a fork takes.                                                 *)

\* The arms of a fork get distinct slots: those popped from the free list, and
\* every slot the arena grows by.
LEMMA ArmSlotsTaken ==
    ASSUME TypeOK, ListsAllocated, Distinct(free_activities),
           NEW n \in Nat
    PROVE  /\ Recycled(n) \in 0 .. n /\ Recycled(n) <= Len(free_activities)
           /\ ArmSlots(n) = {free_activities[i] : i \in
                                Len(free_activities) + 1 - Recycled(n) .. Len(free_activities)}
                             \cup (acts + 1 .. acts + (n - Recycled(n)))
           /\ \A i, j \in 1 .. n : ArmSlot(i) = ArmSlot(j) => i = j
<1> DEFINE L == Len(free_activities)
           R == Recycled(n)
<1>1. L \in Nat /\ acts \in Nat
      /\ \A i \in 1 .. L : free_activities[i] \in 1 .. acts
  BY ForkJoinAssumption DEF TypeOK, ListsAllocated, Listed
<1>2. R \in 0 .. n /\ R <= L /\ (R < n => R = L)
  BY <1>1 DEF Recycled
<1>3. \A i \in 1 .. n : ArmSlot(i) = IF i <= R THEN free_activities[L + 1 - i]
                                               ELSE acts + (i - R)
  <2> SUFFICES ASSUME NEW i \in 1 .. n
               PROVE  ArmSlot(i) = IF i <= R THEN free_activities[L + 1 - i]
                                             ELSE acts + (i - R)
    OBVIOUS
  <2>1. i <= L <=> i <= R
    BY <1>1, <1>2
  <2>2. i > R => R = L
    BY <1>1, <1>2
  <2> QED BY <1>1, <1>2, <2>1, <2>2 DEF ArmSlot
<1>4. \A i, j \in 1 .. n : ArmSlot(i) = ArmSlot(j) => i = j
  <2> SUFFICES ASSUME NEW i \in 1 .. n, NEW j \in 1 .. n, ArmSlot(i) = ArmSlot(j)
               PROVE  i = j
    OBVIOUS
  <2>1. CASE i <= R /\ j <= R
    <3>1. L + 1 - i \in 1 .. L /\ L + 1 - j \in 1 .. L
      BY <1>1, <1>2, <2>1
    <3>2. free_activities[L + 1 - i] = free_activities[L + 1 - j]
      BY <1>3, <2>1
    <3>3. L + 1 - i = L + 1 - j
      BY <3>1, <3>2 DEF Distinct
    <3> QED BY <1>1, <3>3
  <2>2. CASE i > R /\ j > R
    BY <1>1, <1>2, <1>3, <2>2
  <2>3. \A k \in 1 .. n : IF k <= R THEN ArmSlot(k) <= acts ELSE ArmSlot(k) > acts
    BY <1>1, <1>2, <1>3
  <2> HIDE DEF R
  <2>4. R \in Int /\ i \in Int /\ j \in Int
    BY <1>2
  <2>5. ~(i <= R /\ j > R) /\ ~(i > R /\ j <= R)
    <3>1. acts \in Int /\ ArmSlot(i) \in Int /\ ArmSlot(j) \in Int
      BY <1>1, <1>2, <1>3 DEF R
    <3> QED BY <2>3, <2>4, <3>1
  <2> QED BY <2>1, <2>2, <2>5, <2>4
<1>5. \A a : a \in ArmSlots(n) <=>
             \/ \E i \in L + 1 - R .. L : a = free_activities[i]
             \/ a \in acts + 1 .. acts + (n - R)
  <2>1. ASSUME NEW i \in 1 .. n
        PROVE  \/ \E k \in L + 1 - R .. L : ArmSlot(i) = free_activities[k]
               \/ ArmSlot(i) \in acts + 1 .. acts + (n - R)
    <3>1. CASE i <= R
      <4>1. L + 1 - i \in L + 1 - R .. L
        BY <1>1, <1>2, <3>1
      <4> QED BY <1>3, <3>1, <4>1
    <3>2. CASE i > R
      BY <1>1, <1>2, <1>3, <3>2
    <3> QED BY <1>2, <3>1, <3>2
  <2>2. ASSUME NEW k \in L + 1 - R .. L
        PROVE  \E i \in 1 .. n : ArmSlot(i) = free_activities[k]
    <3>1. L + 1 - k \in 1 .. n /\ L + 1 - k <= R /\ L + 1 - (L + 1 - k) = k
      BY <1>1, <1>2
    <3> QED BY <1>3, <3>1
  <2>3. ASSUME NEW a \in acts + 1 .. acts + (n - R)
        PROVE  \E i \in 1 .. n : ArmSlot(i) = a
    <3>1. R + (a - acts) \in 1 .. n /\ R + (a - acts) > R
          /\ acts + ((R + (a - acts)) - R) = a
      BY <1>1, <1>2
    <3> QED BY <1>1, <1>2, <1>3, <3>1
  <2>4. \A a : a \in ArmSlots(n) <=> \E i \in 1 .. n : ArmSlot(i) = a
    BY DEF ArmSlots
  <2> HIDE DEF L, R
  <2>5. ASSUME NEW a, a \in ArmSlots(n)
        PROVE  \/ \E i \in L + 1 - R .. L : a = free_activities[i]
               \/ a \in acts + 1 .. acts + (n - R)
    BY <2>1, <2>4, <2>5
  <2>6. ASSUME NEW a, \/ \E i \in L + 1 - R .. L : a = free_activities[i]
                      \/ a \in acts + 1 .. acts + (n - R)
        PROVE  a \in ArmSlots(n)
    BY <2>2, <2>3, <2>4, <2>6
  <2> QED BY <2>5, <2>6
<1>6. ArmSlots(n) = {free_activities[i] : i \in L + 1 - R .. L}
                    \cup (acts + 1 .. acts + (n - R))
  BY <1>5
<1> QED BY <1>2, <1>4, <1>6

\* A fork of n arms takes n slots.
LEMMA ArmSlotsCount ==
    ASSUME TypeOK, ListsAllocated, Distinct(free_activities), NEW n \in Nat
    PROVE  IsFiniteSet(ArmSlots(n)) /\ Cardinality(ArmSlots(n)) = n
<1> DEFINE f == [i \in 1 .. n |-> ArmSlot(i)]
<1>1. f \in Bijection(1 .. n, ArmSlots(n))
  <2>1. f \in [1 .. n -> ArmSlots(n)]
    BY DEF ArmSlots
  <2>2. f \in Injection(1 .. n, ArmSlots(n))
    BY <2>1, ArmSlotsTaken DEF Injection, IsInjective
  <2>3. f \in Surjection(1 .. n, ArmSlots(n))
    BY <2>1 DEF Surjection, ArmSlots
  <2> QED BY <2>2, <2>3 DEF Bijection
<1>2. IsFiniteSet(1 .. n) /\ Cardinality(1 .. n) = n
  BY FS_Interval
<1> QED BY <1>1, <1>2, FS_Bijection DEF ExistsBijection

-----------------------------------------------------------------------------
(* Consequences of the invariant.                                          *)

\* A slot that any queue names, or that runs, belongs to an arm that has not
\* reported, or to a top-level process.
LEMMA ActiveIsUnreported ==
    ASSUME IInv, NEW a \in Aids, ready[a] > 0 \/ armed[a] > 0 \/ (cur_aid = a /\ a # 0)
    PROVE  /\ a \in 1 .. acts
           /\ ~activities[a].reported
           /\ a \notin Listed(free_activities)
<1>1. a \in 1 .. acts
  BY ForkJoinAssumption DEF IInv, TypeOK, Unallocated, Aids
<1>2. ready[a] # 0 \/ armed[a] # 0 \/ cur_aid = a
  BY DEF IInv, TypeOK
<1> QED BY <1>1, <1>2 DEF IInv, RecycledIsGone

\* A top-level process is allocated and never on the free list.
LEMMA BaseIsNoArm ==
    ASSUME IInv, NEW p \in BaseAids
    PROVE  /\ p \in Aids /\ p \in 1 .. acts /\ p \notin Arms
           /\ ~activities[p].is_child /\ ~activities[p].reported
           /\ p \notin Listed(free_activities)
<1>1. p \in Aids /\ p \in 1 .. acts /\ p \notin Arms
  BY ForkJoinAssumption DEF IInv, TypeOK, BaseAids, Aids, Arms
<1>2. ~activities[p].is_child /\ ~activities[p].reported
  BY <1>1 DEF IInv, SlotKinds
<1> QED BY <1>1, <1>2 DEF IInv, RecycledIsGone

\* Only an arm can have been forked, and an allocated slot is one or the other.
LEMMA ChildIsArm ==
    ASSUME IInv, NEW a \in Aids
    PROVE  /\ a \in Arms <=> activities[a].is_child
           /\ a \in 1 .. acts <=> a \in BaseAids \/ a \in Arms
BY ForkJoinAssumption DEF IInv, TypeOK, SlotKinds, Arms, BaseAids, Aids

SameArms == \A a \in Aids :
    /\ activities'[a].is_child = activities[a].is_child
    /\ activities'[a].join_ref = activities[a].join_ref
    /\ activities'[a].tie      = activities[a].tie
    /\ activities'[a].reported = activities[a].reported

\* A step that allocates and reports nothing keeps who reports to whom.
LEMMA QuietStep ==
    ASSUME IInv, UNCHANGED <<slots, joins, finished>>, SameArms,
           \A a \in Aids : activities'[a].dead => activities[a].dead \/ a \in Arms
    PROVE  SlotKinds' /\ BarrierParents' /\ ListsAllocated' /\ BarrierCount'
<1>1. SlotKinds'
  BY DEF IInv, SlotKinds, SameArms, Arms, slots, joins
<1>2. BarrierParents'
  BY DEF IInv, BarrierParents, slots, joins
<1>3. ListsAllocated'
  BY DEF IInv, ListsAllocated, Listed, slots, joins
<1>4. \A b : Unreported(b)' = Unreported(b)
  BY ForkJoinAssumption DEF IInv, TypeOK, Unreported, SameArms, Aids, slots
<1>5. BarrierCount'
  BY <1>4 DEF IInv, BarrierCount, joins
<1> QED BY <1>1, <1>2, <1>3, <1>5

\* Such a step keeps the free lists sound if no free slot is named or killed.
LEMMA QuietLists ==
    ASSUME IInv, UNCHANGED <<slots, joins, finished>>, SameArms,
           \A a \in Listed(free_activities) :
               /\ ready'[a] = ready[a] /\ armed'[a] = armed[a] /\ cur_aid' # a
               /\ activities'[a].dead = activities[a].dead
    PROVE  RecycledIsGone'
<1>1. \A b : Unreported(b)' = Unreported(b)
  BY ForkJoinAssumption DEF IInv, TypeOK, Unreported, SameArms, Aids, slots
<1>2. /\ Listed(free_activities)' = Listed(free_activities)
      /\ Listed(free_barriers)' = Listed(free_barriers)
      /\ Distinct(free_activities)' = Distinct(free_activities)
      /\ Distinct(free_barriers)' = Distinct(free_barriers)
  BY DEF slots, joins, Listed, Distinct
<1>3. \A a \in 1 .. acts : activities'[a].reported = activities[a].reported
  BY ForkJoinAssumption DEF IInv, TypeOK, SameArms, Aids
<1> QED BY <1>1, <1>2, <1>3 DEF IInv, RecycledIsGone, slots, joins


\* Suspending, resuming or returning touches one flag.
LEMMA BusyOnly ==
    ASSUME TypeOK, NEW a \in Aids, NEW x \in BOOLEAN,
           activities' = [activities EXCEPT ![a].busy = x]
    PROVE  /\ activities' \in [Aids -> Activity]
           /\ SameArms
           /\ \A c \in Aids : activities'[c].dead = activities[c].dead
<1>1. \A c \in Aids : activities[c] \in Activity
  BY DEF TypeOK
<1>2. \A c \in Aids : activities'[c] = IF c = a THEN [activities[c] EXCEPT !.busy = x]
                                                ELSE activities[c]
  BY DEF TypeOK
<1>3. activities' \in [Aids -> Activity]
  BY <1>1 DEF TypeOK, Activity
<1> QED BY <1>1, <1>2, <1>3 DEF SameArms, Activity

-----------------------------------------------------------------------------
(* The run loop's steps.                                                   *)

\* A top-level sensitivity adds one entry for a process that is no arm.
LEMMA TriggerStep ==
    ASSUME IInv, NEW p \in BaseAids, Trigger(p)
    PROVE  IInv'
<1> USE DEF Trigger
<1>1. p \in Aids /\ p \notin Arms /\ p \in 1 .. acts /\ p \notin Listed(free_activities)
  BY BaseIsNoArm
<1>2. TypeOK'
  BY <1>1 DEF IInv, TypeOK, slots, joins
<1>3. UNCHANGED <<slots, joins, finished>> /\ SameArms
  BY DEF SameArms
<1>4. SlotKinds' /\ BarrierParents' /\ ListsAllocated' /\ BarrierCount'
  BY <1>3, QuietStep
<1>5. Unallocated'
  BY <1>1, <1>2, ForkJoinAssumption DEF IInv, TypeOK, Unallocated, slots
<1>6. OneThread'
  BY <1>1 DEF IInv, OneThread, Arms, slots
<1>7. RunningIsAlive'
  BY DEF IInv, RunningIsAlive
<1>8. RecycledIsGone'
  <2>1. \A a \in Listed(free_activities) :
            ready'[a] = ready[a] /\ armed'[a] = armed[a] /\ cur_aid' # a
    BY <1>1 DEF IInv, TypeOK, RecycledIsGone, ListsAllocated, Aids
  <2> QED BY <1>3, <2>1, QuietLists
<1> QED BY <1>2, <1>4, <1>5, <1>6, <1>7, <1>8 DEF IInv

\* A wake moves one entry of a slot from the wheel or waiter list to the run queue.
LEMMA WakeStep ==
    ASSUME IInv, NEW a \in Aids, Wake(a)
    PROVE  IInv'
<1> USE DEF Wake
<1>1. a \in 1 .. acts /\ a \notin Listed(free_activities)
  BY ActiveIsUnreported
<1>2. TypeOK'
  BY <1>1 DEF IInv, TypeOK, slots, joins
<1>3. UNCHANGED <<slots, joins, finished>> /\ SameArms
  BY DEF SameArms
<1>4. SlotKinds' /\ BarrierParents' /\ ListsAllocated' /\ BarrierCount'
  BY <1>3, QuietStep
<1>5. Unallocated'
  BY <1>1, <1>2, ForkJoinAssumption DEF IInv, TypeOK, Unallocated, slots
<1>6. OneThread'
  <2>1. \A c \in Arms : c \in Aids
    BY ForkJoinAssumption DEF IInv, TypeOK, Arms, Aids
  <2> QED BY <2>1 DEF IInv, TypeOK, OneThread, Arms, slots
<1>7. RunningIsAlive'
  BY DEF IInv, RunningIsAlive
<1>8. RecycledIsGone'
  <2>1. \A c \in Listed(free_activities) :
            ready'[c] = ready[c] /\ armed'[c] = armed[c] /\ cur_aid' # c
    BY <1>1 DEF IInv, TypeOK, RecycledIsGone, ListsAllocated, Aids
  <2> QED BY <1>3, <2>1, QuietLists
<1> QED BY <1>2, <1>4, <1>5, <1>6, <1>7, <1>8 DEF IInv

\* Dispatching, and dropping the stale entry of a killed arm, keeps the invariant:
\* a slot that a queue names has not been recycled.
LEMMA DispatchStep ==
    ASSUME IInv, NEW a \in Aids, Dispatch(a)
    PROVE  IInv'
<1> USE DEF Dispatch
<1>1. a \in 1 .. acts /\ a \notin Listed(free_activities) /\ ~activities[a].reported
  BY ActiveIsUnreported
<1>2. /\ UNCHANGED <<slots, joins, finished>> /\ SameArms
      /\ activities' \in [Aids -> Activity]
      /\ \A c \in Aids : activities'[c].dead = activities[c].dead
  <2>1. CASE activities[a].dead
    BY <2>1, BusyOnly DEF IInv
  <2>2. CASE ~activities[a].dead
    BY <2>2 DEF SameArms, IInv, TypeOK
  <2> QED BY <2>1, <2>2
<1>3. TypeOK'
  <2>1. ready' \in [Aids -> Nat]
    BY DEF IInv, TypeOK
  <2>2. cur_aid' \in 0 .. acts
    BY <1>1, ForkJoinAssumption DEF IInv, TypeOK
  <2> QED BY <1>2, <2>1, <2>2 DEF IInv, TypeOK, slots, joins
<1>4. SlotKinds' /\ BarrierParents' /\ ListsAllocated' /\ BarrierCount'
  BY <1>2, QuietStep
<1>5. Unallocated'
  BY <1>1, <1>3, ForkJoinAssumption DEF IInv, TypeOK, Unallocated, slots
<1>6. OneThread'
  <2>1. \A c \in Arms : c \in Aids
    <3>1. acts \in NProc .. MaxActs
      BY DEF IInv, TypeOK
    <3> QED BY <3>1, ForkJoinAssumption DEF Arms, Aids
  <2> QED BY <2>1 DEF IInv, TypeOK, OneThread, Arms, Between, slots
<1>7. RunningIsAlive'
  BY <1>1, <1>2 DEF IInv, RunningIsAlive, Between
<1>8. RecycledIsGone'
  <2>1. \A c \in Listed(free_activities) :
            ready'[c] = ready[c] /\ armed'[c] = armed[c] /\ cur_aid' # c
    BY <1>1 DEF IInv, TypeOK, RecycledIsGone, ListsAllocated, Aids
  <2>2. \A c \in Listed(free_activities) : c \in Aids
    BY ForkJoinAssumption DEF IInv, TypeOK, ListsAllocated, Aids
  <2> QED BY <1>2, <2>1, <2>2, QuietLists
<1> QED BY <1>3, <1>4, <1>5, <1>6, <1>7, <1>8 DEF IInv

\* Steps that touch nothing but the pending reports.
LEMMA ReportStep ==
    ASSUME IInv, deferred' \subseteq Aids \X Nat,
           UNCHANGED <<activities, slots, joins, cur_aid, queues, finished>>
    PROVE  IInv'
<1>1. TypeOK'
  BY DEF IInv, TypeOK, slots, joins, queues
<1>2. SlotKinds' /\ BarrierParents' /\ ListsAllocated' /\ BarrierCount'
  BY QuietStep DEF SameArms
<1>3. Unallocated' /\ OneThread' /\ RunningIsAlive'
  BY DEF IInv, Unallocated, OneThread, RunningIsAlive, Arms, slots, queues
<1>4. RecycledIsGone'
  BY QuietLists DEF SameArms, IInv, RecycledIsGone, queues
<1> QED BY <1>1, <1>2, <1>3, <1>4 DEF IInv

-----------------------------------------------------------------------------
(* The running body's steps.                                               *)

\* A suspending body leaves one entry behind; its slot is still its own.
LEMMA SuspendStep ==
    ASSUME IInv, NEW a \in Aids, Suspend(a)
    PROVE  IInv'
<1> USE DEF Suspend, Yield, Running
<1>1. a \in 1 .. acts /\ a \notin Listed(free_activities)
  BY ActiveIsUnreported
<1>2. /\ UNCHANGED <<slots, joins, finished>> /\ SameArms
      /\ activities' \in [Aids -> Activity]
      /\ \A c \in Aids : activities'[c].dead = activities[c].dead
  BY BusyOnly DEF IInv
<1>3. TypeOK'
  <2>1. armed' \in [Aids -> Nat]
    BY DEF IInv, TypeOK
  <2>2. cur_aid' \in 0 .. acts
    BY ForkJoinAssumption DEF IInv, TypeOK
  <2> QED BY <1>2, <2>1, <2>2 DEF IInv, TypeOK, slots, joins
<1>4. SlotKinds' /\ BarrierParents' /\ ListsAllocated' /\ BarrierCount'
  BY <1>2, QuietStep
<1>5. Unallocated'
  BY <1>1, <1>3, ForkJoinAssumption DEF IInv, TypeOK, Unallocated, slots
<1>6. OneThread'
  <2>1. \A c \in Arms : c \in Aids /\ c # 0
    BY ForkJoinAssumption DEF IInv, TypeOK, Arms, Aids
  <2> QED BY <2>1 DEF IInv, TypeOK, OneThread, Arms, slots
<1>7. RunningIsAlive'
  BY DEF RunningIsAlive
<1>8. RecycledIsGone'
  <2>1. \A c \in Listed(free_activities) : c \in Aids /\ c # a /\ c # 0
    BY <1>1, ForkJoinAssumption DEF IInv, TypeOK, ListsAllocated, Aids
  <2>2. \A c \in Listed(free_activities) :
            ready'[c] = ready[c] /\ armed'[c] = armed[c] /\ cur_aid' # c
    BY <2>1 DEF IInv, TypeOK
  <2> QED BY <1>2, <2>1, <2>2, QuietLists
<1> QED BY <1>3, <1>4, <1>5, <1>6, <1>7, <1>8 DEF IInv

\* A body that gives the thread back, or goes on, without a queue entry.
LEMMA BodyStep ==
    ASSUME IInv, UNCHANGED <<slots, joins, queues, finished>>, SameArms,
           activities' \in [Aids -> Activity],
           \A c \in Aids : activities'[c].dead = activities[c].dead,
           cur_aid' = 0 \/ cur_aid' = cur_aid,
           deferred' \subseteq Aids \X Nat
    PROVE  IInv'
<1>1. TypeOK'
  BY ForkJoinAssumption DEF IInv, TypeOK, slots, joins, queues
<1>2. SlotKinds' /\ BarrierParents' /\ ListsAllocated' /\ BarrierCount'
  BY QuietStep
<1>3. Unallocated'
  BY DEF IInv, Unallocated, slots, queues
<1>4. OneThread'
  <2>1. \A c \in Arms : c \in Aids /\ c # 0
    BY ForkJoinAssumption DEF IInv, TypeOK, Arms, Aids
  <2>2. \A c \in Arms : cur_aid' = c => cur_aid = c
    BY <2>1
  <2>3. \A c \in Arms : ready[c] \in Nat /\ armed[c] \in Nat
    BY <2>1 DEF IInv, TypeOK
  <2>4. \A c \in Arms : ready[c] + armed[c] + (IF cur_aid' = c THEN 1 ELSE 0)
                          <= ready[c] + armed[c] + (IF cur_aid = c THEN 1 ELSE 0)
    BY <2>2, <2>3
  <2>5. \A c \in Arms : ready[c] + armed[c] + (IF cur_aid' = c THEN 1 ELSE 0) <= 1
    BY <2>3, <2>4 DEF IInv, OneThread
  <2> QED BY <2>5 DEF OneThread, Arms, slots, queues
<1>5. RunningIsAlive'
  <2>1. cur_aid # 0 => cur_aid \in Aids
    BY ForkJoinAssumption DEF IInv, TypeOK, Aids
  <2> QED BY <2>1 DEF IInv, RunningIsAlive, SameArms
<1>6. RecycledIsGone'
  <2>1. \A c \in Listed(free_activities) : c \in Aids /\ c # 0
    BY ForkJoinAssumption DEF IInv, TypeOK, ListsAllocated, Aids
  <2>2. \A c \in Listed(free_activities) : cur_aid' # c
    BY <2>1 DEF IInv, RecycledIsGone
  <2> QED BY <2>1, <2>2, QuietLists DEF queues
<1> QED BY <1>1, <1>2, <1>3, <1>4, <1>5, <1>6 DEF IInv

\* A top-level body that returns clears its busy flag and nothing else.
LEMMA ReturnStep ==
    ASSUME IInv, NEW p \in Aids, Return(p)
    PROVE  IInv'
<1>1. /\ SameArms /\ activities' \in [Aids -> Activity]
      /\ \A c \in Aids : activities'[c].dead = activities[c].dead
  BY BusyOnly DEF IInv, Return, Yield
<1> QED BY <1>1, BodyStep DEF Return, Yield, IInv, TypeOK

\* A body at its `$finish` gives the thread back and is never named again.
LEMMA FinishStep ==
    ASSUME IInv, NEW a \in Aids, Finish(a)
    PROVE  IInv'
<1>1. /\ SameArms /\ activities' \in [Aids -> Activity]
      /\ \A c \in Aids : activities'[c].dead = activities[c].dead
  <2>1. a \in DOMAIN activities /\ activities[a] \in Activity
    BY DEF IInv, TypeOK
  <2>2. [activities[a] EXCEPT !.busy = TRUE, !.stopped = TRUE] \in Activity
    BY <2>1 DEF Activity
  <2> QED BY <2>1, <2>2 DEF IInv, TypeOK, Finish, SameArms, Activity
<1> QED BY <1>1, BodyStep DEF Finish, IInv, TypeOK

\* `wait fork` records a count in its own process and nothing else.
LEMMA WaitForkStep ==
    ASSUME IInv, NEW p \in Aids, WaitFork(p)
    PROVE  IInv'
<1> DEFINE w == Cardinality(LiveChildren(p))
<1>1. w \in Nat
  <2>1. IsFiniteSet(1 .. acts)
    BY FS_Interval, ForkJoinAssumption DEF IInv, TypeOK
  <2>2. LiveChildren(p) \in SUBSET (1 .. acts)
    BY DEF LiveChildren
  <2> QED BY <2>1, <2>2, FS_Subset, FS_CardinalityType
<1>2. activities' = [activities EXCEPT ![p].busy = TRUE, ![p].wait_fork = w]
  BY DEF WaitFork
<1> HIDE DEF w
<1>3. \A c \in Aids : activities[c] \in Activity
  BY DEF IInv, TypeOK
<1>4. activities' \in [Aids -> Activity]
  <2>1. [activities[p] EXCEPT !.busy = TRUE, !.wait_fork = w] \in Activity
    BY <1>1, <1>3 DEF Activity
  <2>2. activities' = [activities EXCEPT ![p] =
                          [activities[p] EXCEPT !.busy = TRUE, !.wait_fork = w]]
    BY <1>2 DEF IInv, TypeOK
  <2> QED BY <2>1, <2>2 DEF IInv, TypeOK
<1>5. \A c \in Aids :
          activities'[c] = IF c = p
                           THEN [activities[c] EXCEPT !.busy = TRUE, !.wait_fork = w]
                           ELSE activities[c]
  BY <1>2 DEF IInv, TypeOK
<1>6. SameArms /\ \A c \in Aids : activities'[c].dead = activities[c].dead
  BY <1>3, <1>5 DEF SameArms, Activity
<1> QED BY <1>4, <1>6, BodyStep DEF WaitFork, IInv, TypeOK

\* `disable fork` kills running arms only, and never the process that executes it.
LEMMA KilledAreLive ==
    ASSUME IInv, NEW p \in 1 .. acts, NEW a \in Descendants(p)
    PROVE  /\ a \in Aids /\ a \in Arms /\ a # p
           /\ Live(a) /\ a \notin Listed(free_activities)
<1> DEFINE Closed(S) == /\ p \in S
                        /\ \A c \in 1 .. acts : Live(c) /\ ParentOf(c) \in S => c \in S
           S0 == {c \in 1 .. acts : c = p \/ Live(c)}
<1>1. S0 \in SUBSET (1 .. acts) /\ Closed(S0)
  OBVIOUS
<1>2. a \in 1 .. acts /\ a # p /\ \A S \in SUBSET (1 .. acts) : Closed(S) => a \in S
  BY DEF Descendants
<1>3. a \in S0
  BY <1>1, <1>2
<1>4. Live(a)
  BY <1>2, <1>3
<1>5. a \in Aids
  BY <1>2, ForkJoinAssumption DEF IInv, TypeOK, Aids
<1>6. a \in Arms
  BY <1>4, <1>5, ChildIsArm DEF Live
<1>7. a \notin Listed(free_activities)
  BY <1>2, <1>4 DEF IInv, RecycledIsGone, Live
<1> QED BY <1>2, <1>4, <1>5, <1>6, <1>7

\* `disable fork` kills arms that have not reported, so the barriers still count
\* them and none of them is on the free list.
LEMMA DisableForkStep ==
    ASSUME IInv, NEW p \in Aids, DisableFork(p)
    PROVE  IInv'
<1> DEFINE kill == Descendants(p)
<1>1. p \in 1 .. acts /\ ~activities[p].dead /\ ~activities[p].reported
  BY ActiveIsUnreported DEF DisableFork, Running, IInv, RunningIsAlive
<1>2. \A a \in kill : a \in Arms /\ a # p /\ a \notin Listed(free_activities)
  BY <1>1, KilledAreLive
<1>3. activities' = [a \in Aids |-> IF a \in kill THEN [activities[a] EXCEPT !.dead = TRUE]
                                                 ELSE activities[a]]
  BY DEF DisableFork
<1>4. deferred' \subseteq Aids \X Nat
  BY DEF DisableFork, IInv, TypeOK
<1> HIDE DEF kill
<1>5. \A a \in Aids : activities[a] \in Activity
  BY DEF IInv, TypeOK
<1>6. activities' \in [Aids -> Activity]
  BY <1>3, <1>5 DEF Activity
<1>7. SameArms /\ \A a \in Aids \ kill : activities'[a].dead = activities[a].dead
  BY <1>3, <1>5 DEF SameArms, Activity
<1>8. UNCHANGED <<slots, joins, cur_aid, queues, finished>>
  BY DEF DisableFork
<1>9. TypeOK'
  BY <1>4, <1>6, <1>8 DEF IInv, TypeOK, slots, joins, queues
<1>10. SlotKinds' /\ BarrierParents' /\ ListsAllocated' /\ BarrierCount'
  BY <1>2, <1>7, <1>8, QuietStep
<1>11. Unallocated' /\ OneThread'
  BY <1>8 DEF IInv, Unallocated, OneThread, Arms, slots, queues
<1>12. RunningIsAlive'
  BY <1>1, <1>2, <1>7, <1>8 DEF DisableFork, Running, RunningIsAlive, SameArms
<1>13. RecycledIsGone'
  <2>1. \A c \in Listed(free_activities) : c \in Aids \ kill
    BY <1>2, ForkJoinAssumption DEF IInv, TypeOK, ListsAllocated, Aids
  <2> QED BY <1>7, <1>8, <2>1, QuietLists DEF IInv, RecycledIsGone, queues
<1> QED BY <1>9, <1>10, <1>11, <1>12, <1>13 DEF IInv

-----------------------------------------------------------------------------
(* A fork.                                                                 *)

\* A fork registers barrier j, which nobody reports to yet.
TakesBarrier(j, p, mode, n, fired) ==
    /\ j \in Bars
    /\ barriers' = [barriers EXCEPT ![j] =
           [parent |-> p, mode |-> mode, outstanding |-> n, fired |-> fired]]
    /\ barriers' \in [Bars -> Barrier]
    /\ bars' \in bars .. MaxBarriers
    /\ \A b : b \in 1 .. bars' <=> b \in 1 .. bars \/ b = j
    /\ free_barriers' \in Seq(Bars)
    /\ Distinct(free_barriers')
    /\ Listed(free_barriers') = Listed(free_barriers) \ {j}
    /\ \A a \in Aids : activities[a].is_child /\ ~activities[a].reported
                          /\ a \in 1 .. acts => activities[a].join_ref # j

\* The barrier slot a fork takes was free or new: no arm reports to it.
LEMMA BarrierTaken ==
    ASSUME IInv, NEW p \in 1 .. acts, NEW mode \in JoinMode, NEW n \in Nat,
           NEW fired \in BOOLEAN, JoinSlot <= MaxBarriers,
           RegisterBarrier(p, mode, n, fired)
    PROVE  TakesBarrier(JoinSlot, p, mode, n, fired)
<1> USE DEF TakesBarrier
<1> DEFINE L == Len(free_barriers)
<1>1. /\ MaxBarriers \in Nat /\ bars \in 0 .. MaxBarriers /\ acts \in 1 .. MaxActs
      /\ MaxActs \in Nat
      /\ free_barriers \in Seq(Bars) /\ Distinct(free_barriers) /\ L \in Nat
  BY ForkJoinAssumption DEF IInv, TypeOK, RecycledIsGone
<1>2. [parent |-> p, mode |-> mode, outstanding |-> n, fired |-> fired] \in Barrier
  <2>1. p \in 0 .. MaxActs
    BY <1>1
  <2> QED BY <2>1 DEF Barrier
<1>3. CASE free_barriers = <<>>
  <2>1. JoinSlot = bars + 1 /\ bars' = bars + 1 /\ free_barriers' = free_barriers
    BY <1>3 DEF JoinSlot, RegisterBarrier
  <2>2. Listed(free_barriers) = {}
    BY <1>3 DEF Listed
  <2>3. \A a \in Aids : activities[a].is_child => activities[a].join_ref \in 1 .. bars
    BY ChildIsArm DEF IInv, SlotKinds
  <2>4. JoinSlot \in Bars
    BY <1>1, <2>1 DEF Bars
  <2>5. barriers' \in [Bars -> Barrier]
    BY <1>2 DEF RegisterBarrier, IInv, TypeOK
  <2> QED BY <1>1, <2>1, <2>2, <2>3, <2>4, <2>5 DEF RegisterBarrier
<1>4. CASE free_barriers # <<>>
  <2>1. JoinSlot = free_barriers[L] /\ L >= 1 /\ bars' = bars
        /\ free_barriers' = SubSeq(free_barriers, 1, L - 1)
    BY <1>1, <1>4 DEF JoinSlot, RegisterBarrier
  <2>2. JoinSlot \in Listed(free_barriers)
    BY <1>1, <2>1 DEF Listed
  <2>3. JoinSlot \in 1 .. bars /\ Unreported(JoinSlot) = {}
    BY <2>2 DEF IInv, ListsAllocated, RecycledIsGone
  <2>4. /\ free_barriers' \in Seq(Bars) /\ Distinct(free_barriers')
        /\ Listed(free_barriers') =
               Listed(free_barriers) \ {free_barriers[i] : i \in L + 1 - 1 .. L}
    BY <1>1, <2>1, PoppedList
  <2>5. {free_barriers[i] : i \in L + 1 - 1 .. L} = {JoinSlot}
    BY <1>1, <2>1
  <2>6. \A a \in Aids : activities[a].is_child /\ ~activities[a].reported
                           /\ a \in 1 .. acts => activities[a].join_ref # JoinSlot
    BY <2>3 DEF Unreported
  <2>7. JoinSlot \in Bars
    BY <1>1, <2>3 DEF Bars
  <2>8. barriers' \in [Bars -> Barrier]
    BY <1>2 DEF RegisterBarrier, IInv, TypeOK
  <2> QED BY <1>1, <2>1, <2>3, <2>4, <2>5, <2>6, <2>7, <2>8 DEF RegisterBarrier
<1> QED BY <1>3, <1>4

\* A refused fork has registered its barrier, and ends the run.
LEMMA ForkRefusedStep ==
    ASSUME IInv, NEW p \in Aids, NEW mode \in JoinMode, NEW n \in 0 .. MaxArms,
           ForkRefused(p, mode, n)
    PROVE  IInv'
<1> n \in Nat
  BY ForkJoinAssumption
<1>1. p \in 1 .. acts /\ p # 0
  BY ActiveIsUnreported DEF ForkRefused, Running
<1>2. /\ JoinSlot \in Bars
      /\ barriers' \in [Bars -> Barrier]
      /\ bars' \in bars .. MaxBarriers
      /\ \A b : b \in 1 .. bars' <=> b \in 1 .. bars \/ b = JoinSlot
      /\ free_barriers' \in Seq(Bars)
      /\ Distinct(free_barriers')
      /\ Listed(free_barriers') = Listed(free_barriers) \ {JoinSlot}
      /\ barriers'[JoinSlot] = [parent |-> p, mode |-> mode, outstanding |-> n, fired |-> FALSE]
      /\ \A b \in Bars : b # JoinSlot => barriers'[b] = barriers[b]
  <2>1. JoinSlot <= MaxBarriers /\ RegisterBarrier(p, mode, n, FALSE)
    BY DEF ForkRefused
  <2>2. TakesBarrier(JoinSlot, p, mode, n, FALSE)
    BY <1>1, <2>1, BarrierTaken
  <2>3. barriers \in [Bars -> Barrier]
    BY DEF IInv, TypeOK
  <2> QED BY <2>2, <2>3 DEF TakesBarrier
<1>3. /\ SameArms /\ activities' \in [Aids -> Activity]
      /\ \A c \in Aids : activities'[c].dead = activities[c].dead
  BY BusyOnly DEF IInv, ForkRefused, Yield
<1>4. UNCHANGED <<slots, queues, deferred>> /\ cur_aid' = 0 /\ finished' = TRUE
  BY DEF ForkRefused, Yield
<1>5. bars \in Nat /\ acts \in Nat /\ 1 .. bars \subseteq Bars
  BY ForkJoinAssumption DEF IInv, TypeOK, Bars
<1>6. \A b : Unreported(b)' = Unreported(b)
  BY <1>3, <1>4, ForkJoinAssumption DEF IInv, TypeOK, Unreported, SameArms, Aids, slots
<1>7. TypeOK'
  <2>1. bars' \in 0 .. MaxBarriers
    BY <1>2, <1>5, ForkJoinAssumption
  <2>2. cur_aid' \in 0 .. acts
    BY <1>4, <1>5
  <2> QED BY <1>2, <1>3, <1>4, <2>1, <2>2 DEF IInv, TypeOK, slots, queues
<1>8. SlotKinds'
  BY <1>2, <1>3, <1>4 DEF IInv, SlotKinds, SameArms, Arms, slots
<1>9. Unallocated'
  BY <1>4 DEF IInv, Unallocated, slots, queues
<1>10. BarrierParents'
  BY <1>1, <1>2, <1>4, <1>5 DEF IInv, BarrierParents, slots
<1>11. ListsAllocated'
  BY <1>2, <1>4 DEF IInv, ListsAllocated, slots, Listed
<1>12. OneThread'
  <2>1. \A c \in Arms : c \in Aids /\ c # 0
    BY ForkJoinAssumption DEF IInv, TypeOK, Arms, Aids
  <2>2. \A c \in Arms : ready[c] \in Nat /\ armed[c] \in Nat
    BY <2>1 DEF IInv, TypeOK
  <2>3. \A c \in Arms : ready[c] + armed[c] <= 1
    BY <2>2 DEF IInv, OneThread
  <2> QED BY <1>4, <2>1, <2>2, <2>3 DEF OneThread, Arms, slots, queues
<1>13. RunningIsAlive' /\ BarrierCount'
  BY <1>4 DEF RunningIsAlive, BarrierCount
<1>14. RecycledIsGone'
  <2>1. Listed(free_activities)' = Listed(free_activities)
        /\ Distinct(free_activities)' = Distinct(free_activities)
    BY <1>4 DEF Listed, Distinct, slots
  <2>2. \A a \in 1 .. acts : a \in Aids /\ a # 0
    BY ForkJoinAssumption DEF IInv, TypeOK, Aids
  <2>3. \A a \in Listed(free_activities) : a \in 1 .. acts
    BY DEF IInv, ListsAllocated
  <2>4. \A b \in Listed(free_barriers) : b \in Bars
    BY <1>5 DEF IInv, ListsAllocated
  <2>5. Distinct(free_barriers)' /\ Listed(free_barriers)' = Listed(free_barriers) \ {JoinSlot}
    BY <1>2 DEF Distinct, Listed
  <2>6. \A b \in Listed(free_barriers)' : Unreported(b)' = {} /\ barriers'[b].fired
    BY <1>2, <1>6, <2>4, <2>5 DEF IInv, RecycledIsGone
  <2>7. \A a \in 1 .. acts : a \in Listed(free_activities) <=> activities'[a].reported
    BY <1>3, <2>2 DEF IInv, RecycledIsGone, SameArms
  <2>8. \A a \in Listed(free_activities) :
            ready[a] = 0 /\ armed[a] = 0 /\ cur_aid' # a /\ ~activities'[a].dead
    BY <1>3, <1>4, <2>2, <2>3 DEF IInv, RecycledIsGone
  <2> QED BY <1>4, <2>1, <2>5, <2>6, <2>7, <2>8 DEF IInv, RecycledIsGone, slots, queues
<1> QED BY <1>7, <1>8, <1>9, <1>10, <1>11, <1>12, <1>13, <1>14 DEF IInv

\* What a fork does to the slots it takes, and that it leaves all the others.
LEMMA ForkedSlots ==
    ASSUME IInv, NEW p \in Aids, NEW mode \in JoinMode, NEW n \in 0 .. MaxArms,
           Fork(p, mode, n)
    PROVE  /\ p \in BaseAids /\ p \notin ArmSlots(n)
           /\ acts' \in acts .. MaxActs
           /\ \A a : a \in ArmSlots(n) => a \in Aids /\ a \in NProc + 1 .. acts'
           /\ \A a : a \in 1 .. acts' => a \in 1 .. acts \/ a \in ArmSlots(n)
           /\ \A a \in ArmSlots(n) : a \in 1 .. acts => a \in Listed(free_activities)
           /\ free_activities' \in Seq(Aids) /\ Distinct(free_activities')
           /\ Listed(free_activities') = Listed(free_activities) \ ArmSlots(n)
<1> n \in Nat
  BY ForkJoinAssumption
<1> DEFINE L == Len(free_activities)
           R == Recycled(n)
           top == {free_activities[k] : k \in L + 1 - R .. L}
<1>1. /\ MaxActs \in Nat /\ NProc \in Nat /\ acts \in NProc .. MaxActs /\ acts \in Nat
      /\ free_activities \in Seq(Aids) /\ L \in Nat
      /\ Distinct(free_activities) /\ ListsAllocated /\ TypeOK
  BY ForkJoinAssumption DEF IInv, TypeOK, RecycledIsGone
<1>2. /\ R \in 0 .. n /\ R <= L
      /\ ArmSlots(n) = top \cup (acts + 1 .. acts + (n - R))
  BY <1>1, ArmSlotsTaken
<1>3. p \in 1 .. acts /\ p # 0 /\ p \notin Listed(free_activities)
  BY ActiveIsUnreported DEF Fork, Running
<1>4. p \in BaseAids
  <2>1. activities[p].tie \in Nat
    BY <1>1 DEF TypeOK, Activity
  <2>2. ~(activities[p].tie >= TieHalf)
    BY <2>1, ForkJoinAssumption DEF Fork, TieOverflow
  <2>3. p \notin Arms
    BY <2>2 DEF IInv, SlotKinds
  <2> QED BY <1>3, <2>3, ChildIsArm
<1>5. acts' = acts + (n - R) /\ acts' <= MaxActs
      /\ free_activities' = SubSeq(free_activities, 1, L - R)
  BY DEF Fork, Fits
<1> HIDE DEF R
<1>6. top \subseteq Listed(free_activities)
  BY <1>1, <1>2 DEF Listed
<1>7. \A a \in Listed(free_activities) : a \in 1 .. acts /\ a \in Arms
  <2>1. \A a \in Listed(free_activities) : a \in 1 .. acts /\ a \in Aids
    BY <1>1 DEF ListsAllocated, Aids
  <2>2. \A a \in Listed(free_activities) : activities[a].reported
    BY <2>1 DEF IInv, RecycledIsGone
  <2> QED BY <2>1, <2>2 DEF IInv, SlotKinds
<1> HIDE DEF top
<1>8. acts' \in acts .. MaxActs /\ acts' \in Nat
  BY <1>1, <1>2, <1>5
<1>9. \A a : a \in ArmSlots(n) => a \in Aids /\ a \in NProc + 1 .. acts'
  <2>1. \A a : a \in top => a \in Aids /\ a \in NProc + 1 .. acts'
    BY <1>1, <1>6, <1>7, <1>8 DEF Arms, Aids
  <2>2. \A a : a \in acts + 1 .. acts + (n - R) => a \in Aids /\ a \in NProc + 1 .. acts'
    BY <1>1, <1>5, <1>8 DEF Aids
  <2> QED BY <1>2, <2>1, <2>2
<1>10. \A a : a \in 1 .. acts' => a \in 1 .. acts \/ a \in ArmSlots(n)
  BY <1>1, <1>2, <1>5
<1>11. \A a \in ArmSlots(n) : a \in 1 .. acts => a \in Listed(free_activities)
  <2>1. \A a : a \in 1 .. acts => a \notin acts + 1 .. acts + (n - R)
    BY <1>1
  <2> QED BY <1>2, <1>6, <2>1
<1>12. /\ free_activities' \in Seq(Aids) /\ Distinct(free_activities')
       /\ Listed(free_activities') = Listed(free_activities) \ top
  <2>1. R \in 0 .. Len(free_activities)
    BY <1>1, <1>2
  <2> QED BY <1>1, <1>5, <2>1, PoppedList DEF top
<1>13. Listed(free_activities') = Listed(free_activities) \ ArmSlots(n)
  BY <1>1, <1>2, <1>7, <1>12
<1>14. p \notin ArmSlots(n)
  BY <1>3, <1>11
<1> QED BY <1>4, <1>8, <1>9, <1>10, <1>11, <1>12, <1>13, <1>14

\* The activities a fork leaves behind.
LEMMA ForkedArms ==
    ASSUME IInv, NEW p \in Aids, NEW mode \in JoinMode, NEW n \in 0 .. MaxArms,
           Fork(p, mode, n)
    PROVE  /\ activities' \in [Aids -> Activity]
           /\ \A a \in ArmSlots(n) :
                 /\ activities'[a].is_child /\ ~activities'[a].reported
                 /\ ~activities'[a].dead /\ activities'[a].join_ref = JoinSlot
                 /\ activities'[a].tie >= TieHalf
           /\ \A a \in Aids \ ArmSlots(n) :
                 /\ activities'[a].is_child = activities[a].is_child
                 /\ activities'[a].join_ref = activities[a].join_ref
                 /\ activities'[a].tie      = activities[a].tie
                 /\ activities'[a].reported = activities[a].reported
                 /\ activities'[a].dead     = activities[a].dead
<1> DEFINE A == ArmSlots(n)
           J == JoinSlot
           parks == ~Continues(mode, n)
           arm == [a \in A |-> LET i == CHOOSE j \in 1 .. n : ArmSlot(j) = a
                               IN  NewArm(J, activities[p].tie, i)]
<1> n \in Nat
  BY ForkJoinAssumption
<1>1. activities' = [a \in Aids |->
          IF a \in A THEN arm[a]
          ELSE IF a = p /\ parks THEN [activities[a] EXCEPT !.busy = TRUE]
          ELSE activities[a]]
  BY DEF Fork
<1>2. \A a \in Aids : activities[a] \in Activity
  BY DEF IInv, TypeOK
<1>3. J \in 0 .. MaxBarriers
  <2>1. J \in Int /\ J >= 0
    BY ForkJoinAssumption DEF IInv, TypeOK, JoinSlot, Bars
  <2>2. J <= MaxBarriers
    BY DEF Fork, Fits
  <2> QED BY <2>1, <2>2, ForkJoinAssumption
<1>4. \A a \in A : a \in Aids
  BY ForkedSlots
<1>5. ASSUME NEW i \in 1 .. n
      PROVE  NewArm(J, activities[p].tie, i) \in Activity
             /\ compose_child_tie(activities[p].tie, i - 1) >= TieHalf
  <2>1. i - 1 \in Nat /\ activities[p].tie \in Nat
    BY <1>2 DEF Activity
  <2>2. /\ compose_child_tie(activities[p].tie, i - 1) \in Nat
        /\ compose_child_tie(activities[p].tie, i - 1) >= TieHalf
    BY <2>1, ArmTie
  <2>3. ArmSlot(i) \in Aids
    BY <1>4 DEF ArmSlots
  <2>4. NextGen(ArmSlot(i)) \in Nat
    BY <1>2, <2>3 DEF NextGen, Activity
  <2> HIDE DEF J
  <2>5. NewArm(J, activities[p].tie, i) \in Activity
    BY <1>3, <2>2, <2>4 DEF NewArm, Activity
  <2> QED BY <2>2, <2>5
<1>6. ASSUME NEW a \in A
      PROVE  \E i \in 1 .. n : activities'[a] = NewArm(J, activities[p].tie, i)
  <2> DEFINE i == CHOOSE j \in 1 .. n : ArmSlot(j) = a
  <2>1. i \in 1 .. n
    BY DEF ArmSlots
  <2>2. activities'[a] = NewArm(J, activities[p].tie, i)
    BY <1>1, <1>4
  <2> QED BY <2>1, <2>2
<1>7. ASSUME NEW a \in A
      PROVE  /\ activities'[a] \in Activity
             /\ activities'[a].is_child /\ ~activities'[a].reported
             /\ ~activities'[a].dead /\ activities'[a].join_ref = J
             /\ activities'[a].tie >= TieHalf
  <2>1. PICK i \in 1 .. n : activities'[a] = NewArm(J, activities[p].tie, i)
    BY <1>6
  <2> HIDE DEF J
  <2>2. /\ activities'[a].is_child = TRUE /\ activities'[a].reported = FALSE
        /\ activities'[a].dead = FALSE /\ activities'[a].join_ref = J
        /\ activities'[a].tie = compose_child_tie(activities[p].tie, i - 1)
    BY <2>1 DEF NewArm
  <2> QED BY <1>5, <2>1, <2>2
<1> HIDE DEF A, J, parks, arm
<1>8. \A a \in Aids \ A : \/ activities'[a] = activities[a]
                          \/ activities'[a] = [activities[a] EXCEPT !.busy = TRUE]
  BY <1>1
<1>9. \A a \in Aids \ A :
          /\ activities'[a] \in Activity
          /\ activities'[a].is_child = activities[a].is_child
          /\ activities'[a].join_ref = activities[a].join_ref
          /\ activities'[a].tie      = activities[a].tie
          /\ activities'[a].reported = activities[a].reported
          /\ activities'[a].dead     = activities[a].dead
  <2> SUFFICES ASSUME NEW a \in Aids \ A
               PROVE  /\ activities'[a] \in Activity
                      /\ activities'[a].is_child = activities[a].is_child
                      /\ activities'[a].join_ref = activities[a].join_ref
                      /\ activities'[a].tie      = activities[a].tie
                      /\ activities'[a].reported = activities[a].reported
                      /\ activities'[a].dead     = activities[a].dead
    OBVIOUS
  <2>1. activities[a] \in Activity
    BY <1>2
  <2>2. CASE activities'[a] = activities[a]
    BY <2>1, <2>2
  <2>3. CASE activities'[a] = [activities[a] EXCEPT !.busy = TRUE]
    BY <2>1, <2>3 DEF Activity
  <2> QED BY <1>8, <2>2, <2>3
<1>10. activities' \in [Aids -> Activity]
  BY <1>1, <1>7, <1>9
<1> QED BY <1>7, <1>9, <1>10 DEF A, J

\* A fork keeps the invariant: its arms are exactly what its barrier counts, and
\* the slots it took are on the free list no more.
LEMMA ForkStep ==
    ASSUME IInv, NEW p \in Aids, NEW mode \in JoinMode, NEW n \in 0 .. MaxArms,
           Fork(p, mode, n)
    PROVE  IInv'
<1> DEFINE A == ArmSlots(n)
<1>0. PICK J : J = JoinSlot
  OBVIOUS
<1> n \in Nat
  BY ForkJoinAssumption
<1>1. /\ MaxActs \in Nat /\ NProc \in Nat /\ acts \in NProc .. MaxActs
      /\ bars \in Nat /\ 1 .. bars \subseteq Bars /\ MaxBarriers \in Nat
  BY ForkJoinAssumption DEF IInv, TypeOK, Bars
<1>2. /\ p \in BaseAids /\ p \notin A
      /\ acts' \in acts .. MaxActs
      /\ \A a : a \in A => a \in Aids /\ a \in NProc + 1 .. acts'
      /\ \A a : a \in 1 .. acts' => a \in 1 .. acts \/ a \in A
      /\ \A a \in A : a \in 1 .. acts => a \in Listed(free_activities)
      /\ free_activities' \in Seq(Aids) /\ Distinct(free_activities')
      /\ Listed(free_activities') = Listed(free_activities) \ A
  BY ForkedSlots
<1>3. /\ activities' \in [Aids -> Activity]
      /\ \A a \in A :
            /\ activities'[a].is_child /\ ~activities'[a].reported
            /\ ~activities'[a].dead /\ activities'[a].join_ref = J
            /\ activities'[a].tie >= TieHalf
      /\ \A a \in Aids \ A :
            /\ activities'[a].is_child = activities[a].is_child
            /\ activities'[a].join_ref = activities[a].join_ref
            /\ activities'[a].tie      = activities[a].tie
            /\ activities'[a].reported = activities[a].reported
            /\ activities'[a].dead     = activities[a].dead
  BY <1>0, ForkedArms
<1>4. p \in 1 .. acts /\ p # 0 /\ cur_aid = p /\ ~finished
  BY <1>2, BaseIsNoArm DEF Fork, Running
<1>5. Continues(mode, n) \in BOOLEAN
  BY DEF Continues
<1>6. TakesBarrier(J, p, mode, n, Continues(mode, n))
  <2>1. JoinSlot <= MaxBarriers /\ RegisterBarrier(p, mode, n, Continues(mode, n))
    BY DEF Fork, Fits
  <2>2. TakesBarrier(JoinSlot, p, mode, n, Continues(mode, n))
    BY <1>4, <1>5, <2>1, BarrierTaken
  <2> QED BY <1>0, <2>2
<1>7. /\ ready' = [a \in Aids |-> IF a \in A THEN ready[a] + 1 ELSE ready[a]]
      /\ cur_aid' = 0 \/ cur_aid' = p
      /\ UNCHANGED <<armed, deferred, finished>>
  BY DEF Fork
<1>8. /\ barriers'[J] = [parent |-> p, mode |-> mode,
                         outstanding |-> n, fired |-> Continues(mode, n)]
      /\ \A b \in Bars : b # J => barriers'[b] = barriers[b]
  BY <1>6 DEF IInv, TypeOK, TakesBarrier
<1>9. IsFiniteSet(A) /\ Cardinality(A) = n
  BY ArmSlotsCount DEF IInv, RecycledIsGone
<1> HIDE DEF A
<1>10. \A a \in A : /\ a \notin Arms \/ activities[a].reported
                    /\ ready[a] = 0 /\ armed[a] = 0 /\ a # p /\ a # 0
  <2> SUFFICES ASSUME NEW a \in A
               PROVE  /\ a \notin Arms \/ activities[a].reported
                      /\ ready[a] = 0 /\ armed[a] = 0 /\ a # p /\ a # 0
    OBVIOUS
  <2>1. a \in Aids /\ a \in 1 .. MaxActs /\ a # p
    BY <1>2 DEF Aids
  <2>2. CASE a \in 1 .. acts
    BY <1>2, <2>1, <2>2 DEF IInv, RecycledIsGone
  <2>3. CASE a \notin 1 .. acts
    BY <1>1, <2>1, <2>3 DEF IInv, Unallocated, Arms
  <2> QED BY <2>2, <2>3
<1>11. \A a \in Aids \ A : a \in 1 .. acts' <=> a \in 1 .. acts
  BY <1>1, <1>2
<1>12. \A a \in Aids \ A : a \in Arms' <=> a \in Arms
  BY <1>1, <1>2 DEF Arms
<1>13. Unreported(J)' = A
  <2>1. ASSUME NEW a \in A PROVE a \in Unreported(J)'
    BY <1>1, <1>2, <1>3 DEF Unreported
  <2>2. ASSUME NEW a \in Unreported(J)' PROVE a \in A
    <3>1. a \in 1 .. acts' /\ activities'[a].is_child /\ ~activities'[a].reported
          /\ activities'[a].join_ref = J
      BY DEF Unreported
    <3>2. a \in Aids
      BY <1>1, <1>2, <3>1 DEF Aids
    <3> QED BY <1>2, <1>3, <1>6, <3>1, <3>2 DEF TakesBarrier
  <2> QED BY <2>1, <2>2
<1>14. \A b \in 1 .. bars : b # J => Unreported(b)' = Unreported(b)
  <2> SUFFICES ASSUME NEW b \in 1 .. bars, b # J, NEW a
               PROVE  a \in Unreported(b)' <=> a \in Unreported(b)
    OBVIOUS
  <2>1. CASE a \in A
    <3>1. a \notin Unreported(b)'
      BY <1>3, <2>1 DEF Unreported
    <3>2. a \notin Unreported(b)
      BY <1>2, <2>1 DEF Unreported, IInv, RecycledIsGone
    <3> QED BY <3>1, <3>2
  <2>2. CASE a \in Aids \ A
    BY <1>3, <1>11, <2>2 DEF Unreported
  <2>3. CASE a \notin Aids
    BY <1>1, <1>2, <2>3 DEF Unreported, Aids
  <2> QED BY <2>1, <2>2, <2>3
<1>15. TypeOK'
  <2>1. bars' \in 0 .. MaxBarriers /\ acts' \in NProc .. MaxActs
    BY <1>1, <1>2, <1>6 DEF TakesBarrier
  <2>2. cur_aid' \in 0 .. acts'
    BY <1>1, <1>2, <1>4, <1>7
  <2>3. ready' \in [Aids -> Nat]
    BY <1>7 DEF IInv, TypeOK
  <2> QED BY <1>2, <1>3, <1>6, <1>7, <2>1, <2>2, <2>3 DEF IInv, TypeOK, TakesBarrier
<1>16. SlotKinds'
  <2> SUFFICES ASSUME NEW a \in Aids
               PROVE  IF a \in Arms'
                      THEN /\ activities'[a].is_child
                           /\ activities'[a].join_ref \in 1 .. bars'
                           /\ activities'[a].tie >= TieHalf
                      ELSE /\ ~activities'[a].is_child
                           /\ ~activities'[a].reported
                           /\ ~activities'[a].dead
    BY DEF SlotKinds
  <2>1. CASE a \in A
    BY <1>2, <1>3, <1>6, <2>1 DEF Arms, TakesBarrier
  <2>2. CASE a \notin A
    BY <1>3, <1>6, <1>12, <2>2 DEF IInv, SlotKinds, TakesBarrier
  <2> QED BY <2>1, <2>2
<1>17. Unallocated'
  <2> SUFFICES ASSUME NEW a \in Aids, a > acts'
               PROVE  ready'[a] = 0 /\ armed'[a] = 0
    BY DEF Unallocated
  <2>1. a > acts /\ a \notin A
    BY <1>1, <1>2 DEF Aids
  <2> QED BY <1>7, <2>1 DEF IInv, Unallocated
<1>18. BarrierParents'
  <2> SUFFICES ASSUME NEW b \in 1 .. bars'
               PROVE  /\ barriers'[b].parent \in 1 .. acts'
                      /\ barriers'[b].parent \in BaseAids
                      /\ barriers'[b].mode = "None" => barriers'[b].fired
    BY DEF BarrierParents
  <2>1. CASE b = J
    <3>1. barriers'[b].parent = p /\ barriers'[b].mode = mode
          /\ barriers'[b].fired = Continues(mode, n)
      BY <1>8, <2>1
    <3>2. mode = "None" => Continues(mode, n)
      BY DEF Continues
    <3>3. p \in 1 .. acts'
      BY <1>1, <1>2, <1>4
    <3> QED BY <1>2, <3>1, <3>2, <3>3
  <2>2. CASE b # J
    <3>1. b \in 1 .. bars /\ barriers'[b] = barriers[b]
      BY <1>1, <1>6, <1>8, <2>2 DEF TakesBarrier
    <3> QED BY <1>1, <1>2, <1>4, <3>1 DEF IInv, BarrierParents
  <2> QED BY <2>1, <2>2
<1>19. ListsAllocated'
  <2>1. Listed(free_activities)' = Listed(free_activities')
        /\ Listed(free_barriers)' = Listed(free_barriers')
    BY DEF Listed
  <2>2. Listed(free_activities') \subseteq 1 .. acts'
    BY <1>1, <1>2 DEF IInv, ListsAllocated
  <2>3. Listed(free_barriers') \subseteq 1 .. bars'
    BY <1>6 DEF IInv, ListsAllocated, TakesBarrier
  <2> QED BY <2>1, <2>2, <2>3 DEF ListsAllocated
<1>20. OneThread'
  <2> SUFFICES ASSUME NEW a \in Arms'
               PROVE  ready'[a] + armed'[a] + (IF cur_aid' = a THEN 1 ELSE 0) <= 1
    BY DEF OneThread
  <2>1. a \in Aids /\ a # 0
    BY <1>1, <1>2 DEF Arms, Aids
  <2>2. CASE a \in A
    BY <1>7, <1>10, <2>1, <2>2
  <2>3. CASE a \notin A
    <3>1. a \in Arms /\ ready'[a] = ready[a] /\ armed'[a] = armed[a]
      BY <1>7, <1>12, <2>1, <2>3
    <3>2. ready[a] \in Nat /\ armed[a] \in Nat
      BY <2>1 DEF IInv, TypeOK
    <3>3. cur_aid' = a => cur_aid = a
      BY <1>4, <1>7, <2>1
    <3>4. ready[a] + armed[a] + (IF cur_aid = a THEN 1 ELSE 0) <= 1
      BY <3>1 DEF IInv, OneThread
    <3> QED BY <3>1, <3>2, <3>3, <3>4
  <2> QED BY <2>2, <2>3
<1>21. RunningIsAlive'
  <2>1. p \in Aids \ A
    BY <1>2
  <2> QED BY <1>3, <1>4, <1>7, <2>1 DEF IInv, RunningIsAlive
<1>22. RecycledIsGone'
  <2>1. /\ Listed(free_activities)' = Listed(free_activities) \ A
        /\ Listed(free_barriers)' = Listed(free_barriers) \ {J}
        /\ Distinct(free_activities)' /\ Distinct(free_barriers)'
    BY <1>2, <1>6 DEF Listed, Distinct, TakesBarrier
  <2>2. \A a \in Listed(free_activities) : a \in Aids /\ a \in 1 .. acts /\ a # 0 /\ a # p
    BY <1>1, <1>2, BaseIsNoArm DEF IInv, ListsAllocated, Aids
  <2>3. ASSUME NEW a \in 1 .. acts'
        PROVE  a \in Listed(free_activities)' <=> activities'[a].reported
    <3>1. CASE a \in A
      BY <1>3, <2>1, <3>1
    <3>2. CASE a \notin A
      <4>1. a \in 1 .. acts /\ a \in Aids
        BY <1>1, <1>2, <3>2 DEF Aids
      <4> QED BY <1>3, <2>1, <3>2, <4>1 DEF IInv, RecycledIsGone
    <3> QED BY <3>1, <3>2
  <2>4. ASSUME NEW a \in Listed(free_activities)'
        PROVE  ready'[a] = 0 /\ armed'[a] = 0 /\ cur_aid' # a /\ ~activities'[a].dead
    BY <1>3, <1>7, <2>1, <2>2 DEF IInv, RecycledIsGone
  <2>5. ASSUME NEW b \in Listed(free_barriers)'
        PROVE  Unreported(b)' = {} /\ barriers'[b].fired
    <3>1. b \in 1 .. bars /\ b \in Bars /\ b # J /\ b \in Listed(free_barriers)
      BY <1>1, <2>1 DEF IInv, ListsAllocated
    <3> QED BY <1>8, <1>14, <3>1 DEF IInv, RecycledIsGone
  <2> QED BY <2>1, <2>3, <2>4, <2>5 DEF RecycledIsGone
<1>23. BarrierCount'
  <2> SUFFICES ASSUME NEW b \in 1 .. bars'
               PROVE  barriers'[b].outstanding = Cardinality(Unreported(b)')
    BY DEF BarrierCount
  <2>1. CASE b = J
    BY <1>8, <1>9, <1>13, <2>1
  <2>2. CASE b # J
    <3>1. b \in 1 .. bars /\ b \in Bars
      BY <1>1, <1>6, <2>2 DEF TakesBarrier
    <3> QED BY <1>4, <1>8, <1>14, <2>2, <3>1 DEF IInv, BarrierCount
  <2> QED BY <2>1, <2>2
<1> QED BY <1>15, <1>16, <1>17, <1>18, <1>19, <1>20, <1>21, <1>22, <1>23 DEF IInv

-----------------------------------------------------------------------------
(* An arm completes.                                                       *)

\* The completing arm c is one the barrier b counts, and its parent p is a
\* top-level process.
LEMMA CompletingArm ==
    ASSUME IInv, NEW c \in Aids, Complete(c)
    PROVE  /\ c \in Arms /\ c \in 1 .. acts /\ cur_aid = c /\ c # 0 /\ ~finished
           /\ ready[c] = 0 /\ armed[c] = 0
           /\ ~activities[c].dead /\ ~activities[c].reported
           /\ activities[c].join_ref \in 1 .. bars
           /\ barriers[activities[c].join_ref].parent \in BaseAids
           /\ c \in Unreported(activities[c].join_ref)
<1>1. cur_aid = c /\ c # 0 /\ ~finished /\ activities[c].is_child
  BY DEF Complete, Running
<1>2. c \in 1 .. acts /\ c \in Arms
  BY <1>1, ActiveIsUnreported, ChildIsArm
<1>3. ~activities[c].dead /\ ~activities[c].reported
  BY <1>1 DEF IInv, RunningIsAlive
<1>4. activities[c].join_ref \in 1 .. bars
  BY <1>2 DEF IInv, SlotKinds
<1>5. barriers[activities[c].join_ref].parent \in BaseAids
  BY <1>1, <1>4 DEF IInv, BarrierParents
<1>6. ready[c] = 0 /\ armed[c] = 0
  <2>1. ready[c] \in Nat /\ armed[c] \in Nat
    BY DEF IInv, TypeOK
  <2>2. ready[c] + armed[c] + 1 <= 1
    BY <1>1, <1>2 DEF IInv, OneThread
  <2> QED BY <2>1, <2>2
<1>7. c \in Unreported(activities[c].join_ref)
  BY <1>1, <1>2, <1>3 DEF Unreported
<1> QED BY <1>1, <1>2, <1>3, <1>4, <1>5, <1>6, <1>7

\* The arms a barrier counts are finitely many.
LEMMA UnreportedFinite ==
    ASSUME TypeOK, NEW b
    PROVE  IsFiniteSet(Unreported(b))
<1>1. IsFiniteSet(1 .. acts)
  BY FS_Interval, ForkJoinAssumption DEF TypeOK
<1>2. Unreported(b) \in SUBSET (1 .. acts)
  BY DEF Unreported
<1> QED BY <1>1, <1>2, FS_Subset

\* A completing arm lowers its barrier by the one arm that leaves Unreported, and
\* both slots enter their free lists only when nothing names them.
LEMMA CompleteStep ==
    ASSUME IInv, NEW c \in Aids, Complete(c)
    PROVE  IInv'
<1>0. PICK b : b = activities[c].join_ref
  OBVIOUS
<1>1. PICK p : p = barriers[b].parent
  OBVIOUS
<1>2. PICK left : left = barriers[b].outstanding - 1
  OBVIOUS
<1>3. PICK wf : wf = activities[p].wait_fork
  OBVIOUS
<1>4. /\ c \in Arms /\ c \in 1 .. acts /\ cur_aid = c /\ c # 0 /\ ~finished
      /\ ready[c] = 0 /\ armed[c] = 0
      /\ ~activities[c].dead /\ ~activities[c].reported
      /\ b \in 1 .. bars /\ p \in BaseAids /\ c \in Unreported(b)
  BY <1>0, <1>1, CompletingArm
<1>5. p \in Aids /\ p \in 1 .. acts /\ p # c /\ p \notin Arms /\ p \notin Listed(free_activities)
  BY <1>4, BaseIsNoArm
<1>6. /\ bars \in Nat /\ 1 .. bars \subseteq Bars
      /\ acts \in Nat /\ 1 .. acts \subseteq Aids
  BY ForkJoinAssumption DEF IInv, TypeOK, Bars, Aids
<1>7. /\ activities' = [activities EXCEPT ![c].reported = TRUE, ![c].busy = FALSE,
                                          ![p].wait_fork = WaitForkLeft(wf)]
      /\ barriers' = [barriers EXCEPT ![b].outstanding = left,
                                      ![b].fired = @ \/ Fires(b, left)]
      /\ free_barriers' = IF Drains(b, left) THEN Append(free_barriers, b)
                                             ELSE free_barriers
      /\ ready' = [ready EXCEPT ![p] = @ + (IF Fires(b, left) THEN 1 ELSE 0)
                                         + (IF wf = 1 THEN 1 ELSE 0)]
      /\ free_activities' = Append(free_activities, c)
      /\ cur_aid' = 0
      /\ UNCHANGED <<acts, bars, armed, deferred, finished>>
  BY <1>0, <1>1, <1>2, <1>3 DEF Complete
<1>8. /\ left \in Nat
      /\ left = Cardinality(Unreported(b) \ {c})
      /\ left = 0 => Unreported(b) \ {c} = {}
  <2>1. barriers[b].outstanding = Cardinality(Unreported(b))
    BY <1>4 DEF IInv, BarrierCount
  <2>2. IsFiniteSet(Unreported(b))
    BY UnreportedFinite DEF IInv
  <2>3. IsFiniteSet(Unreported(b) \ {c})
        /\ Cardinality(Unreported(b) \ {c}) = Cardinality(Unreported(b)) - 1
    BY <1>4, <2>2, FS_RemoveElement
  <2>4. Cardinality(Unreported(b) \ {c}) \in Nat
    BY <2>3, FS_CardinalityType
  <2> QED BY <1>2, <2>1, <2>3, <2>4, FS_EmptySet
<1>9. WaitForkLeft(wf) \in Nat
  BY <1>3, <1>5 DEF WaitForkLeft, IInv, TypeOK, Activity
<1>10. Fires(b, left) \in BOOLEAN /\ Drains(b, left) = (left = 0)
  BY DEF Fires, Drains
<1>11. \A a \in Aids : activities[a] \in Activity
  BY DEF IInv, TypeOK
<1>12. /\ activities' \in [Aids -> Activity]
       /\ \A a \in Aids :
             /\ activities'[a].is_child = activities[a].is_child
             /\ activities'[a].join_ref = activities[a].join_ref
             /\ activities'[a].tie      = activities[a].tie
             /\ activities'[a].dead     = activities[a].dead
             /\ a # c => activities'[a].reported = activities[a].reported
       /\ activities'[c].reported
  <2>1. \A a \in Aids : activities'[a] =
            IF a = c THEN [activities[a] EXCEPT !.reported = TRUE, !.busy = FALSE]
            ELSE IF a = p THEN [activities[a] EXCEPT !.wait_fork = WaitForkLeft(wf)]
            ELSE activities[a]
    BY <1>5, <1>7 DEF IInv, TypeOK
  <2>2. activities' = [a \in Aids |-> activities'[a]]
    BY <1>7 DEF IInv, TypeOK
  <2>3. ASSUME NEW a \in Aids PROVE activities'[a] \in Activity
    <3>1. CASE a = c
      <4>1. activities'[a] = [activities[a] EXCEPT !.reported = TRUE, !.busy = FALSE]
        BY <2>1, <3>1
      <4> QED BY <1>11, <4>1 DEF Activity
    <3>2. CASE a # c /\ a = p
      <4>1. activities'[a] = [activities[a] EXCEPT !.wait_fork = WaitForkLeft(wf)]
        BY <2>1, <3>2
      <4> QED BY <1>9, <1>11, <4>1 DEF Activity
    <3>3. CASE a # c /\ a # p
      BY <1>11, <2>1, <3>3
    <3> QED BY <3>1, <3>2, <3>3
  <2>4. activities' \in [Aids -> Activity]
    BY <2>2, <2>3
  <2>5. activities'[c].reported
    BY <1>11, <2>1 DEF Activity
  <2>6. ASSUME NEW a \in Aids
        PROVE  /\ activities'[a].is_child = activities[a].is_child
               /\ activities'[a].join_ref = activities[a].join_ref
               /\ activities'[a].tie      = activities[a].tie
               /\ activities'[a].dead     = activities[a].dead
               /\ a # c => activities'[a].reported = activities[a].reported
    <3>1. activities[a] \in Activity
      BY <1>11
    <3>2. CASE a = c
      BY <2>1, <3>1, <3>2 DEF Activity
    <3>3. CASE a # c
      BY <2>1, <3>1, <3>3 DEF Activity
    <3> QED BY <3>2, <3>3
  <2> QED BY <2>4, <2>5, <2>6
<1>13. /\ barriers' \in [Bars -> Barrier]
       /\ \A d \in Bars : /\ barriers'[d].parent = barriers[d].parent
                          /\ barriers'[d].mode = barriers[d].mode
                          /\ barriers[d].fired => barriers'[d].fired
                          /\ d # b => barriers'[d] = barriers[d]
       /\ barriers'[b].outstanding = left
       /\ barriers'[b].fired = (barriers[b].fired \/ Fires(b, left))
  <2>1. \A d \in Bars : barriers[d] \in Barrier
    BY DEF IInv, TypeOK
  <2>2. \A d \in Bars : barriers'[d] =
            IF d = b THEN [barriers[d] EXCEPT !.outstanding = left,
                                              !.fired = @ \/ Fires(b, left)]
            ELSE barriers[d]
    BY <1>4, <1>6, <1>7 DEF IInv, TypeOK
  <2>3. barriers' = [d \in Bars |-> barriers'[d]]
    BY <1>7 DEF IInv, TypeOK
  <2>4. \A d \in Bars : barriers'[d] \in Barrier
    BY <1>8, <1>10, <2>1, <2>2 DEF Barrier
  <2> QED BY <1>4, <1>6, <2>1, <2>2, <2>3, <2>4 DEF Barrier
<1>14. left = 0 => barriers'[b].fired
  <2>1. barriers[b].mode \in JoinMode /\ (barriers[b].mode = "None" => barriers[b].fired)
    BY <1>4, <1>6 DEF IInv, TypeOK, Barrier, BarrierParents
  <2> QED BY <1>13, <2>1 DEF JoinMode, Fires
<1>15. Unreported(b)' = Unreported(b) \ {c} /\ \A d : d # b => Unreported(d)' = Unreported(d)
  <2>1. \A a \in 1 .. acts : a \in Aids
    BY <1>6
  <2>2. acts' = acts /\ c \in 1 .. acts /\ c \in Aids
    BY <1>4, <1>7
  <2>3. \A a, d : a \in Unreported(d)' <=> a \in Unreported(d) /\ a # c
    BY <1>12, <2>1, <2>2 DEF Unreported
  <2>4. \A d : d # b => c \notin Unreported(d)
    BY <1>0 DEF Unreported
  <2> QED BY <2>3, <2>4
<1>16. /\ free_activities' \in Seq(Aids) /\ Distinct(free_activities')
       /\ Listed(free_activities') = Listed(free_activities) \cup {c}
  <2>1. c \notin Listed(free_activities)
    BY <1>4 DEF IInv, RecycledIsGone
  <2> QED BY <1>7, <2>1, PushedList DEF IInv, TypeOK, RecycledIsGone
<1>17. /\ free_barriers' \in Seq(Bars) /\ Distinct(free_barriers')
       /\ left = 0 => Listed(free_barriers') = Listed(free_barriers) \cup {b}
       /\ left # 0 => Listed(free_barriers') = Listed(free_barriers)
       /\ b \notin Listed(free_barriers)
  <2>1. b \notin Listed(free_barriers) /\ b \in Bars
    BY <1>4, <1>6 DEF IInv, RecycledIsGone
  <2>2. CASE left = 0
    <3>1. free_barriers' = Append(free_barriers, b)
      BY <1>7, <1>10, <2>2
    <3>2. free_barriers \in Seq(Bars) /\ Distinct(free_barriers)
      BY DEF IInv, TypeOK, RecycledIsGone
    <3> QED BY <2>1, <2>2, <3>1, <3>2, PushedList
  <2>3. CASE left # 0
    <3>1. free_barriers' = free_barriers
      BY <1>7, <1>10, <2>3
    <3> QED BY <2>1, <2>3, <3>1 DEF IInv, TypeOK, RecycledIsGone
  <2> QED BY <2>1, <2>2, <2>3
<1>18. ready' \in [Aids -> Nat] /\ \A a \in Aids : a # p => ready'[a] = ready[a]
  BY <1>5, <1>7 DEF IInv, TypeOK
<1>19. TypeOK'
  <2>1. cur_aid' \in 0 .. acts'
    BY <1>6, <1>7
  <2> QED BY <1>7, <1>12, <1>13, <1>16, <1>17, <1>18, <2>1 DEF IInv, TypeOK
<1>20. SlotKinds'
  <2> SUFFICES ASSUME NEW a \in Aids
               PROVE  IF a \in Arms
                      THEN /\ activities'[a].is_child
                           /\ activities'[a].join_ref \in 1 .. bars
                           /\ activities'[a].tie >= TieHalf
                      ELSE /\ ~activities'[a].is_child
                           /\ ~activities'[a].reported
                           /\ ~activities'[a].dead
    BY <1>7 DEF SlotKinds, Arms
  <2>1. CASE a \in Arms
    BY <1>12, <2>1 DEF IInv, SlotKinds
  <2>2. CASE a \notin Arms
    BY <1>4, <1>12, <2>2 DEF IInv, SlotKinds
  <2> QED BY <2>1, <2>2
<1>21. Unallocated'
  BY <1>5, <1>6, <1>7, <1>18 DEF IInv, Unallocated
<1>22. BarrierParents'
  BY <1>4, <1>6, <1>7, <1>13 DEF IInv, BarrierParents
<1>23. ListsAllocated'
  <2>1. Listed(free_activities)' = Listed(free_activities')
        /\ Listed(free_barriers)' = Listed(free_barriers')
    BY DEF Listed
  <2> QED BY <1>4, <1>7, <1>16, <1>17, <2>1 DEF IInv, ListsAllocated
<1>24. OneThread'
  <2> SUFFICES ASSUME NEW a \in Arms
               PROVE  ready'[a] + armed'[a] + (IF cur_aid' = a THEN 1 ELSE 0) <= 1
    BY <1>7 DEF OneThread, Arms
  <2>1. a \in Aids /\ a # 0 /\ a # p
    BY <1>5, <1>6, ForkJoinAssumption DEF Arms, Aids
  <2>2. ready[a] \in Nat /\ armed[a] \in Nat
    BY <2>1 DEF IInv, TypeOK
  <2>3. ready[a] + armed[a] + (IF cur_aid = a THEN 1 ELSE 0) <= 1
    BY DEF IInv, OneThread
  <2>4. ready'[a] = ready[a] /\ armed'[a] = armed[a] /\ cur_aid' # a
    BY <1>7, <1>18, <2>1
  <2> QED BY <2>2, <2>3, <2>4
<1>25. RunningIsAlive'
  BY <1>7 DEF RunningIsAlive
<1>26. RecycledIsGone'
  <2>1. /\ Listed(free_activities)' = Listed(free_activities) \cup {c}
        /\ left = 0 => Listed(free_barriers)' = Listed(free_barriers) \cup {b}
        /\ left # 0 => Listed(free_barriers)' = Listed(free_barriers)
        /\ Distinct(free_activities)' /\ Distinct(free_barriers)'
    BY <1>16, <1>17 DEF Listed, Distinct
  <2>2. \A a \in Listed(free_activities) : a \in Aids /\ a \in 1 .. acts /\ a # 0 /\ a # p
    BY <1>5, <1>6, ForkJoinAssumption DEF IInv, ListsAllocated, Aids
  <2>3. ASSUME NEW a \in 1 .. acts
        PROVE  a \in Listed(free_activities)' <=> activities'[a].reported
    BY <1>6, <1>12, <2>1 DEF IInv, RecycledIsGone
  <2>4. ASSUME NEW a \in Listed(free_activities)'
        PROVE  ready'[a] = 0 /\ armed'[a] = 0 /\ cur_aid' # a /\ ~activities'[a].dead
    <3>1. CASE a = c
      BY <1>4, <1>5, <1>7, <1>12, <1>18, <3>1
    <3>2. CASE a # c
      BY <1>7, <1>12, <1>18, <2>1, <2>2, <3>2 DEF IInv, RecycledIsGone
    <3> QED BY <3>1, <3>2
  <2>5. ASSUME NEW d \in Listed(free_barriers)'
        PROVE  Unreported(d)' = {} /\ barriers'[d].fired
    <3>1. CASE d = b
      BY <1>8, <1>14, <1>15, <1>17, <2>1, <3>1
    <3>2. CASE d # b
      <4>1. d \in Listed(free_barriers) /\ d \in Bars
        BY <1>6, <2>1, <3>2 DEF IInv, ListsAllocated
      <4> QED BY <1>13, <1>15, <3>2, <4>1 DEF IInv, RecycledIsGone
    <3> QED BY <3>1, <3>2
  <2>6. acts' = acts
    BY <1>7
  <2> QED BY <2>1, <2>3, <2>4, <2>5, <2>6 DEF RecycledIsGone
<1>27. BarrierCount'
  <2> SUFFICES ASSUME NEW d \in 1 .. bars
               PROVE  barriers'[d].outstanding = Cardinality(Unreported(d)')
    BY <1>7 DEF BarrierCount
  <2>1. CASE d = b
    BY <1>8, <1>13, <1>15, <2>1
  <2>2. CASE d # b
    BY <1>4, <1>6, <1>13, <1>15, <2>2 DEF IInv, BarrierCount
  <2> QED BY <2>1, <2>2
<1> QED BY <1>19, <1>20, <1>21, <1>22, <1>23, <1>24, <1>25, <1>26, <1>27 DEF IInv

-----------------------------------------------------------------------------
(* The theorems.                                                           *)

\* The elaborated arena: top-level processes only, and empty lists.
LEMMA InitInv == Init => IInv
<1> SUFFICES ASSUME Init PROVE IInv
  OBVIOUS
<1> USE DEF Init
<1>1. /\ MaxActs \in Nat /\ NProc \in Nat \ {0} /\ NProc <= MaxActs
      /\ MaxBarriers \in Nat
  BY ForkJoinAssumption
<1>2. activities \in [Aids -> Activity]
  <2>1. \A a \in Aids : BaseActivity(a - 1) \in Activity
    BY <1>1 DEF BaseActivity, Activity, Aids
  <2> QED BY <2>1
<1>3. barriers \in [Bars -> Barrier]
  BY <1>1 DEF Barrier, JoinMode
<1>4. Listed(free_activities) = {} /\ Listed(free_barriers) = {}
      /\ Distinct(free_activities) /\ Distinct(free_barriers)
  BY DEF Listed, Distinct
<1>5. \A a \in Aids : /\ ~activities[a].is_child /\ ~activities[a].reported
                      /\ ~activities[a].dead
  BY DEF BaseActivity
<1>6. Arms = {}
  BY <1>1 DEF Arms
<1>7. 1 .. acts \subseteq Aids
  BY <1>1 DEF Aids
<1>8. TypeOK
  <2>1. acts \in NProc .. MaxActs /\ bars \in 0 .. MaxBarriers /\ cur_aid \in 0 .. acts
    BY <1>1
  <2>2. free_activities \in Seq(Aids) /\ free_barriers \in Seq(Bars)
    OBVIOUS
  <2>3. ready \in [Aids -> Nat] /\ armed \in [Aids -> Nat]
    OBVIOUS
  <2>4. deferred \subseteq Aids \X Nat /\ finished \in BOOLEAN
    OBVIOUS
  <2> QED BY <1>2, <1>3, <2>1, <2>2, <2>3, <2>4 DEF TypeOK
<1>9. SlotKinds /\ Unallocated /\ OneThread /\ RunningIsAlive
  BY <1>5, <1>6 DEF SlotKinds, Unallocated, OneThread, RunningIsAlive
<1>10. BarrierParents /\ BarrierCount
  BY DEF BarrierParents, BarrierCount
<1>11. ListsAllocated /\ RecycledIsGone
  BY <1>4, <1>5, <1>7 DEF ListsAllocated, RecycledIsGone
<1> QED BY <1>8, <1>9, <1>10, <1>11 DEF IInv

\* Every step of the arena keeps the invariant, one case per action of Next.
LEMMA StepInv == IInv /\ [Next]_vars => IInv'
<1> SUFFICES ASSUME IInv, [Next]_vars PROVE IInv'
  OBVIOUS
<1>1. CASE UNCHANGED vars
  <2>1. /\ UNCHANGED <<activities, slots, joins, cur_aid, queues, finished>>
        /\ deferred' \subseteq Aids \X Nat
    BY <1>1 DEF vars, slots, joins, queues, IInv, TypeOK
  <2> QED BY <2>1, ReportStep
<1>2. CASE Ended
  BY <1>1, <1>2 DEF Ended
<1>3. ASSUME NEW p \in BaseAids, Trigger(p) PROVE IInv'
  BY <1>3, TriggerStep
<1>4. ASSUME NEW a \in Aids, Wake(a) PROVE IInv'
  BY <1>4, WakeStep
<1>5. ASSUME NEW a \in Aids, Dispatch(a) PROVE IInv'
  BY <1>5, DispatchStep
<1>6. CASE MatureDeferred
  BY <1>6, ReportStep DEF MatureDeferred
<1>7. ASSUME NEW a \in Aids, Suspend(a) PROVE IInv'
  BY <1>7, SuspendStep
<1>8. ASSUME NEW a \in Aids, Return(a) PROVE IInv'
  BY <1>8, ReturnStep
<1>9. ASSUME NEW a \in Aids, ForkSome(a) PROVE IInv'
  BY <1>9, ForkStep, ForkRefusedStep DEF ForkSome
<1>10. ASSUME NEW a \in Aids, WaitFork(a) PROVE IInv'
  BY <1>10, WaitForkStep
<1>11. ASSUME NEW a \in Aids, DisableFork(a) PROVE IInv'
  BY <1>11, DisableForkStep
<1>12. ASSUME NEW a \in Aids, Complete(a) PROVE IInv'
  BY <1>12, CompleteStep
<1>13. ASSUME NEW a \in Aids, Defer(a) PROVE IInv'
  <2>1. Key(a) \in Aids \X Nat
    BY DEF Key, IInv, TypeOK, Activity
  <2> QED BY <1>13, <2>1, ReportStep DEF Defer, IInv, TypeOK
<1>14. ASSUME NEW a \in Aids, DeferMarker(a) PROVE IInv'
  BY <1>14, ReportStep DEF DeferMarker, IInv, TypeOK
<1>15. ASSUME NEW a \in Aids, Finish(a) PROVE IInv'
  BY <1>15, FinishStep
<1> QED BY <1>1, <1>2, <1>3, <1>4, <1>5, <1>6, <1>7, <1>8, <1>9, <1>10, <1>11,
           <1>12, <1>13, <1>14, <1>15 DEF Next

\* IInv is an invariant of the arena, for any number of processes, arms and slots.
THEOREM InductiveInvariant == Spec => []IInv
<1>1. Init => IInv
  BY InitInv
<1>2. IInv /\ [Next]_vars => IInv'
  BY StepInv
<1> QED BY <1>1, <1>2, PTL DEF Spec

\* Every variable keeps its type, so no countdown and no queue goes below zero
\* (on_child_complete_into subtracts without a check).
THEOREM TypeCorrect == Spec => []TypeOK
<1>1. IInv => TypeOK
  BY DEF IInv
<1> QED BY <1>1, InductiveInvariant, PTL

\* The free lists of exec_fork_into and on_child_complete_into are sound: a slot
\* is listed once, nothing names it, and nobody will report to a listed barrier.
THEOREM FreeListsSound == Spec => []RecycledIsGone
<1>1. IInv => RecycledIsGone
  BY DEF IInv
<1> QED BY <1>1, InductiveInvariant, PTL

\* A join barrier's countdown is the number of arms that still have to report,
\* through every reuse of its slot and of theirs.
THEOREM CountdownExact == Spec => []BarrierCount
<1>1. IInv => BarrierCount
  BY DEF IInv
<1> QED BY <1>1, InductiveInvariant, PTL

-----------------------------------------------------------------------------
(* Threads.  A process is one thread: whatever suspends it leaves exactly  *)
(* one thing that resumes it, a parked `wait fork` counts the children that *)
(* can still report, and so the arena keeps the promise of ForkPromise.  The *)
(* last section is about reports and the recycling of slots.               *)

\* OneContinuation of one process, with what carries it: a body that is not busy
\* waits for nothing, and one that has stopped never goes on.
Thread(a) ==
    /\ Continuations(a) <= 1
    /\ (Live(a) \/ (activities[a].busy /\ ~activities[a].dead)) /\ ~activities[a].stopped
         => Continuations(a) = 1
    /\ activities[a].reported \/ activities[a].stopped => Continuations(a) = 0
    /\ activities[a].stopped => activities[a].busy
    /\ ~activities[a].busy => armed[a] = 0 /\ activities[a].wait_fork = 0 /\ Awaited(a) = {}

Threads == ~finished => \A a \in 1 .. acts : Thread(a)

WInv == IInv /\ Threads /\ WaitForkCount

-----------------------------------------------------------------------------
\* A parent waits for at most finitely many barriers and children.
LEMMA AwaitedFinite ==
    ASSUME TypeOK, NEW p
    PROVE  /\ Cardinality(Awaited(p)) \in Nat
           /\ Cardinality(Awaited(p)) = 0 <=> Awaited(p) = {}
           /\ IsFiniteSet(Awaited(p)) /\ IsFiniteSet(LiveChildren(p))
           /\ Cardinality(LiveChildren(p)) \in Nat
           /\ Cardinality(LiveChildren(p)) = 0 <=> LiveChildren(p) = {}
<1>1. IsFiniteSet(1 .. bars) /\ IsFiniteSet(1 .. acts)
  BY FS_Interval, ForkJoinAssumption DEF TypeOK
<1>2. Awaited(p) \in SUBSET (1 .. bars) /\ LiveChildren(p) \in SUBSET (1 .. acts)
  BY DEF Awaited, LiveChildren
<1>3. IsFiniteSet(Awaited(p)) /\ IsFiniteSet(LiveChildren(p))
  BY <1>1, <1>2, FS_Subset
<1> QED BY <1>3, FS_CardinalityType, FS_EmptySet

\* The parts of a process's continuations are naturals.
LEMMA Parts ==
    ASSUME IInv, NEW a \in 1 .. acts
    PROVE  /\ a \in Aids /\ a # 0 /\ activities[a] \in Activity
           /\ ready[a] \in Nat /\ armed[a] \in Nat
           /\ activities[a].wait_fork \in Nat
           /\ Cardinality(Awaited(a)) \in Nat
           /\ Cardinality(Awaited(a)) = 0 <=> Awaited(a) = {}
<1>1. a \in Aids /\ a # 0
  BY ForkJoinAssumption DEF IInv, TypeOK, Aids
<1> QED BY <1>1, AwaitedFinite DEF IInv, TypeOK, Activity

\* An arm is nobody's parent: it may not fork.
LEMMA ArmsAreChildless ==
    ASSUME IInv, ~finished, NEW a \in Arms
    PROVE  Awaited(a) = {} /\ LiveChildren(a) = {}
<1>1. a \notin BaseAids
  BY ForkJoinAssumption DEF Arms, BaseAids, IInv, TypeOK
<1>2. ASSUME NEW b \in Awaited(a) PROVE FALSE
  BY <1>1 DEF Awaited, IInv, BarrierParents
<1>3. ASSUME NEW c \in LiveChildren(a) PROVE FALSE
  <2>1. c \in 1 .. acts /\ Live(c) /\ ParentOf(c) = a
    BY <1>3 DEF LiveChildren
  <2>2. c \in Aids
    BY <2>1, Parts
  <2>3. activities[c].join_ref \in 1 .. bars
    BY <2>1, <2>2, ChildIsArm DEF Live, IInv, SlotKinds
  <2> QED BY <1>1, <2>1, <2>3 DEF ParentOf, IInv, BarrierParents
<1> QED BY <1>2, <1>3

\* A running body is its process's only continuation.
LEMMA RunsAlone ==
    ASSUME IInv, Threads, NEW a \in Aids, Running(a)
    PROVE  /\ a \in 1 .. acts /\ cur_aid = a /\ a # 0 /\ ~finished
           /\ ready[a] = 0 /\ armed[a] = 0 /\ Awaited(a) = {}
           /\ activities[a].wait_fork = 0
           /\ Cardinality(Awaited(a)) = 0 /\ Continuations(a) = 1
           /\ ~activities[a].stopped /\ ~activities[a].reported /\ ~activities[a].dead
<1>1. a \in 1 .. acts /\ cur_aid = a /\ a # 0 /\ ~finished /\ ~activities[a].reported
  BY ActiveIsUnreported DEF Running
<1>2. Thread(a)
  BY <1>1 DEF Threads
<1>3. /\ ready[a] \in Nat /\ armed[a] \in Nat /\ activities[a].wait_fork \in Nat
      /\ Cardinality(Awaited(a)) \in Nat
      /\ Cardinality(Awaited(a)) = 0 <=> Awaited(a) = {}
  BY <1>1, Parts
<1>4. ready[a] + armed[a] + 1 + Cardinality(Awaited(a))
         + (IF activities[a].wait_fork > 0 THEN 1 ELSE 0) <= 1
  BY <1>1, <1>2 DEF Thread, Continuations
<1>5. /\ ready[a] = 0 /\ armed[a] = 0 /\ activities[a].wait_fork = 0
      /\ Cardinality(Awaited(a)) = 0
  BY <1>3, <1>4
<1>6. Continuations(a) = 1
  BY <1>1, <1>5 DEF Continuations
<1>7. ~activities[a].stopped
  BY <1>2, <1>6 DEF Thread
<1>8. ~activities[a].dead
  BY <1>1 DEF IInv, RunningIsAlive
<1> QED BY <1>1, <1>3, <1>5, <1>6, <1>7, <1>8

-----------------------------------------------------------------------------
(* What a step leaves alone.                                               *)

\* A step that neither allocates nor reports leaves every parent what it waits for.
LEMMA SameAwaited ==
    ASSUME IInv, UNCHANGED <<acts, joins>>, SameArms, NEW p
    PROVE  Awaited(p)' = Awaited(p) /\ \A b : Unreported(b)' = Unreported(b)
<1>1. \A a \in 1 .. acts : a \in Aids
  BY Parts
<1>2. \A b : Unreported(b)' = Unreported(b)
  BY <1>1 DEF Unreported, SameArms
<1>3. Awaited(p)' = Awaited(p)
  BY <1>2 DEF Awaited, joins
<1> QED BY <1>2, <1>3

\* And, when it kills nobody, its children.
LEMMA SameChildren ==
    ASSUME IInv, UNCHANGED <<acts, joins>>, SameArms, NEW p,
           \A a \in Aids : activities'[a].dead = activities[a].dead
    PROVE  LiveChildren(p)' = LiveChildren(p)
<1>1. \A a \in 1 .. acts : a \in Aids
  BY Parts
<1>2. \A a \in 1 .. acts : (Live(a)' <=> Live(a)) /\ ParentOf(a)' = ParentOf(a)
  BY <1>1 DEF Live, ParentOf, SameArms, joins
<1> QED BY <1>2 DEF LiveChildren

\* Only arm c reports.
SameArmsBut(c) == \A a \in Aids :
    /\ activities'[a].is_child = activities[a].is_child
    /\ activities'[a].join_ref = activities[a].join_ref
    /\ activities'[a].dead     = activities[a].dead
    /\ IF a = c THEN activities'[a].reported
                ELSE activities'[a].reported = activities[a].reported

\* A process goes on being one thread when a step keeps how many continuations it has.
LEMMA ThreadKept ==
    ASSUME NEW a, Thread(a), Continuations(a)' = Continuations(a),
           activities'[a].is_child = activities[a].is_child,
           activities'[a].reported = activities[a].reported,
           activities'[a].stopped = activities[a].stopped,
           activities[a].dead => activities'[a].dead,
           activities[a].busy => activities'[a].busy,
           activities'[a].busy => activities[a].busy \/ Continuations(a) = 1,
           ~activities'[a].busy => /\ armed'[a] = armed[a] /\ Awaited(a)' = Awaited(a)
                                   /\ activities'[a].wait_fork = activities[a].wait_fork
    PROVE  Thread(a)'
BY DEF Thread, Live

\* A step that does nothing to a process leaves it as it is.
LEMMA ThreadAlone ==
    ASSUME NEW a, Thread(a), activities'[a] = activities[a],
           ready'[a] = ready[a], armed'[a] = armed[a], (cur_aid' = a) <=> (cur_aid = a),
           Awaited(a)' = Awaited(a)
    PROVE  Thread(a)'
<1>1. Continuations(a)' = Continuations(a)
  BY DEF Continuations
<1> QED BY <1>1, ThreadKept

\* A `wait fork` that goes on counts the same children.
LEMMA CountKept ==
    ASSUME WaitForkCount, acts' = acts,
           \A p \in 1 .. acts :
               activities'[p].wait_fork > 0 =>
                   /\ activities'[p].wait_fork = activities[p].wait_fork
                   /\ LiveChildren(p)' = LiveChildren(p)
    PROVE  WaitForkCount'
BY DEF WaitForkCount

-----------------------------------------------------------------------------
(* The steps of the run loop.                                              *)

\* A sensitivity starts only a process that waits for nothing.
LEMMA TriggerKeepsThreads ==
    ASSUME WInv, NEW p \in BaseAids, Trigger(p)
    PROVE  Threads' /\ WaitForkCount'
<1> USE DEF WInv
<1>1. p \in Aids /\ p \in 1 .. acts /\ p # 0 /\ ~activities[p].reported
  BY BaseIsNoArm, Parts
<1>2. /\ UNCHANGED <<activities, acts, joins, cur_aid, armed, finished>>
      /\ ready' = [ready EXCEPT ![p] = @ + 1]
      /\ cur_aid = 0 /\ ~finished /\ ~activities[p].busy /\ ready[p] = 0
  BY DEF Trigger, Between, slots
<1>3. SameArms
  BY <1>2 DEF SameArms
<1>4. \A a : Awaited(a)' = Awaited(a) /\ LiveChildren(a)' = LiveChildren(a)
  BY <1>2, <1>3, SameAwaited, SameChildren
<1>5. ready'[p] = 1 /\ \A a \in 1 .. acts : a # p => ready'[a] = ready[a]
  BY <1>1, <1>2, Parts DEF IInv, TypeOK
<1>6. ASSUME NEW a \in 1 .. acts PROVE Thread(a)'
  <2>1. Thread(a)
    BY <1>2 DEF Threads
  <2>2. CASE a # p
    BY <1>2, <1>4, <1>5, <2>1, <2>2, ThreadAlone
  <2>3. CASE a = p
    <3>1. /\ armed[p] = 0 /\ activities[p].wait_fork = 0 /\ Awaited(p) = {}
          /\ ~activities[p].stopped
      BY <1>2, <2>1, <2>3 DEF Thread
    <3>2. Cardinality(Awaited(p)) = 0
      BY <3>1, FS_EmptySet
    <3>3. Continuations(p)' = 1
      BY <1>1, <1>2, <1>4, <1>5, <3>1, <3>2 DEF Continuations
    <3> QED BY <1>1, <1>2, <1>4, <2>3, <3>1, <3>3 DEF Thread
  <2> QED BY <2>2, <2>3
<1>7. WaitForkCount'
  BY <1>2, <1>4, CountKept
<1> QED BY <1>2, <1>6, <1>7 DEF Threads

\* The entry of a delay or a wait becomes an entry of a run queue.
LEMMA WakeKeepsThreads ==
    ASSUME WInv, NEW w \in Aids, Wake(w)
    PROVE  Threads' /\ WaitForkCount'
<1> USE DEF WInv
<1>1. w \in 1 .. acts
  BY ActiveIsUnreported DEF Wake
<1>2. /\ UNCHANGED <<activities, acts, joins, cur_aid, finished>>
      /\ ready' = [ready EXCEPT ![w] = @ + 1] /\ armed' = [armed EXCEPT ![w] = @ - 1]
      /\ cur_aid = 0 /\ ~finished /\ armed[w] > 0
  BY DEF Wake, Between, slots
<1>3. SameArms
  BY <1>2 DEF SameArms
<1>4. \A a : Awaited(a)' = Awaited(a) /\ LiveChildren(a)' = LiveChildren(a)
  BY <1>2, <1>3, SameAwaited, SameChildren
<1>5. /\ ready'[w] = ready[w] + 1 /\ armed'[w] = armed[w] - 1
      /\ \A a \in 1 .. acts : a # w => ready'[a] = ready[a] /\ armed'[a] = armed[a]
  BY <1>1, <1>2, Parts DEF IInv, TypeOK
<1>6. ASSUME NEW a \in 1 .. acts PROVE Thread(a)'
  <2>1. Thread(a)
    BY <1>2 DEF Threads
  <2>2. CASE a # w
    BY <1>2, <1>4, <1>5, <2>1, <2>2, ThreadAlone
  <2>3. CASE a = w
    <3>1. activities[w].busy
      BY <1>2, <2>1, <2>3 DEF Thread
    <3>2. Continuations(w)' = Continuations(w)
      BY <1>1, <1>2, <1>4, <1>5, Parts DEF Continuations
    <3> QED BY <1>2, <2>1, <2>3, <3>1, <3>2, ThreadKept
  <2> QED BY <2>2, <2>3
<1>7. WaitForkCount'
  BY <1>2, <1>4, CountKept
<1> QED BY <1>2, <1>6, <1>7 DEF Threads

\* A queue entry becomes the running body; that of a killed arm is dropped.
LEMMA DispatchKeepsThreads ==
    ASSUME WInv, NEW d \in Aids, Dispatch(d)
    PROVE  Threads' /\ WaitForkCount'
<1> USE DEF WInv
<1>1. d \in 1 .. acts /\ d # 0 /\ ~activities[d].reported
  BY ActiveIsUnreported, Parts DEF Dispatch
<1>2. /\ UNCHANGED <<acts, joins, armed, finished>>
      /\ ready' = [ready EXCEPT ![d] = @ - 1]
      /\ cur_aid = 0 /\ ~finished /\ ready[d] > 0
  BY DEF Dispatch, Between, slots
<1>3. /\ ready'[d] = ready[d] - 1
      /\ \A a \in 1 .. acts : a # d => ready'[a] = ready[a]
  BY <1>1, <1>2, Parts DEF IInv, TypeOK
<1>4. CASE ~activities[d].dead
  <2>1. UNCHANGED activities /\ cur_aid' = d
    BY <1>4 DEF Dispatch
  <2>2. SameArms
    BY <2>1 DEF SameArms
  <2>3. \A a : Awaited(a)' = Awaited(a) /\ LiveChildren(a)' = LiveChildren(a)
    BY <1>2, <2>1, <2>2, SameAwaited, SameChildren
  <2>4. ASSUME NEW a \in 1 .. acts PROVE Thread(a)'
    <3>1. Thread(a) /\ a # 0
      BY <1>2, Parts DEF Threads
    <3>2. CASE a # d
      BY <1>2, <1>3, <2>1, <2>3, <3>1, <3>2, ThreadAlone
    <3>3. CASE a = d
      <4>1. Continuations(d)' = Continuations(d)
        BY <1>1, <1>2, <1>3, <2>1, <2>3, Parts DEF Continuations
      <4> QED BY <1>2, <2>1, <2>3, <3>1, <3>3, <4>1, ThreadKept
    <3> QED BY <3>2, <3>3
  <2>5. WaitForkCount'
    BY <1>2, <2>1, <2>3, CountKept
  <2> QED BY <1>2, <2>4, <2>5 DEF Threads
<1>5. CASE activities[d].dead
  <2>1. activities' = [activities EXCEPT ![d].busy = FALSE] /\ cur_aid' = 0
    BY <1>2, <1>5 DEF Dispatch
  <2>2. SameArms /\ \A a \in Aids : activities'[a].dead = activities[a].dead
    BY <2>1, BusyOnly DEF IInv
  <2>3. \A a : Awaited(a)' = Awaited(a) /\ LiveChildren(a)' = LiveChildren(a)
    BY <1>2, <2>2, SameAwaited, SameChildren
  <2>4. /\ activities'[d] = [activities[d] EXCEPT !.busy = FALSE]
        /\ \A a \in 1 .. acts : a # d => activities'[a] = activities[a]
    BY <1>1, <2>1, Parts DEF IInv, TypeOK
  <2>5. /\ ~activities'[d].busy /\ activities'[d].wait_fork = activities[d].wait_fork
        /\ activities'[d].stopped = activities[d].stopped
        /\ activities'[d].dead = activities[d].dead
        /\ activities'[d].reported = activities[d].reported
    BY <1>1, <2>4, Parts DEF Activity
  <2>6. ASSUME NEW a \in 1 .. acts PROVE Thread(a)'
    <3>1. Thread(a) /\ a # 0
      BY <1>2, Parts DEF Threads
    <3>2. CASE a # d
      BY <1>2, <1>3, <2>1, <2>3, <2>4, <3>1, <3>2, ThreadAlone
    <3>3. CASE a = d
      <4>1. /\ ready[d] \in Nat /\ armed[d] \in Nat /\ activities[d].wait_fork \in Nat
            /\ Cardinality(Awaited(d)) \in Nat
            /\ Cardinality(Awaited(d)) = 0 <=> Awaited(d) = {}
        BY <1>1, Parts
      <4>2. Continuations(d) = ready[d] + armed[d] + Cardinality(Awaited(d))
                                 + (IF activities[d].wait_fork > 0 THEN 1 ELSE 0)
        BY <1>1, <1>2, <4>1 DEF Continuations
      <4>3. Continuations(d) <= 1 /\ ~activities[d].stopped
        <5>1. Continuations(d) <= 1 /\ (activities[d].stopped => Continuations(d) = 0)
          BY <3>1, <3>3 DEF Thread
        <5> QED BY <1>2, <4>1, <4>2, <5>1
      <4>4. /\ ready[d] = 1 /\ armed[d] = 0 /\ activities[d].wait_fork = 0
            /\ Cardinality(Awaited(d)) = 0
        BY <1>2, <4>1, <4>2, <4>3
      <4>5. Continuations(d)' = 0
        BY <1>1, <1>2, <1>3, <2>1, <2>3, <2>5, <4>4 DEF Continuations
      <4>6. ~activities'[d].stopped /\ activities'[d].dead /\ ~Live(d)'
        BY <1>5, <2>5, <4>3 DEF Live
      <4> QED BY <1>2, <2>3, <2>5, <3>3, <4>1, <4>4, <4>5, <4>6 DEF Thread
    <3> QED BY <3>2, <3>3
  <2>7. WaitForkCount'
    <3>1. \A a \in 1 .. acts : activities'[a].wait_fork = activities[a].wait_fork
      BY <2>4, <2>5
    <3> QED BY <1>2, <2>3, <3>1, CountKept
  <2> QED BY <1>2, <2>6, <2>7 DEF Threads
<1> QED BY <1>4, <1>5

\* Reports and stuttering change no thread.
LEMMA ReportsKeepThreads ==
    ASSUME WInv, UNCHANGED <<activities, acts, joins, cur_aid, queues, finished>>
    PROVE  Threads' /\ WaitForkCount'
<1> USE DEF WInv
<1>1. SameArms
  BY DEF SameArms
<1>2. \A a : Awaited(a)' = Awaited(a) /\ LiveChildren(a)' = LiveChildren(a)
  BY <1>1, SameAwaited, SameChildren
<1>3. ASSUME ~finished, NEW a \in 1 .. acts PROVE Thread(a)'
  BY <1>2, <1>3, ThreadAlone DEF Threads, queues
<1>4. WaitForkCount'
  BY <1>2, CountKept
<1> QED BY <1>3, <1>4 DEF Threads

-----------------------------------------------------------------------------
(* The steps of a body.                                                    *)

\* When a body gives its thread back the other processes go on as they were.
LEMMA GivesBack ==
    ASSUME WInv, NEW a \in Aids, Running(a),
           UNCHANGED <<acts, joins, ready, finished>>, cur_aid' = 0, SameArms,
           \A c \in Aids : activities'[c].dead = activities[c].dead,
           \A c \in 1 .. acts : c # a => /\ activities'[c] = activities[c]
                                         /\ armed'[c] = armed[c],
           Thread(a)',
           activities'[a].wait_fork \in {0, Cardinality(LiveChildren(a))}
    PROVE  Threads' /\ WaitForkCount'
<1> USE DEF WInv
<1>1. a \in 1 .. acts /\ cur_aid = a /\ a # 0 /\ ~finished /\ activities[a].wait_fork = 0
  BY RunsAlone
<1>2. \A c : Awaited(c)' = Awaited(c) /\ LiveChildren(c)' = LiveChildren(c)
  BY SameAwaited, SameChildren
<1>3. ASSUME NEW c \in 1 .. acts PROVE Thread(c)'
  <2>1. Thread(c) /\ c # 0
    BY <1>1, Parts DEF Threads
  <2> QED BY <1>1, <1>2, <2>1, ThreadAlone
<1>4. WaitForkCount'
  BY <1>2 DEF WaitForkCount
<1> QED BY <1>3, <1>4 DEF Threads

\* A suspended body leaves one entry in the wheel or the waiter list.
LEMMA SuspendKeepsThreads ==
    ASSUME WInv, NEW a \in Aids, Suspend(a)
    PROVE  Threads' /\ WaitForkCount'
<1> USE DEF WInv
<1>1. Running(a)
  BY DEF Suspend
<1>2. /\ a \in 1 .. acts /\ cur_aid = a /\ a # 0
      /\ ready[a] = 0 /\ armed[a] = 0 /\ Awaited(a) = {} /\ activities[a].wait_fork = 0
      /\ Cardinality(Awaited(a)) = 0 /\ Continuations(a) = 1
      /\ Thread(a)
  BY <1>1, RunsAlone DEF Threads
<1>3. /\ UNCHANGED <<acts, joins, ready, finished>> /\ cur_aid' = 0
      /\ activities' = [activities EXCEPT ![a].busy = TRUE]
      /\ armed' = [armed EXCEPT ![a] = @ + 1]
  BY DEF Suspend, Yield, slots
<1>4. SameArms /\ \A c \in Aids : activities'[c].dead = activities[c].dead
  BY <1>3, BusyOnly DEF IInv
<1>5. /\ activities'[a] = [activities[a] EXCEPT !.busy = TRUE] /\ armed'[a] = 1
      /\ \A c \in 1 .. acts : c # a => activities'[c] = activities[c] /\ armed'[c] = armed[c]
  BY <1>2, <1>3, Parts DEF IInv, TypeOK
<1>6. /\ activities'[a].busy /\ activities'[a].wait_fork = 0
      /\ activities'[a].stopped = activities[a].stopped
  BY <1>2, <1>5, Parts DEF Activity
<1>7. Awaited(a)' = Awaited(a)
  BY <1>3, <1>4, SameAwaited
<1>8. Continuations(a)' = 1
  BY <1>2, <1>3, <1>5, <1>6, <1>7 DEF Continuations
<1>9. Thread(a)'
  BY <1>2, <1>4, <1>6, <1>8, ThreadKept DEF SameArms
<1> QED BY <1>1, <1>3, <1>4, <1>5, <1>6, <1>9, GivesBack

\* A top-level body that returns leaves nothing behind.
LEMMA ReturnKeepsThreads ==
    ASSUME WInv, NEW a \in Aids, Return(a)
    PROVE  Threads' /\ WaitForkCount'
<1> USE DEF WInv
<1>1. Running(a) /\ ~activities[a].is_child
  BY DEF Return
<1>2. /\ a \in 1 .. acts /\ cur_aid = a /\ a # 0
      /\ ready[a] = 0 /\ armed[a] = 0 /\ Awaited(a) = {} /\ activities[a].wait_fork = 0
      /\ Cardinality(Awaited(a)) = 0 /\ ~activities[a].stopped
  BY <1>1, RunsAlone
<1>3. /\ UNCHANGED <<acts, joins, ready, armed, finished>> /\ cur_aid' = 0
      /\ activities' = [activities EXCEPT ![a].busy = FALSE]
  BY DEF Return, Yield, slots, queues
<1>4. SameArms /\ \A c \in Aids : activities'[c].dead = activities[c].dead
  BY <1>3, BusyOnly DEF IInv
<1>5. /\ activities'[a] = [activities[a] EXCEPT !.busy = FALSE]
      /\ \A c \in 1 .. acts : c # a => activities'[c] = activities[c]
  BY <1>2, <1>3, Parts DEF IInv, TypeOK
<1>6. /\ ~activities'[a].busy /\ activities'[a].wait_fork = 0
      /\ ~activities'[a].stopped /\ ~activities'[a].is_child
  BY <1>1, <1>2, <1>5, Parts DEF Activity
<1>7. Awaited(a)' = {}
  BY <1>2, <1>3, <1>4, SameAwaited
<1>8. Continuations(a)' = 0
  BY <1>2, <1>3, <1>6, <1>7, FS_EmptySet DEF Continuations
<1>9. Thread(a)'
  BY <1>2, <1>3, <1>6, <1>7, <1>8 DEF Thread, Live
<1> QED BY <1>1, <1>3, <1>4, <1>5, <1>6, <1>9, GivesBack

\* Nothing resumes a body that has reached `$finish`.
LEMMA FinishKeepsThreads ==
    ASSUME WInv, NEW a \in Aids, Finish(a)
    PROVE  Threads' /\ WaitForkCount'
<1> USE DEF WInv
<1>1. Running(a)
  BY DEF Finish
<1>2. /\ a \in 1 .. acts /\ cur_aid = a /\ a # 0
      /\ ready[a] = 0 /\ armed[a] = 0 /\ Awaited(a) = {} /\ activities[a].wait_fork = 0
      /\ Cardinality(Awaited(a)) = 0
  BY <1>1, RunsAlone
<1>3. /\ UNCHANGED <<acts, joins, ready, armed, finished>> /\ cur_aid' = 0
      /\ activities' = [activities EXCEPT ![a].busy = TRUE, ![a].stopped = TRUE]
  BY DEF Finish, slots, queues
<1>4. /\ activities'[a] = [activities[a] EXCEPT !.busy = TRUE, !.stopped = TRUE]
      /\ \A c \in Aids : c # a => activities'[c] = activities[c]
  BY <1>2, <1>3, Parts DEF IInv, TypeOK
<1>5. /\ activities'[a].busy /\ activities'[a].wait_fork = 0 /\ activities'[a].stopped
      /\ activities'[a].dead = activities[a].dead
      /\ activities'[a].is_child = activities[a].is_child
      /\ activities'[a].join_ref = activities[a].join_ref
      /\ activities'[a].tie = activities[a].tie
      /\ activities'[a].reported = activities[a].reported
  BY <1>2, <1>4, Parts DEF Activity
<1>6. SameArms /\ \A c \in Aids : activities'[c].dead = activities[c].dead
  BY <1>4, <1>5 DEF SameArms
<1>7. Awaited(a)' = {}
  BY <1>2, <1>3, <1>6, SameAwaited
<1>8. Continuations(a)' = 0
  BY <1>2, <1>3, <1>5, <1>7, FS_EmptySet DEF Continuations
<1>9. Thread(a)'
  BY <1>5, <1>8 DEF Thread
<1>10. \A c \in 1 .. acts : c # a => activities'[c] = activities[c] /\ armed'[c] = armed[c]
  BY <1>3, <1>4, Parts
<1> QED BY <1>1, <1>3, <1>5, <1>6, <1>9, <1>10, GivesBack

\* A `wait fork` parks on the children it counts.
LEMMA WaitForkKeepsThreads ==
    ASSUME WInv, NEW a \in Aids, WaitFork(a)
    PROVE  Threads' /\ WaitForkCount'
<1> USE DEF WInv
<1> DEFINE w == Cardinality(LiveChildren(a))
<1>1. Running(a)
  BY DEF WaitFork
<1>2. /\ a \in 1 .. acts /\ cur_aid = a /\ a # 0
      /\ ready[a] = 0 /\ armed[a] = 0 /\ Awaited(a) = {}
      /\ Cardinality(Awaited(a)) = 0 /\ Continuations(a) = 1 /\ Thread(a)
  BY <1>1, RunsAlone DEF Threads
<1>3. /\ UNCHANGED <<acts, joins, ready, armed, finished>> /\ cur_aid' = 0
      /\ activities' = [activities EXCEPT ![a].busy = TRUE, ![a].wait_fork = w]
      /\ LiveChildren(a) # {}
  BY DEF WaitFork, slots, queues
<1>4. w \in Nat /\ w > 0
  BY <1>3, AwaitedFinite DEF IInv
<1> HIDE DEF w
<1>5. /\ activities'[a] = [activities[a] EXCEPT !.busy = TRUE, !.wait_fork = w]
      /\ \A c \in Aids : c # a => activities'[c] = activities[c]
  BY <1>2, <1>3, Parts DEF IInv, TypeOK
<1>6. /\ activities'[a].busy /\ activities'[a].wait_fork = w
      /\ activities'[a].stopped = activities[a].stopped
      /\ activities'[a].dead = activities[a].dead
      /\ activities'[a].is_child = activities[a].is_child
      /\ activities'[a].join_ref = activities[a].join_ref
      /\ activities'[a].tie = activities[a].tie
      /\ activities'[a].reported = activities[a].reported
  BY <1>2, <1>5, Parts DEF Activity
<1>7. SameArms /\ \A c \in Aids : activities'[c].dead = activities[c].dead
  BY <1>5, <1>6 DEF SameArms
<1>8. Awaited(a)' = Awaited(a)
  BY <1>3, <1>7, SameAwaited
<1>9. Continuations(a)' = 1
  BY <1>2, <1>3, <1>4, <1>6, <1>8 DEF Continuations
<1>10. Thread(a)'
  BY <1>2, <1>6, <1>9, ThreadKept
<1>11. \A c \in 1 .. acts : c # a => activities'[c] = activities[c] /\ armed'[c] = armed[c]
  BY <1>3, <1>5, Parts
<1>12. activities'[a].wait_fork \in {0, Cardinality(LiveChildren(a))}
  BY <1>6 DEF w
<1> QED BY <1>1, <1>3, <1>7, <1>10, <1>11, <1>12, GivesBack

\* `disable fork` kills the live children and nobody else: no arm has arms of its own.
LEMMA KilledAreChildren ==
    ASSUME IInv, ~finished, NEW p \in 1 .. acts
    PROVE  Descendants(p) = LiveChildren(p)
<1> DEFINE S == {p} \cup LiveChildren(p)
           Closed(T) == /\ p \in T
                        /\ \A a \in 1 .. acts : Live(a) /\ ParentOf(a) \in T => a \in T
<1>1. S \in SUBSET (1 .. acts)
  BY DEF LiveChildren
<1>2. ASSUME NEW a \in 1 .. acts, Live(a), ParentOf(a) \in S PROVE a \in S
  <2>1. CASE ParentOf(a) = p
    BY <1>2, <2>1 DEF LiveChildren
  <2>2. CASE ParentOf(a) \in LiveChildren(p)
    <3>1. ParentOf(a) \in 1 .. acts /\ activities[ParentOf(a)].is_child
      BY <2>2 DEF LiveChildren, Live
    <3>2. ParentOf(a) \in Arms
      BY <3>1, Parts, ChildIsArm
    <3>3. LiveChildren(ParentOf(a)) = {}
      BY <3>2, ArmsAreChildless
    <3> QED BY <1>2, <3>3 DEF LiveChildren
  <2> QED BY <1>2, <2>1, <2>2
<1>3. Closed(S)
  BY <1>2
<1>4. ASSUME NEW a \in Descendants(p) PROVE a \in LiveChildren(p)
  <2>1. a # p /\ \A T \in SUBSET (1 .. acts) : Closed(T) => a \in T
    BY DEF Descendants
  <2>2. a \in S
    <3> HIDE DEF S, Closed
    <3> QED BY <1>1, <1>3, <2>1
  <2> QED BY <2>1, <2>2
<1>5. ASSUME NEW a \in LiveChildren(p) PROVE a \in Descendants(p)
  <2>1. a \in 1 .. acts /\ Live(a) /\ ParentOf(a) = p
    BY <1>5 DEF LiveChildren
  <2>2. a # p
    <3>1. a \in Arms
      BY <2>1, Parts, ChildIsArm DEF Live
    <3> QED BY <1>5, <3>1, ArmsAreChildless
  <2>3. \A T \in SUBSET (1 .. acts) : Closed(T) => a \in T
    BY <2>1
  <2> QED BY <2>1, <2>2, <2>3 DEF Descendants
<1> QED BY <1>4, <1>5

\* What `disable fork` changes is who of the children is dead.
LEMMA KilledChildren ==
    ASSUME IInv, Threads, NEW p \in Aids, DisableFork(p)
    PROVE  /\ SameArms
           /\ \A a \in Aids : /\ activities'[a].busy = activities[a].busy
                              /\ activities'[a].stopped = activities[a].stopped
                              /\ activities'[a].wait_fork = activities[a].wait_fork
                              /\ activities[a].dead => activities'[a].dead
           /\ LiveChildren(p)' = {}
           /\ \A q : q # p => LiveChildren(q)' = LiveChildren(q)
<1> DEFINE kill == Descendants(p)
<1>1. p \in 1 .. acts /\ ~finished
  BY RunsAlone DEF DisableFork
<1>2. activities' = [a \in Aids |-> IF a \in kill THEN [activities[a] EXCEPT !.dead = TRUE]
                                                 ELSE activities[a]]
  BY DEF DisableFork
<1>3. UNCHANGED <<acts, barriers>>
  BY DEF DisableFork, slots, joins
<1>4. kill = LiveChildren(p)
  BY <1>1, KilledAreChildren
<1> HIDE DEF kill
<1>5. \A a \in Aids : /\ activities[a] \in Activity
                      /\ a \notin kill => activities'[a] = activities[a]
                      /\ a \in kill => activities'[a] = [activities[a] EXCEPT !.dead = TRUE]
  BY <1>2 DEF IInv, TypeOK
<1>6. \A a \in Aids : /\ activities'[a].is_child = activities[a].is_child
                      /\ activities'[a].join_ref = activities[a].join_ref
                      /\ activities'[a].tie = activities[a].tie
                      /\ activities'[a].reported = activities[a].reported
                      /\ activities'[a].busy = activities[a].busy
                      /\ activities'[a].stopped = activities[a].stopped
                      /\ activities'[a].wait_fork = activities[a].wait_fork
                      /\ activities'[a].dead = (activities[a].dead \/ a \in kill)
  <2> SUFFICES ASSUME NEW a \in Aids
               PROVE  /\ activities'[a].is_child = activities[a].is_child
                      /\ activities'[a].join_ref = activities[a].join_ref
                      /\ activities'[a].tie = activities[a].tie
                      /\ activities'[a].reported = activities[a].reported
                      /\ activities'[a].busy = activities[a].busy
                      /\ activities'[a].stopped = activities[a].stopped
                      /\ activities'[a].wait_fork = activities[a].wait_fork
                      /\ activities'[a].dead = (activities[a].dead \/ a \in kill)
    OBVIOUS
  <2>1. activities[a] \in Activity /\ activities[a].dead \in BOOLEAN
    BY <1>5 DEF Activity
  <2>2. CASE a \in kill
    BY <1>5, <2>1, <2>2 DEF Activity
  <2>3. CASE a \notin kill
    BY <1>5, <2>1, <2>3
  <2> QED BY <2>2, <2>3
<1>7. ASSUME NEW a \in 1 .. acts
      PROVE  /\ Live(a)' <=> Live(a) /\ a \notin kill
             /\ ParentOf(a)' = ParentOf(a)
  <2>1. a \in Aids
    BY Parts
  <2> QED BY <1>3, <1>6, <2>1 DEF Live, ParentOf
<1>8. ASSUME NEW q PROVE LiveChildren(q)' = LiveChildren(q) \ kill
  BY <1>3, <1>7 DEF LiveChildren
<1>9. \A q : q # p => LiveChildren(q) \cap kill = {}
  BY <1>4 DEF LiveChildren
<1> QED BY <1>4, <1>6, <1>8, <1>9 DEF SameArms

\* `disable fork` resumes nobody, and takes no child from another process.
LEMMA DisableForkKeepsThreads ==
    ASSUME WInv, NEW p \in Aids, DisableFork(p)
    PROVE  Threads' /\ WaitForkCount'
<1> USE DEF WInv
<1>1. p \in 1 .. acts /\ cur_aid = p /\ ~finished /\ activities[p].wait_fork = 0
  BY RunsAlone DEF DisableFork
<1>2. UNCHANGED <<acts, joins, cur_aid, ready, armed, finished>>
  BY DEF DisableFork, slots, queues
<1>3. /\ SameArms
      /\ \A a \in Aids : /\ activities'[a].busy = activities[a].busy
                         /\ activities'[a].stopped = activities[a].stopped
                         /\ activities'[a].wait_fork = activities[a].wait_fork
                         /\ activities[a].dead => activities'[a].dead
      /\ \A q : q # p => LiveChildren(q)' = LiveChildren(q)
  BY KilledChildren
<1>4. \A a : Awaited(a)' = Awaited(a)
  BY <1>2, <1>3, SameAwaited
<1>5. ASSUME NEW a \in 1 .. acts PROVE Thread(a)'
  <2>1. Thread(a) /\ a \in Aids
    BY <1>1, Parts DEF Threads
  <2>2. Continuations(a)' = Continuations(a)
    BY <1>2, <1>3, <1>4, <2>1 DEF Continuations
  <2> QED BY <1>2, <1>3, <1>4, <2>1, <2>2, ThreadKept DEF SameArms
<1>6. WaitForkCount'
  <2>1. \A q \in 1 .. acts : activities'[q].wait_fork = activities[q].wait_fork
    BY <1>3, Parts
  <2> QED BY <1>1, <1>2, <1>3, <2>1, CountKept
<1> QED BY <1>2, <1>5, <1>6 DEF Threads

\* A refused fork ends the run, and its barrier counts nobody.
LEMMA ForkRefusedKeepsThreads ==
    ASSUME WInv, NEW p \in Aids, NEW mode \in JoinMode, NEW n \in 0 .. MaxArms,
           ForkRefused(p, mode, n)
    PROVE  Threads' /\ WaitForkCount'
<1> USE DEF WInv
<1> n \in Nat
  BY ForkJoinAssumption
<1>1. p \in 1 .. acts /\ activities[p].wait_fork = 0
  BY RunsAlone DEF ForkRefused
<1>2. TakesBarrier(JoinSlot, p, mode, n, FALSE)
  BY <1>1, BarrierTaken DEF ForkRefused
<1>3. /\ acts' = acts /\ finished' = TRUE
      /\ activities' = [activities EXCEPT ![p].busy = TRUE]
  BY DEF ForkRefused, Yield, slots
<1>4. SameArms /\ \A a \in Aids : activities'[a].dead = activities[a].dead
  BY <1>3, BusyOnly DEF IInv
<1>5. \A a \in 1 .. acts : activities'[a].wait_fork = activities[a].wait_fork
  BY <1>1, <1>3, Parts DEF IInv, TypeOK, Activity
<1>6. ASSUME NEW q PROVE LiveChildren(q)' = LiveChildren(q)
  <2>1. ASSUME NEW a \in 1 .. acts
        PROVE  (Live(a) /\ ParentOf(a) = q)' <=> (Live(a) /\ ParentOf(a) = q)
    <3>1. a \in Aids
      BY Parts
    <3>2. Live(a)' <=> Live(a)
      BY <1>4, <3>1 DEF Live, SameArms
    <3>3. CASE Live(a)
      <4>1. activities[a].join_ref # JoinSlot
        BY <1>2, <3>1, <3>3 DEF TakesBarrier, Live
      <4>2. activities[a].join_ref \in Bars
        <5>1. activities[a].join_ref \in 1 .. bars
          BY <3>1, <3>3, ChildIsArm DEF Live, IInv, SlotKinds
        <5> QED BY <5>1, ForkJoinAssumption DEF IInv, TypeOK, Bars
      <4>3. barriers'[activities[a].join_ref] = barriers[activities[a].join_ref]
        BY <1>2, <4>1, <4>2 DEF TakesBarrier, IInv, TypeOK
      <4>4. ParentOf(a)' = ParentOf(a)
        BY <1>4, <3>1, <4>3 DEF ParentOf, SameArms
      <4> QED BY <3>2, <4>4
    <3>4. CASE ~Live(a)
      BY <3>2, <3>4
    <3> QED BY <3>3, <3>4
  <2> QED BY <1>3, <2>1 DEF LiveChildren
<1>7. WaitForkCount'
  BY <1>3, <1>5, <1>6, CountKept
<1> QED BY <1>3, <1>7 DEF Threads

-----------------------------------------------------------------------------
(* A fork.                                                                 *)

\* The arms of a fork start at rest, and only the parent is touched besides.
LEMMA ForkedAtRest ==
    ASSUME IInv, NEW p \in Aids, NEW mode \in JoinMode, NEW n \in 0 .. MaxArms,
           Fork(p, mode, n)
    PROVE  /\ \A a \in ArmSlots(n) : /\ activities'[a].wait_fork = 0
                                     /\ ~activities'[a].busy /\ ~activities'[a].stopped
                                     /\ ready'[a] = 1 /\ armed'[a] = 0
           /\ \A a \in Aids \ ArmSlots(n) :
                 /\ activities'[a] = IF a = p /\ ~Continues(mode, n)
                                     THEN [activities[a] EXCEPT !.busy = TRUE]
                                     ELSE activities[a]
                 /\ ready'[a] = ready[a] /\ armed'[a] = armed[a]
<1> n \in Nat
  BY ForkJoinAssumption
<1> DEFINE A == ArmSlots(n)
           J == JoinSlot
           parks == ~Continues(mode, n)
           arm == [a \in A |-> LET i == CHOOSE j \in 1 .. n : ArmSlot(j) = a
                               IN  NewArm(J, activities[p].tie, i)]
<1>1. activities' = [a \in Aids |->
          IF a \in A THEN arm[a]
          ELSE IF a = p /\ parks THEN [activities[a] EXCEPT !.busy = TRUE]
          ELSE activities[a]]
  BY DEF Fork
<1>2. /\ ready' = [a \in Aids |-> IF a \in A THEN ready[a] + 1 ELSE ready[a]]
      /\ armed' = armed
  BY DEF Fork
<1>3. \A a \in A : /\ a \in Aids
                   /\ a \in 1 .. acts => a \in Listed(free_activities)
  BY ForkedSlots
<1>4. ASSUME NEW a \in A
      PROVE  /\ activities'[a].wait_fork = 0
             /\ ~activities'[a].busy /\ ~activities'[a].stopped
             /\ ready'[a] = 1 /\ armed'[a] = 0
  <2> DEFINE i == CHOOSE j \in 1 .. n : ArmSlot(j) = a
  <2>1. activities'[a] = NewArm(J, activities[p].tie, i)
    BY <1>1, <1>3
  <2>2. ready[a] = 0 /\ armed[a] = 0
    <3>1. CASE a \in 1 .. acts
      BY <1>3, <3>1 DEF IInv, RecycledIsGone
    <3>2. CASE a \notin 1 .. acts
      <4>1. a > acts
        BY <1>3, <3>2, ForkJoinAssumption DEF Aids, IInv, TypeOK
      <4> QED BY <1>3, <4>1 DEF IInv, Unallocated
    <3> QED BY <3>1, <3>2
  <2> QED BY <1>2, <1>3, <2>1, <2>2 DEF NewArm
<1> HIDE DEF A, J, parks, arm
<1>5. \A a \in Aids \ A :
          /\ activities'[a] = IF a = p /\ parks THEN [activities[a] EXCEPT !.busy = TRUE]
                                                ELSE activities[a]
          /\ ready'[a] = ready[a] /\ armed'[a] = armed[a]
  BY <1>1, <1>2
<1> QED BY <1>4, <1>5 DEF A, parks

\* What each process waits for after a fork: the parent, if it parks, for the new
\* barrier, the arms for nothing, and everybody else for what it did.
LEMMA ForkedWaits ==
    ASSUME IInv, NEW p \in Aids, NEW mode \in JoinMode, NEW n \in 0 .. MaxArms,
           Fork(p, mode, n), Awaited(p) = {}
    PROVE  /\ Awaited(p)' = IF Continues(mode, n) THEN {} ELSE {JoinSlot}
           /\ \A a \in ArmSlots(n) : Awaited(a)' = {}
           /\ \A q \in 1 .. acts : q # p /\ q \notin ArmSlots(n) =>
                 Awaited(q)' = Awaited(q) /\ LiveChildren(q)' = LiveChildren(q)
           /\ LiveChildren(p)' = LiveChildren(p) \cup ArmSlots(n)
           /\ \A a \in ArmSlots(n) : ~(a \in 1 .. acts /\ Live(a))
           /\ \A b : b = JoinSlot => Unreported(b)' = ArmSlots(n)
           /\ barriers'[JoinSlot].mode = mode
           /\ \A q, b : b \in Awaited(q) => /\ Unreported(b)' = Unreported(b)
                                           /\ barriers'[b] = barriers[b]
<1> n \in Nat
  BY ForkJoinAssumption
<1> DEFINE A == ArmSlots(n)
           go == Continues(mode, n)
<1>0. PICK J : J = JoinSlot
  OBVIOUS
<1>1. /\ p \in BaseAids /\ p \notin A /\ acts' \in acts .. MaxActs
      /\ \A a : a \in A => a \in Aids /\ a \in NProc + 1 .. acts'
      /\ \A a : a \in 1 .. acts' => a \in 1 .. acts \/ a \in A
      /\ \A a \in A : a \in 1 .. acts => a \in Listed(free_activities)
  BY ForkedSlots
<1>2. /\ \A a \in A : /\ activities'[a].is_child /\ ~activities'[a].reported
                      /\ ~activities'[a].dead /\ activities'[a].join_ref = J
      /\ \A a \in Aids \ A :
            /\ activities'[a].is_child = activities[a].is_child
            /\ activities'[a].join_ref = activities[a].join_ref
            /\ activities'[a].reported = activities[a].reported
            /\ activities'[a].dead     = activities[a].dead
  BY <1>0, ForkedArms
<1>3. p \in 1 .. acts /\ ~finished
  BY <1>1, BaseIsNoArm DEF Fork, Running
<1>4. go \in BOOLEAN /\ (~go => n # 0)
  BY DEF Continues
<1>5. TakesBarrier(J, p, mode, n, go)
  <2>1. JoinSlot <= MaxBarriers /\ RegisterBarrier(p, mode, n, go)
    BY DEF Fork, Fits
  <2>2. TakesBarrier(JoinSlot, p, mode, n, go)
    BY <1>3, <1>4, <2>1, BarrierTaken
  <2> QED BY <1>0, <2>2
<1>6. ~go => A # {}
  <2>1. Cardinality(A) = n
    BY ArmSlotsCount DEF IInv, RecycledIsGone
  <2> QED BY <1>4, <2>1, FS_EmptySet
<1> HIDE DEF A, go
<1>7. /\ acts \in Nat /\ acts' \in Nat /\ 1 .. acts \subseteq 1 .. acts'
      /\ 1 .. acts \subseteq Aids /\ 1 .. bars \subseteq Bars
      /\ A \subseteq 1 .. acts'
  BY <1>1, ForkJoinAssumption DEF IInv, TypeOK, Aids, Bars
<1>8. \A a \in A : a \in 1 .. acts => activities[a].reported
  BY <1>1 DEF IInv, RecycledIsGone
<1>9. /\ J \in Bars /\ \A b : b \in 1 .. bars' <=> b \in 1 .. bars \/ b = J
      /\ barriers'[J] = [parent |-> p, mode |-> mode, outstanding |-> n, fired |-> go]
      /\ \A b \in Bars : b # J => barriers'[b] = barriers[b]
      /\ \A a \in 1 .. acts : activities[a].is_child /\ ~activities[a].reported
                                 => activities[a].join_ref # J
  BY <1>5, <1>7 DEF TakesBarrier, IInv, TypeOK
<1>10. Unreported(J)' = A
  <2>1. ASSUME NEW a \in 1 .. acts', a \notin A
        PROVE  ~(activities'[a].is_child /\ ~activities'[a].reported
                   /\ activities'[a].join_ref = J)
    <3>1. a \in 1 .. acts /\ a \in Aids
      BY <1>1, <1>7, <2>1
    <3> QED BY <1>2, <1>9, <2>1, <3>1
  <2> QED BY <1>2, <1>7, <2>1 DEF Unreported
<1>11. ASSUME NEW b, b # J PROVE Unreported(b)' = Unreported(b)
  <2>1. ASSUME NEW a \in Unreported(b)' PROVE a \in Unreported(b)
    <3>1. a \in 1 .. acts' /\ a \notin A
      BY <1>2, <1>11, <2>1 DEF Unreported
    <3>2. a \in 1 .. acts /\ a \in Aids
      BY <1>1, <1>7, <3>1
    <3> QED BY <1>2, <2>1, <3>1, <3>2 DEF Unreported
  <2>2. ASSUME NEW a \in Unreported(b) PROVE a \in Unreported(b)'
    <3>1. a \in 1 .. acts /\ a \notin A /\ a \in Aids /\ a \in 1 .. acts'
      BY <1>7, <1>8, <2>2 DEF Unreported
    <3> QED BY <1>2, <2>2, <3>1 DEF Unreported
  <2> QED BY <2>1, <2>2
<1>12. Unreported(J) = {}
  BY <1>9 DEF Unreported
<1>13. ASSUME NEW q, q # p PROVE Awaited(q)' = Awaited(q)
  <2>1. ASSUME NEW b \in Awaited(q)' PROVE b \in Awaited(q)
    <3>1. b \in 1 .. bars' /\ barriers'[b].parent = q /\ ~barriers'[b].fired
          /\ Unreported(b)' # {}
      BY <2>1 DEF Awaited
    <3>2. b # J
      BY <1>9, <1>13, <3>1
    <3>3. b \in 1 .. bars /\ barriers'[b] = barriers[b]
      BY <1>7, <1>9, <3>1, <3>2
    <3> QED BY <1>11, <3>1, <3>2, <3>3 DEF Awaited
  <2>2. ASSUME NEW b \in Awaited(q) PROVE b \in Awaited(q)'
    <3>1. b \in 1 .. bars /\ b # J
      BY <1>12, <2>2 DEF Awaited
    <3>2. b \in 1 .. bars' /\ barriers'[b] = barriers[b]
      BY <1>7, <1>9, <3>1
    <3> QED BY <1>11, <2>2, <3>1, <3>2 DEF Awaited
  <2> QED BY <2>1, <2>2
<1>14. Awaited(p)' = IF go THEN {} ELSE {J}
  <2>1. ASSUME NEW b \in Awaited(p)' PROVE b = J /\ ~go
    <3>1. b \in 1 .. bars' /\ barriers'[b].parent = p /\ ~barriers'[b].fired
          /\ Unreported(b)' # {}
      BY <2>1 DEF Awaited
    <3>2. CASE b = J
      BY <1>9, <3>1, <3>2
    <3>3. CASE b # J
      <4>1. b \in 1 .. bars /\ barriers'[b] = barriers[b]
        BY <1>7, <1>9, <3>1, <3>3
      <4>2. b \in Awaited(p)
        BY <1>11, <3>1, <3>3, <4>1 DEF Awaited
      <4> QED BY <4>2
    <3> QED BY <3>2, <3>3
  <2>2. ~go => J \in Awaited(p)'
    BY <1>6, <1>9, <1>10 DEF Awaited
  <2> QED BY <2>1, <2>2
<1>15. ASSUME NEW a \in A PROVE Awaited(a)' = {}
  <2>1. a \notin BaseAids /\ a # p
    BY <1>1, <1>15, ForkJoinAssumption DEF BaseAids
  <2>2. Awaited(a) = {}
    BY <1>3, <2>1 DEF Awaited, IInv, BarrierParents
  <2> QED BY <1>13, <2>1, <2>2
<1>16. ASSUME NEW q \in 1 .. acts, q # p PROVE LiveChildren(q)' = LiveChildren(q)
  <2>1. ASSUME NEW a \in 1 .. acts, a \notin A
        PROVE  (Live(a) /\ ParentOf(a) = q)' <=> (Live(a) /\ ParentOf(a) = q)
    <3>1. a \in Aids
      BY <1>7
    <3>2. Live(a)' <=> Live(a)
      BY <1>2, <2>1, <3>1 DEF Live
    <3>3. CASE Live(a)
      <4>1. activities[a].join_ref # J
        BY <1>9, <3>3 DEF Live
      <4>2. activities[a].join_ref \in Bars
        <5>1. activities[a].join_ref \in 1 .. bars
          BY <3>1, <3>3, ChildIsArm DEF Live, IInv, SlotKinds
        <5> QED BY <1>7, <5>1
      <4>3. ParentOf(a)' = ParentOf(a)
        BY <1>2, <1>9, <2>1, <3>1, <4>1, <4>2 DEF ParentOf
      <4> QED BY <3>2, <4>3
    <3>4. CASE ~Live(a)
      BY <3>2, <3>4
    <3> QED BY <3>3, <3>4
  <2>2. \A a \in A : ParentOf(a)' = p
    BY <1>2, <1>9 DEF ParentOf
  <2>3. \A a \in A : a \in 1 .. acts => ~Live(a)
    BY <1>8 DEF Live
  <2>4. ASSUME NEW a \in LiveChildren(q)' PROVE a \in LiveChildren(q)
    <3>1. a \in 1 .. acts' /\ Live(a)' /\ ParentOf(a)' = q
      BY <2>4 DEF LiveChildren
    <3>2. a \notin A /\ a \in 1 .. acts
      BY <1>1, <1>16, <2>2, <3>1
    <3> QED BY <2>1, <3>1, <3>2 DEF LiveChildren
  <2>5. ASSUME NEW a \in LiveChildren(q) PROVE a \in LiveChildren(q)'
    <3>1. a \in 1 .. acts /\ Live(a) /\ ParentOf(a) = q /\ a \notin A /\ a \in 1 .. acts'
      BY <1>7, <2>3, <2>5 DEF LiveChildren
    <3> QED BY <2>1, <3>1 DEF LiveChildren
  <2> QED BY <2>4, <2>5
<1>17. \A a \in A : ~(a \in 1 .. acts /\ Live(a))
  BY <1>8 DEF Live
<1>18. LiveChildren(p)' = LiveChildren(p) \cup A
  <2>1. \A a \in A : a \in 1 .. acts' /\ Live(a)' /\ ParentOf(a)' = p
    BY <1>2, <1>7, <1>9 DEF Live, ParentOf
  <2>2. ASSUME NEW a \in 1 .. acts, a \notin A
        PROVE  (Live(a) /\ ParentOf(a) = p)' <=> (Live(a) /\ ParentOf(a) = p)
    <3>1. a \in Aids
      BY <1>7
    <3>2. Live(a)' <=> Live(a)
      BY <1>2, <2>2, <3>1 DEF Live
    <3>3. CASE Live(a)
      <4>1. activities[a].join_ref # J
        BY <1>9, <3>3 DEF Live
      <4>2. activities[a].join_ref \in Bars
        <5>1. activities[a].join_ref \in 1 .. bars
          BY <3>1, <3>3, ChildIsArm DEF Live, IInv, SlotKinds
        <5> QED BY <1>7, <5>1
      <4>3. ParentOf(a)' = ParentOf(a)
        BY <1>2, <1>9, <2>2, <3>1, <4>1, <4>2 DEF ParentOf
      <4> QED BY <3>2, <4>3
    <3>4. CASE ~Live(a)
      BY <3>2, <3>4
    <3> QED BY <3>3, <3>4
  <2>3. ASSUME NEW a \in LiveChildren(p)', a \notin A PROVE a \in LiveChildren(p)
    <3>1. a \in 1 .. acts' /\ Live(a)' /\ ParentOf(a)' = p
      BY <2>3 DEF LiveChildren
    <3>2. a \in 1 .. acts
      BY <1>1, <2>3, <3>1
    <3> QED BY <2>2, <2>3, <3>1, <3>2 DEF LiveChildren
  <2>4. ASSUME NEW a \in LiveChildren(p) PROVE a \in LiveChildren(p)'
    <3>1. a \in 1 .. acts /\ Live(a) /\ ParentOf(a) = p /\ a \notin A /\ a \in 1 .. acts'
      BY <1>7, <1>17, <2>4 DEF LiveChildren
    <3> QED BY <2>2, <3>1 DEF LiveChildren
  <2>5. \A a \in A : a \in LiveChildren(p)'
    BY <2>1 DEF LiveChildren
  <2> QED BY <2>3, <2>4, <2>5
<1>19. ASSUME NEW q, NEW b \in Awaited(q)
       PROVE  Unreported(b)' = Unreported(b) /\ barriers'[b] = barriers[b]
  <2>1. b \in 1 .. bars /\ b # J
    BY <1>12, <1>19 DEF Awaited
  <2> QED BY <1>7, <1>9, <1>11, <2>1
<1>20. barriers'[J].mode = mode
  BY <1>9
<1> QED BY <1>0, <1>10, <1>13, <1>14, <1>15, <1>16, <1>17, <1>18, <1>19, <1>20 DEF A, go

\* A parent that parks is held by its barrier alone, and every arm is started once.
LEMMA ForkKeepsThreads ==
    ASSUME WInv, NEW p \in Aids, NEW mode \in JoinMode, NEW n \in 0 .. MaxArms,
           Fork(p, mode, n)
    PROVE  Threads' /\ WaitForkCount'
<1> USE DEF WInv
<1> DEFINE A == ArmSlots(n)
           go == Continues(mode, n)
<1>1. /\ p \in 1 .. acts /\ cur_aid = p /\ p # 0 /\ ~finished
      /\ ready[p] = 0 /\ armed[p] = 0 /\ Awaited(p) = {} /\ activities[p].wait_fork = 0
      /\ Cardinality(Awaited(p)) = 0 /\ Continuations(p) = 1 /\ Thread(p)
      /\ ~activities[p].stopped /\ ~activities[p].reported
  BY RunsAlone DEF Fork, Threads
<1>2. /\ Awaited(p)' = IF go THEN {} ELSE {JoinSlot}
      /\ \A a \in A : Awaited(a)' = {}
      /\ \A q \in 1 .. acts : q # p /\ q \notin A =>
            Awaited(q)' = Awaited(q) /\ LiveChildren(q)' = LiveChildren(q)
  BY <1>1, ForkedWaits
<1>3. /\ \A a \in A : /\ activities'[a].wait_fork = 0
                      /\ ~activities'[a].busy /\ ~activities'[a].stopped
                      /\ ready'[a] = 1 /\ armed'[a] = 0
      /\ \A a \in Aids \ A :
            /\ activities'[a] = IF a = p /\ ~go THEN [activities[a] EXCEPT !.busy = TRUE]
                                                ELSE activities[a]
            /\ ready'[a] = ready[a] /\ armed'[a] = armed[a]
  BY ForkedAtRest
<1>4. /\ p \notin A /\ \A a : a \in 1 .. acts' => a \in 1 .. acts \/ a \in A
      /\ \A a \in A : a \in Aids /\ a \in NProc + 1 .. acts'
  BY ForkedSlots
<1>5. \A a \in A : ~activities'[a].reported
  BY ForkedArms
<1>6. cur_aid' = (IF go THEN p ELSE 0) /\ finished' = finished
  BY DEF Fork
<1> HIDE DEF A, go
<1>7. ASSUME NEW a \in A PROVE Thread(a)'
  <2>1. a # 0 /\ a # p
    BY <1>4, <1>7, ForkJoinAssumption
  <2>2. Awaited(a)' = {} /\ Cardinality(Awaited(a)') = 0
    BY <1>2, FS_EmptySet
  <2>3. Continuations(a)' = 1
    BY <1>3, <1>6, <2>1, <2>2 DEF Continuations
  <2> QED BY <1>3, <1>5, <2>2, <2>3 DEF Thread
<1>8. ASSUME NEW a \in 1 .. acts, a \notin A, a # p PROVE Thread(a)'
  <2>1. Thread(a) /\ a # 0 /\ a \in Aids
    BY <1>1, Parts DEF Threads
  <2>2. activities'[a] = activities[a] /\ ready'[a] = ready[a] /\ armed'[a] = armed[a]
    BY <1>3, <1>8, <2>1
  <2> QED BY <1>1, <1>2, <1>6, <1>8, <2>1, <2>2, ThreadAlone
<1>9. Thread(p)'
  <2>1. ready'[p] = ready[p] /\ armed'[p] = armed[p]
    BY <1>3, <1>4
  <2>2. CASE go
    <3>1. activities'[p] = activities[p]
      BY <1>3, <1>4, <2>2
    <3> QED BY <1>1, <1>2, <1>6, <2>1, <2>2, <3>1, ThreadAlone
  <2>3. CASE ~go
    <3>1. activities'[p] = [activities[p] EXCEPT !.busy = TRUE]
      BY <1>3, <1>4, <2>3
    <3>2. /\ activities'[p].busy /\ activities'[p].wait_fork = 0
          /\ activities'[p].is_child = activities[p].is_child
          /\ activities'[p].reported = activities[p].reported
          /\ activities'[p].stopped = activities[p].stopped
          /\ activities'[p].dead = activities[p].dead
      BY <1>1, <3>1, Parts DEF Activity
    <3>3. Cardinality(Awaited(p)') = 1
      <4>1. Awaited(p)' = {JoinSlot}
        BY <1>2, <2>3
      <4> QED BY <4>1, FS_Singleton
    <3>4. Continuations(p)' = 1
      BY <1>1, <1>6, <2>1, <2>3, <3>2, <3>3 DEF Continuations
    <3> QED BY <1>1, <3>2, <3>4, ThreadKept
  <2> QED BY <2>2, <2>3
<1>10. ASSUME NEW q \in 1 .. acts', activities'[q].wait_fork > 0
       PROVE  activities'[q].wait_fork = Cardinality(LiveChildren(q)')
  <2>1. q \notin A /\ q \in 1 .. acts
    BY <1>3, <1>4, <1>10
  <2>2. q # p
    <3>1. activities'[p].wait_fork = 0
      BY <1>1, <1>3, <1>4, Parts DEF Activity
    <3> QED BY <1>10, <3>1
  <2>3. activities'[q] = activities[q]
    BY <1>3, <2>1, <2>2, Parts
  <2> QED BY <1>2, <1>10, <2>1, <2>2, <2>3 DEF WaitForkCount
<1> QED BY <1>4, <1>7, <1>8, <1>9, <1>10 DEF Threads, WaitForkCount

-----------------------------------------------------------------------------
(* An arm completes.                                                       *)

\* A completing arm leaves its barrier, which fires for the first arm of a join_any
\* and for the last of a join, and never empties without having fired.
LEMMA CompletedBarriers ==
    ASSUME IInv, NEW c \in Aids, Complete(c), NEW b, b = activities[c].join_ref,
           NEW p, p = barriers[b].parent, NEW left, left = barriers[b].outstanding - 1,
           SameArmsBut(c)
    PROVE  /\ b \in 1 .. bars /\ bars' = bars /\ c \in Unreported(b)
           /\ barriers'[b].parent = p
           /\ barriers'[b].fired = (barriers[b].fired \/ Fires(b, left))
           /\ Unreported(b)' = Unreported(b) \ {c}
           /\ \A d : d # b => Unreported(d)' = Unreported(d) /\ c \notin Unreported(d)
           /\ \A d \in 1 .. bars : /\ d # b => barriers'[d] = barriers[d]
                                   /\ barriers'[d].mode = barriers[d].mode
                                   /\ ~barriers[d].fired => barriers[d].mode \in {"All", "Any"}
           /\ ~barriers[b].fired =>
                 (Fires(b, left) <=> barriers[b].mode = "Any" \/ Unreported(b) = {c})
<1>1. /\ c \in 1 .. acts /\ ~finished /\ activities[c].is_child
      /\ ~activities[c].dead /\ ~activities[c].reported
      /\ b \in 1 .. bars /\ p \in BaseAids /\ c \in Unreported(b)
  BY CompletingArm DEF Complete
<1>2. /\ barriers' = [barriers EXCEPT ![b].outstanding = left,
                                      ![b].fired = @ \/ Fires(b, left)]
      /\ acts' = acts /\ bars' = bars
  BY DEF Complete
<1>3. /\ 1 .. bars \subseteq Bars /\ 1 .. acts \subseteq Aids
      /\ barriers \in [Bars -> Barrier]
  BY ForkJoinAssumption DEF IInv, TypeOK, Bars, Aids
<1>4. Fires(b, left) \in BOOLEAN
  BY DEF Fires
<1>5. /\ barriers'[b] = [barriers[b] EXCEPT !.outstanding = left,
                                            !.fired = @ \/ Fires(b, left)]
      /\ \A d \in 1 .. bars : d # b => barriers'[d] = barriers[d]
  BY <1>1, <1>2, <1>3
<1>6. /\ barriers'[b].parent = p /\ barriers'[b].mode = barriers[b].mode
      /\ barriers'[b].fired = (barriers[b].fired \/ Fires(b, left))
  <2>1. barriers[b] \in Barrier
    BY <1>1, <1>3
  <2> QED BY <1>5, <2>1 DEF Barrier
<1>7. left = 0 <=> Unreported(b) = {c}
  <2>1. barriers[b].outstanding = Cardinality(Unreported(b))
    BY <1>1 DEF IInv, BarrierCount
  <2>2. IsFiniteSet(Unreported(b))
    BY UnreportedFinite DEF IInv
  <2>3. IsFiniteSet(Unreported(b) \ {c})
        /\ Cardinality(Unreported(b) \ {c}) = Cardinality(Unreported(b)) - 1
    BY <1>1, <2>2, FS_RemoveElement
  <2>4. left = 0 <=> Unreported(b) \ {c} = {}
    BY <2>1, <2>3, FS_EmptySet
  <2> QED BY <1>1, <2>4
<1>8. Unreported(b)' = Unreported(b) \ {c}
  BY <1>1, <1>2, <1>3 DEF Unreported, SameArmsBut
<1>9. \A d : d # b => Unreported(d)' = Unreported(d) /\ c \notin Unreported(d)
  BY <1>1, <1>2, <1>3 DEF Unreported, SameArmsBut
<1>10. ASSUME NEW d \in 1 .. bars, ~barriers[d].fired
       PROVE  barriers[d].mode \in {"All", "Any"}
  <2>1. barriers[d].mode \in JoinMode
    BY <1>3 DEF Barrier
  <2>2. barriers[d].mode # "None"
    BY <1>1, <1>10 DEF IInv, BarrierParents
  <2> QED BY <2>1, <2>2 DEF JoinMode
<1>11. ~barriers[b].fired =>
          (Fires(b, left) <=> barriers[b].mode = "Any" \/ Unreported(b) = {c})
  BY <1>1, <1>7, <1>10 DEF Fires
<1> QED BY <1>1, <1>2, <1>5, <1>6, <1>8, <1>9, <1>10, <1>11

\* So it leaves its parent's children, and its barrier holds the parent until it fires.
LEMMA CompletedWaits ==
    ASSUME IInv, NEW c \in Aids, Complete(c), NEW b, b = activities[c].join_ref,
           NEW p, p = barriers[b].parent, NEW left, left = barriers[b].outstanding - 1,
           SameArmsBut(c)
    PROVE  /\ Awaited(p)' = IF Fires(b, left) THEN Awaited(p) \ {b} ELSE Awaited(p)
           /\ Fires(b, left) => b \in Awaited(p)
           /\ c \in LiveChildren(p) /\ LiveChildren(p)' = LiveChildren(p) \ {c}
           /\ \A q : q # p => /\ Awaited(q)' = Awaited(q)
                              /\ LiveChildren(q)' = LiveChildren(q)
<1>1. /\ c \in 1 .. acts /\ activities[c].is_child /\ acts' = acts
      /\ ~activities[c].dead /\ ~activities[c].reported
      /\ 1 .. acts \subseteq Aids
  BY CompletingArm, Parts DEF Complete
<1>2. /\ b \in 1 .. bars /\ bars' = bars /\ c \in Unreported(b)
      /\ barriers'[b].parent = p
      /\ barriers'[b].fired = (barriers[b].fired \/ Fires(b, left))
      /\ Unreported(b)' = Unreported(b) \ {c}
      /\ \A d : d # b => Unreported(d)' = Unreported(d) /\ c \notin Unreported(d)
      /\ \A d \in 1 .. bars : d # b => barriers'[d] = barriers[d]
      /\ ~barriers[b].fired =>
            (Fires(b, left) <=> barriers[b].mode = "Any" \/ Unreported(b) = {c})
  BY CompletedBarriers
<1>3. ASSUME NEW q, NEW d, d # b PROVE d \in Awaited(q)' <=> d \in Awaited(q)
  <2>1. d \in 1 .. bars => barriers'[d] = barriers[d]
    BY <1>2, <1>3
  <2>2. Unreported(d)' = Unreported(d)
    BY <1>2, <1>3
  <2> QED BY <1>2, <2>1, <2>2 DEF Awaited
<1>4. ASSUME NEW q, q # p PROVE Awaited(q)' = Awaited(q)
  <2>1. b \notin Awaited(q) /\ b \notin Awaited(q)'
    BY <1>2, <1>4 DEF Awaited
  <2> QED BY <1>3, <2>1
<1>5. b \in Awaited(p) <=> ~barriers[b].fired
  BY <1>2 DEF Awaited
<1>6. b \in Awaited(p)' <=> ~barriers[b].fired /\ ~Fires(b, left)
  <2>1. ~barriers[b].fired /\ ~Fires(b, left) => Unreported(b)' # {}
    BY <1>2
  <2> QED BY <1>2, <2>1 DEF Awaited
<1>7. Fires(b, left) => ~barriers[b].fired
  BY DEF Fires
<1>8. Fires(b, left) \in BOOLEAN
  BY DEF Fires
<1>9. Awaited(p)' = IF Fires(b, left) THEN Awaited(p) \ {b} ELSE Awaited(p)
  <2>1. ASSUME NEW d
        PROVE  d \in Awaited(p)' <=> d \in Awaited(p) /\ ~(Fires(b, left) /\ d = b)
    <3>1. CASE d # b
      BY <1>3, <3>1
    <3>2. CASE d = b
      BY <1>5, <1>6, <3>2
    <3> QED BY <3>1, <3>2
  <2> QED BY <1>8, <2>1
<1>10. \A a \in 1 .. acts : /\ Live(a)' <=> Live(a) /\ a # c
                            /\ a \in Arms => ParentOf(a)' = ParentOf(a)
  <2>1. ASSUME NEW a \in 1 .. acts PROVE Live(a)' <=> Live(a) /\ a # c
    BY <1>1 DEF Live, SameArmsBut
  <2>2. ASSUME NEW a \in 1 .. acts, a \in Arms PROVE ParentOf(a)' = ParentOf(a)
    <3>1. activities[a].join_ref \in 1 .. bars /\ activities'[a].join_ref = activities[a].join_ref
      BY <1>1, <2>2 DEF IInv, SlotKinds, SameArmsBut
    <3>2. barriers'[activities[a].join_ref].parent = barriers[activities[a].join_ref].parent
      BY <1>2, <3>1
    <3> QED BY <3>1, <3>2 DEF ParentOf
  <2> QED BY <2>1, <2>2
<1>11. \A a \in 1 .. acts : Live(a) => a \in Arms
  BY <1>1, ChildIsArm DEF Live
<1>12. ASSUME NEW q PROVE LiveChildren(q)' = LiveChildren(q) \ {c}
  BY <1>1, <1>10, <1>11 DEF LiveChildren
<1>13. Live(c) /\ ParentOf(c) = p
  BY <1>1 DEF Live, ParentOf
<1>14. c \in LiveChildren(p) /\ \A q : q # p => c \notin LiveChildren(q)
  BY <1>1, <1>13 DEF LiveChildren
<1> QED BY <1>4, <1>5, <1>7, <1>9, <1>12, <1>14

\* A completing arm passes the thread on: to its parent if the barrier fires, if its
\* `wait fork` was waiting for this one child, and otherwise to nobody.
LEMMA CompleteKeepsThreads ==
    ASSUME WInv, NEW c \in Aids, Complete(c)
    PROVE  Threads' /\ WaitForkCount'
<1> USE DEF WInv
<1>0. PICK b : b = activities[c].join_ref
  OBVIOUS
<1>1. PICK p : p = barriers[b].parent
  OBVIOUS
<1>2. PICK left : left = barriers[b].outstanding - 1
  OBVIOUS
<1>3. PICK wf : wf = activities[p].wait_fork
  OBVIOUS
<1>4. PICK fires \in BOOLEAN : fires = Fires(b, left)
  BY DEF Fires
<1>5. /\ activities' = [activities EXCEPT ![c].reported = TRUE, ![c].busy = FALSE,
                                          ![p].wait_fork = WaitForkLeft(wf)]
      /\ ready' = [ready EXCEPT ![p] = @ + (IF fires THEN 1 ELSE 0)
                                         + (IF wf = 1 THEN 1 ELSE 0)]
      /\ cur_aid' = 0
      /\ UNCHANGED <<acts, armed, finished>>
  BY <1>0, <1>1, <1>2, <1>3, <1>4 DEF Complete
<1>6. /\ c \in 1 .. acts /\ cur_aid = c /\ c # 0 /\ ~finished
      /\ ready[c] = 0 /\ armed[c] = 0 /\ Awaited(c) = {} /\ activities[c].wait_fork = 0
      /\ Cardinality(Awaited(c)) = 0 /\ ~activities[c].stopped
  BY RunsAlone DEF Complete
<1>7. p \in BaseAids /\ c \in Arms
  BY <1>0, <1>1, CompletingArm
<1>8. p \in Aids /\ p \in 1 .. acts /\ p # c
  BY <1>7, BaseIsNoArm
<1>9. /\ activities'[c] = [activities[c] EXCEPT !.reported = TRUE, !.busy = FALSE]
      /\ activities'[p] = [activities[p] EXCEPT !.wait_fork = WaitForkLeft(wf)]
      /\ \A a \in Aids : a # c /\ a # p => activities'[a] = activities[a]
  BY <1>5, <1>8 DEF IInv, TypeOK
<1>10. wf \in Nat /\ WaitForkLeft(wf) = (IF wf > 0 THEN wf - 1 ELSE 0)
  BY <1>3, <1>8, Parts DEF WaitForkLeft
<1>11. /\ activities'[c].is_child = activities[c].is_child
       /\ activities'[c].join_ref = activities[c].join_ref
       /\ activities'[c].dead = activities[c].dead
       /\ activities'[c].stopped = activities[c].stopped
       /\ activities'[c].wait_fork = activities[c].wait_fork
       /\ activities'[c].reported /\ ~activities'[c].busy
  BY <1>9, Parts, <1>6 DEF Activity
<1>12. /\ activities'[p].is_child = activities[p].is_child
       /\ activities'[p].join_ref = activities[p].join_ref
       /\ activities'[p].dead = activities[p].dead
       /\ activities'[p].stopped = activities[p].stopped
       /\ activities'[p].reported = activities[p].reported
       /\ activities'[p].busy = activities[p].busy
       /\ activities'[p].wait_fork = WaitForkLeft(wf)
  BY <1>8, <1>9, Parts DEF Activity
<1>13. SameArmsBut(c)
  BY <1>9, <1>11, <1>12 DEF SameArmsBut
<1>14. /\ Awaited(p)' = IF fires THEN Awaited(p) \ {b} ELSE Awaited(p)
       /\ fires => b \in Awaited(p)
       /\ c \in LiveChildren(p) /\ LiveChildren(p)' = LiveChildren(p) \ {c}
       /\ \A q : q # p => Awaited(q)' = Awaited(q) /\ LiveChildren(q)' = LiveChildren(q)
  BY <1>0, <1>1, <1>2, <1>4, <1>13, CompletedWaits
<1>15. /\ ready'[p] = ready[p] + (IF fires THEN 1 ELSE 0) + (IF wf = 1 THEN 1 ELSE 0)
       /\ \A a \in Aids : a # p => ready'[a] = ready[a]
  BY <1>5, <1>8 DEF IInv, TypeOK
<1>16. Thread(c)'
  <2>1. Awaited(c)' = {} /\ Cardinality(Awaited(c)') = 0
    BY <1>6, <1>8, <1>14, FS_EmptySet
  <2>2. Continuations(c)' = 0
    BY <1>5, <1>6, <1>8, <1>11, <1>15, <2>1 DEF Continuations
  <2> QED BY <1>5, <1>6, <1>11, <2>1, <2>2 DEF Thread, Live
<1>17. Thread(p)'
  <2>1. Thread(p) /\ p # 0
    BY <1>6, <1>8, Parts DEF Threads
  <2>2. ready[p] \in Nat /\ armed[p] \in Nat /\ Cardinality(Awaited(p)) \in Nat
    BY <1>8, Parts
  <2>3. Cardinality(Awaited(p)') = Cardinality(Awaited(p)) - (IF fires THEN 1 ELSE 0)
    <3>1. CASE fires
      <4>1. Awaited(p)' = Awaited(p) \ {b} /\ b \in Awaited(p)
        BY <1>14, <3>1
      <4>2. Cardinality(Awaited(p) \ {b}) = Cardinality(Awaited(p)) - 1
        BY <4>1, AwaitedFinite, FS_RemoveElement DEF IInv
      <4> QED BY <3>1, <4>1, <4>2
    <3>2. CASE ~fires
      <4>1. Awaited(p)' = Awaited(p)
        BY <1>14, <3>2
      <4> QED BY <2>2, <3>2, <4>1
    <3> QED BY <3>1, <3>2
  <2>4. Continuations(p) = ready[p] + armed[p] + Cardinality(Awaited(p))
                             + (IF wf > 0 THEN 1 ELSE 0)
    BY <1>3, <1>6, <1>8, <2>2 DEF Continuations
  <2>5. Continuations(p)' = ready'[p] + armed[p] + Cardinality(Awaited(p)')
                              + (IF WaitForkLeft(wf) > 0 THEN 1 ELSE 0)
    <3>1. Cardinality(Awaited(p)') \in Int /\ ready'[p] \in Int
      BY <1>15, <2>2, <2>3
    <3> QED BY <1>5, <1>12, <2>1, <2>2, <3>1 DEF Continuations
  <2>6. Continuations(p)' = Continuations(p)
    <3>1. CASE fires
      BY <1>10, <1>15, <2>2, <2>3, <2>4, <2>5, <3>1
    <3>2. CASE ~fires
      BY <1>10, <1>15, <2>2, <2>3, <2>4, <2>5, <3>2
    <3> QED BY <3>1, <3>2
  <2>7. ~activities[p].busy => /\ Awaited(p)' = Awaited(p)
                               /\ WaitForkLeft(wf) = activities[p].wait_fork
    BY <1>3, <1>10, <1>14, <2>1 DEF Thread
  <2> QED BY <1>5, <1>12, <2>1, <2>6, <2>7, ThreadKept
<1>18. ASSUME NEW a \in 1 .. acts, a # c, a # p PROVE Thread(a)'
  <2>1. Thread(a) /\ a # 0 /\ a \in Aids
    BY <1>6, Parts DEF Threads
  <2> QED BY <1>5, <1>6, <1>9, <1>14, <1>15, <1>18, <2>1, ThreadAlone
<1>19. ASSUME NEW q \in 1 .. acts, activities'[q].wait_fork > 0
       PROVE  activities'[q].wait_fork = Cardinality(LiveChildren(q)')
  <2>1. CASE q = p
    <3>1. wf > 0 /\ activities'[p].wait_fork = wf - 1
      BY <1>10, <1>12, <1>19, <2>1
    <3>2. wf = Cardinality(LiveChildren(p))
      BY <1>3, <1>8, <3>1 DEF WaitForkCount
    <3>3. Cardinality(LiveChildren(p) \ {c}) = Cardinality(LiveChildren(p)) - 1
      BY <1>14, AwaitedFinite, FS_RemoveElement DEF IInv
    <3> QED BY <1>14, <2>1, <3>1, <3>2, <3>3
  <2>2. CASE q = c
    BY <1>6, <1>11, <1>19, <2>2
  <2>3. CASE q # p /\ q # c
    <3>1. activities'[q] = activities[q]
      BY <1>9, <2>3, Parts
    <3> QED BY <1>14, <1>19, <2>3, <3>1 DEF WaitForkCount
  <2> QED BY <2>1, <2>2, <2>3
<1> QED BY <1>5, <1>16, <1>17, <1>18, <1>19 DEF Threads, WaitForkCount

-----------------------------------------------------------------------------
(* The results.                                                            *)

\* The threads and the counts are right at the start.
LEMMA ThreadsInit == Init => WInv
<1> SUFFICES ASSUME Init PROVE WInv
  OBVIOUS
<1>1. IInv
  BY InitInv
<1>2. \A a \in 1 .. acts : a \in Aids
  BY <1>1, Parts
<1>3. \A a \in 1 .. acts : /\ activities[a] = BaseActivity(a - 1)
                           /\ ready[a] = 0 /\ armed[a] = 0 /\ cur_aid # a /\ bars = 0
  BY <1>1, <1>2, Parts DEF Init
<1>4. ASSUME NEW a \in 1 .. acts PROVE Thread(a) /\ activities[a].wait_fork = 0
  <2>1. /\ activities[a].wait_fork = 0 /\ ~activities[a].is_child /\ ~activities[a].busy
        /\ ~activities[a].stopped /\ ~activities[a].reported
    <3>1. activities[a] = BaseActivity(a - 1)
      BY <1>3
    <3>2. /\ BaseActivity(a - 1).wait_fork = 0 /\ BaseActivity(a - 1).is_child = FALSE
          /\ BaseActivity(a - 1).busy = FALSE /\ BaseActivity(a - 1).stopped = FALSE
          /\ BaseActivity(a - 1).reported = FALSE
      BY DEF BaseActivity
    <3> QED BY <3>1, <3>2
  <2>2. Awaited(a) = {}
    BY <1>3 DEF Awaited
  <2>3. Continuations(a) = 0
    BY <1>3, <2>1, <2>2, FS_EmptySet DEF Continuations
  <2> QED BY <1>3, <2>1, <2>2, <2>3 DEF Thread, Live
<1> QED BY <1>1, <1>4 DEF WInv, Threads, WaitForkCount

\* Every step keeps them.
LEMMA ThreadsStep == WInv /\ [Next]_vars => WInv'
<1> SUFFICES ASSUME WInv, [Next]_vars PROVE WInv'
  OBVIOUS
<1>1. IInv'
  BY StepInv DEF WInv
<1>2. CASE UNCHANGED vars \/ MatureDeferred \/ \E a \in Aids : Defer(a) \/ DeferMarker(a)
  <2>1. UNCHANGED <<activities, acts, joins, cur_aid, queues, finished>>
    BY <1>2 DEF vars, MatureDeferred, Defer, DeferMarker, slots, joins, queues
  <2> QED BY <1>1, <2>1, ReportsKeepThreads DEF WInv
<1>3. ASSUME NEW p \in BaseAids, Trigger(p) PROVE WInv'
  BY <1>1, <1>3, TriggerKeepsThreads DEF WInv
<1>4. ASSUME NEW a \in Aids, Wake(a) \/ Dispatch(a) PROVE WInv'
  BY <1>1, <1>4, WakeKeepsThreads, DispatchKeepsThreads DEF WInv
<1>5. ASSUME NEW a \in Aids, Suspend(a) \/ Return(a) \/ Finish(a) PROVE WInv'
  BY <1>1, <1>5, SuspendKeepsThreads, ReturnKeepsThreads, FinishKeepsThreads DEF WInv
<1>6. ASSUME NEW a \in Aids, ForkSome(a) PROVE WInv'
  <2>1. PICK mode \in JoinMode, n \in 0 .. MaxArms :
            Fork(a, mode, n) \/ ForkRefused(a, mode, n)
    BY <1>6 DEF ForkSome
  <2> QED BY <1>1, <2>1, ForkKeepsThreads, ForkRefusedKeepsThreads DEF WInv
<1>7. ASSUME NEW a \in Aids, WaitFork(a) \/ DisableFork(a) \/ Complete(a) PROVE WInv'
  BY <1>1, <1>7, WaitForkKeepsThreads, DisableForkKeepsThreads, CompleteKeepsThreads DEF WInv
<1> QED BY <1>2, <1>3, <1>4, <1>5, <1>6, <1>7 DEF Next, Ended

\* The inductive invariant of threads.
LEMMA ThreadsHold == Spec => []WInv
<1> QED BY ThreadsInit, ThreadsStep, PTL DEF Spec

\* A process is one thread: what suspends a body leaves exactly one thing that will
\* resume it, for any number of processes, arms and re-issues (cur_aid, run_body).
THEOREM OneThreadEach == Spec => []OneContinuation
<1>1. WInv => OneContinuation
  BY DEF WInv, Threads, Thread, OneContinuation
<1> QED BY <1>1, ThreadsHold, PTL

\* A parked `wait fork` counts exactly the children that can still report, whatever
\* else completes, is killed or re-uses a slot (exec_wait_fork).
THEOREM WaitForkExact == Spec => []WaitForkCount
<1>1. WInv => WaitForkCount
  BY DEF WInv
<1> QED BY <1>1, ThreadsHold, PTL

-----------------------------------------------------------------------------
(* The arena implements the promise.                                       *)

Kids  == [p \in BaseAids |-> LiveChildren(p)]
Holds == [p \in BaseAids |-> Holding(p)]

\* The barrier a parent waits for, of the one it waits for.
TheOne(S) == CHOOSE x \in S : TRUE

\* What holds a process stays the same when its barrier and its count do.
LEMMA HoldingKept ==
    ASSUME NEW p, Awaited(p)' = Awaited(p),
           activities'[p].wait_fork = activities[p].wait_fork,
           activities[p].wait_fork > 0 => LiveChildren(p)' = LiveChildren(p),
           \A b \in Awaited(p) : /\ Unreported(b)' = Unreported(b)
                                 /\ barriers'[b].mode = barriers[b].mode
    PROVE  Holding(p)' = Holding(p)
<1>1. CASE activities[p].wait_fork > 0
  BY <1>1 DEF Holding
<1>2. CASE ~(activities[p].wait_fork > 0) /\ Awaited(p) = {}
  BY <1>2 DEF Holding
<1>3. CASE ~(activities[p].wait_fork > 0) /\ Awaited(p) # {}
  <2>1. PICK b : b = TheOne(Awaited(p))
    OBVIOUS
  <2>2. b \in Awaited(p)
    BY <1>3, <2>1 DEF TheOne
  <2>3. Holding(p) = [why |-> barriers[b].mode, on |-> Unreported(b)]
    BY <1>3, <2>1 DEF Holding, TheOne
  <2>4. Holding(p)' = [why |-> barriers'[b].mode, on |-> Unreported(b)']
    <3>1. (CHOOSE x \in Awaited(p)' : TRUE) = b
      BY <2>1 DEF TheOne
    <3> QED BY <1>3, <3>1 DEF Holding
  <2> QED BY <2>2, <2>3, <2>4
<1> QED BY <1>1, <1>2, <1>3

\* A step that keeps every process's children and holds is none of the promise's.
LEMMA PromiseStutters ==
    ASSUME \A p \in BaseAids : /\ LiveChildren(p)' = LiveChildren(p)
                               /\ Holding(p)' = Holding(p)
    PROVE  UNCHANGED <<Kids, Holds>>
BY DEF Kids, Holds

\* A running process is not held.
LEMMA RunningIsFree ==
    ASSUME IInv, Threads, NEW p \in Aids, Running(p)
    PROVE  Holding(p) = Promise!Free
<1>1. activities[p].wait_fork = 0 /\ Awaited(p) = {}
  BY RunsAlone
<1> QED BY <1>1 DEF Holding, Promise!Free

\* A step that touches no barrier, no `wait fork` and no arm stutters.
LEMMA PromiseKept ==
    ASSUME IInv, UNCHANGED <<acts, joins>>, SameArms,
           \A a \in Aids : /\ activities'[a].dead = activities[a].dead
                           /\ activities'[a].wait_fork = activities[a].wait_fork
    PROVE  UNCHANGED <<Kids, Holds>>
<1>1. ASSUME NEW p \in BaseAids
      PROVE  LiveChildren(p)' = LiveChildren(p) /\ Holding(p)' = Holding(p)
  <2>1. p \in Aids
    BY BaseIsNoArm
  <2>2. /\ Awaited(p)' = Awaited(p) /\ LiveChildren(p)' = LiveChildren(p)
        /\ \A b : Unreported(b)' = Unreported(b)
    BY SameAwaited, SameChildren
  <2> QED BY <2>1, <2>2, HoldingKept DEF joins
<1> QED BY <1>1, PromiseStutters

\* A fork is a Spawn of its arms, on which a parent that parks is held.
LEMMA ForkSpawns ==
    ASSUME WInv, NEW p \in Aids, NEW mode \in JoinMode, NEW n \in 0 .. MaxArms,
           Fork(p, mode, n)
    PROVE  [Promise!Next]_<<Kids, Holds>>
<1> USE DEF WInv
<1> n \in Nat
  BY ForkJoinAssumption
<1>0. PICK A : A = ArmSlots(n)
  OBVIOUS
<1>1. /\ p \in 1 .. acts /\ Awaited(p) = {} /\ activities[p].wait_fork = 0
      /\ Holding(p) = Promise!Free
  BY RunsAlone, RunningIsFree DEF Fork
<1>2. PICK J : J = JoinSlot
  OBVIOUS
<1>3. /\ Awaited(p)' = IF Continues(mode, n) THEN {} ELSE {J}
      /\ \A q \in 1 .. acts : q # p /\ q \notin A =>
            Awaited(q)' = Awaited(q) /\ LiveChildren(q)' = LiveChildren(q)
      /\ LiveChildren(p)' = LiveChildren(p) \cup A
      /\ \A a \in A : ~(a \in 1 .. acts /\ Live(a))
      /\ Unreported(J)' = A
      /\ barriers'[J].mode = mode
      /\ \A q, b : b \in Awaited(q) => /\ Unreported(b)' = Unreported(b)
                                      /\ barriers'[b] = barriers[b]
  BY <1>0, <1>1, <1>2, ForkedWaits
<1>4. /\ p \in BaseAids /\ p \notin A
      /\ \A a \in A : a \in Aids /\ a \in NProc + 1 .. acts'
  BY <1>0, ForkedSlots
<1>5. \A a \in Aids \ A : activities'[a].wait_fork = activities[a].wait_fork
  <2>1. \A a \in Aids \ A :
            activities'[a] = IF a = p /\ ~Continues(mode, n)
                             THEN [activities[a] EXCEPT !.busy = TRUE] ELSE activities[a]
    BY <1>0, ForkedAtRest
  <2>2. \A a \in Aids : activities[a] \in Activity
    BY DEF IInv, TypeOK
  <2> QED BY <2>1, <2>2 DEF Activity
<1>6. ASSUME NEW q \in BaseAids, q # p
      PROVE  LiveChildren(q)' = LiveChildren(q) /\ Holding(q)' = Holding(q)
  <2>1. q \in Aids /\ q \in 1 .. acts
    BY BaseIsNoArm
  <2>2. q \notin A
    BY <1>4, ForkJoinAssumption DEF BaseAids
  <2> QED BY <1>3, <1>5, <1>6, <2>1, <2>2, HoldingKept
<1>7. activities'[p].wait_fork = 0
  BY <1>1, <1>4, <1>5
<1>8. Holding(p)' = IF Continues(mode, n) THEN Promise!Free ELSE [why |-> mode, on |-> A]
  <2>1. CASE Continues(mode, n)
    BY <1>3, <1>7, <2>1 DEF Holding, Promise!Free
  <2>2. CASE ~Continues(mode, n)
    <3>1. Awaited(p)' = {J} /\ Awaited(p)' # {}
      BY <1>3, <2>2
    <3>2. (CHOOSE x \in Awaited(p)' : TRUE) = J
      BY <3>1
    <3>3. Holding(p)' = [why |-> barriers'[J].mode, on |-> Unreported(J)']
      BY <1>7, <3>1, <3>2 DEF Holding
    <3> QED BY <1>3, <2>2, <3>3
  <2> QED BY <2>1, <2>2
<1>9. Continues(mode, n) \/ mode \in {"All", "Any"}
  BY DEF Continues, JoinMode
<1>10. A = {} => Continues(mode, n)
  <2>1. Cardinality(A) = n
    BY <1>0, ArmSlotsCount DEF IInv, RecycledIsGone
  <2> QED BY <2>1, FS_EmptySet DEF Continues
<1>11. CASE A = {}
  <2>1. \A q \in BaseAids : LiveChildren(q)' = LiveChildren(q) /\ Holding(q)' = Holding(q)
    BY <1>1, <1>3, <1>6, <1>8, <1>10, <1>11
  <2> QED BY <2>1, PromiseStutters
<1>12. CASE A # {}
  <2>1. A \cap LiveChildren(p) = {}
    BY <1>3 DEF LiveChildren
  <2>2. A \subseteq Aids \ UNION {LiveChildren(q) : q \in BaseAids}
    BY <1>3, <1>4 DEF LiveChildren
  <2>3. /\ Kids' = [Kids EXCEPT ![p] = @ \cup A]
        /\ Kids'[p] \ Kids[p] = A
        /\ \A q \in BaseAids : Kids[q] = LiveChildren(q)
    <3>1. \A q \in BaseAids : Kids[q] = LiveChildren(q) /\ Kids'[q] = LiveChildren(q)'
      BY DEF Kids
    <3>2. Kids'[p] \ Kids[p] = A
      BY <1>3, <1>4, <2>1, <3>1
    <3>3. \A q \in BaseAids : Kids'[q] = IF q = p THEN Kids[p] \cup A ELSE Kids[q]
      BY <1>3, <1>6, <3>1
    <3>4. Kids' = [q \in BaseAids |-> Kids'[q]] /\ Kids = [q \in BaseAids |-> Kids[q]]
      BY DEF Kids
    <3> HIDE DEF Kids
    <3> QED BY <1>4, <3>1, <3>2, <3>3, <3>4
  <2>4. /\ Holds[p] = Promise!Free
        /\ Holds' = [Holds EXCEPT ![p] = IF Continues(mode, n) THEN Promise!Free
                                         ELSE [why |-> mode, on |-> A]]
    <3>1. \A q \in BaseAids : Holds[q] = Holding(q) /\ Holds'[q] = Holding(q)'
      BY DEF Holds
    <3>2. \A q \in BaseAids : Holds'[q] = IF q = p THEN (IF Continues(mode, n) THEN Promise!Free
                                                         ELSE [why |-> mode, on |-> A])
                                          ELSE Holds[q]
      BY <1>6, <1>8, <3>1
    <3>3. Holds' = [q \in BaseAids |-> Holds'[q]] /\ Holds = [q \in BaseAids |-> Holds[q]]
      BY DEF Holds
    <3> HIDE DEF Holds
    <3> QED BY <1>1, <1>4, <3>1, <3>2, <3>3
  <2>5. Holds' = Holds \/ \E m \in {"All", "Any"} :
                              Holds' = [Holds EXCEPT ![p] = [why |-> m, on |-> A]]
    <3>1. CASE Continues(mode, n)
      <4>1. Holds = [q \in BaseAids |-> Holds[q]]
        BY DEF Holds
      <4> HIDE DEF Holds
      <4> QED BY <1>4, <2>4, <3>1, <4>1
    <3>2. CASE ~Continues(mode, n)
      BY <1>9, <2>4, <3>2
    <3> QED BY <3>1, <3>2
  <2>6. Promise!Started(p) = A
    BY <2>3 DEF Promise!Started, Kids
  <2>7. A \subseteq Promise!Idle
    <3>1. Promise!Idle = Aids \ UNION {LiveChildren(q) : q \in BaseAids}
      BY DEF Promise!Idle
    <3> QED BY <2>2, <3>1
  <2>8. Promise!Spawn(p)
    BY <1>12, <2>3, <2>4, <2>5, <2>6, <2>7 DEF Promise!Spawn, Kids, Holds
  <2> QED BY <1>4, <2>8 DEF Promise!Next
<1> QED BY <1>11, <1>12

\* A parked `wait fork` is a Wait on the children.
LEMMA WaitForkWaits ==
    ASSUME WInv, NEW p \in Aids, WaitFork(p)
    PROVE  [Promise!Next]_<<Kids, Holds>>
<1> USE DEF WInv
<1> DEFINE w == Cardinality(LiveChildren(p))
<1>1. /\ p \in 1 .. acts /\ ~finished /\ Awaited(p) = {}
      /\ Holding(p) = Promise!Free /\ LiveChildren(p) # {}
  BY RunsAlone, RunningIsFree DEF WaitFork
<1>2. p \in BaseAids
  BY <1>1, ArmsAreChildless, ChildIsArm
<1>3. /\ UNCHANGED <<acts, joins>>
      /\ activities' = [activities EXCEPT ![p].busy = TRUE, ![p].wait_fork = w]
  BY DEF WaitFork, slots
<1>4. w \in Nat /\ w > 0
  BY <1>1, AwaitedFinite DEF IInv
<1> HIDE DEF w
<1>5. /\ activities'[p] = [activities[p] EXCEPT !.busy = TRUE, !.wait_fork = w]
      /\ \A c \in Aids : c # p => activities'[c] = activities[c]
  BY <1>3 DEF IInv, TypeOK
<1>6. /\ activities'[p].wait_fork = w
      /\ activities'[p].dead = activities[p].dead
      /\ activities'[p].is_child = activities[p].is_child
      /\ activities'[p].join_ref = activities[p].join_ref
      /\ activities'[p].tie = activities[p].tie
      /\ activities'[p].reported = activities[p].reported
  BY <1>1, <1>5, Parts DEF Activity
<1>7. SameArms /\ \A c \in Aids : activities'[c].dead = activities[c].dead
  BY <1>5, <1>6 DEF SameArms
<1>8. \A q : /\ LiveChildren(q)' = LiveChildren(q) /\ Awaited(q)' = Awaited(q)
             /\ \A b : Unreported(b)' = Unreported(b)
  BY <1>3, <1>7, SameAwaited, SameChildren
<1>9. ASSUME NEW q \in BaseAids, q # p PROVE Holding(q)' = Holding(q)
  <2>1. activities'[q] = activities[q]
    BY <1>5, <1>9, BaseIsNoArm
  <2> QED BY <1>3, <1>8, <2>1, HoldingKept DEF joins
<1>10. Holding(p)' = [why |-> "Wait", on |-> LiveChildren(p)]
  BY <1>4, <1>6, <1>8 DEF Holding
<1>11. Kids' = Kids
  BY <1>8 DEF Kids
<1>12. /\ Kids[p] = LiveChildren(p) /\ Holds[p] = Promise!Free
       /\ Holds' = [Holds EXCEPT ![p] = [why |-> "Wait", on |-> LiveChildren(p)]]
  <2>1. \A q \in BaseAids : Holds[q] = Holding(q) /\ Holds'[q] = Holding(q)'
    BY DEF Holds
  <2>2. \A q \in BaseAids : Holds'[q] = IF q = p THEN [why |-> "Wait", on |-> LiveChildren(p)]
                                                 ELSE Holds[q]
    BY <1>9, <1>10, <2>1
  <2>3. Holds' = [q \in BaseAids |-> Holds'[q]] /\ Holds = [q \in BaseAids |-> Holds[q]]
    BY DEF Holds
  <2>4. Kids[p] = LiveChildren(p)
    BY <1>2 DEF Kids
  <2> HIDE DEF Holds
  <2> QED BY <1>1, <1>2, <2>1, <2>2, <2>3, <2>4
<1>13. Promise!Wait(p)
  BY <1>1, <1>11, <1>12 DEF Promise!Wait, Kids, Holds
<1> QED BY <1>2, <1>13 DEF Promise!Next

\* `disable fork` is a Disable; of an arm, which has no children, it is nothing.
LEMMA DisableForkDisables ==
    ASSUME WInv, NEW p \in Aids, DisableFork(p)
    PROVE  [Promise!Next]_<<Kids, Holds>>
<1> USE DEF WInv
<1>1. /\ p \in 1 .. acts /\ ~finished /\ Holding(p) = Promise!Free
  BY RunsAlone, RunningIsFree DEF DisableFork
<1>2. UNCHANGED <<acts, joins>>
  BY DEF DisableFork, slots
<1>3. /\ SameArms
      /\ \A a \in Aids : activities'[a].wait_fork = activities[a].wait_fork
      /\ LiveChildren(p)' = {}
      /\ \A q : q # p => LiveChildren(q)' = LiveChildren(q)
  BY KilledChildren
<1>4. \A q : Awaited(q)' = Awaited(q) /\ \A b : Unreported(b)' = Unreported(b)
  BY <1>2, <1>3, SameAwaited
<1>5. ASSUME NEW q \in BaseAids PROVE Holding(q)' = Holding(q)
  <2>1. q \in Aids
    BY BaseIsNoArm
  <2>2. activities[q].wait_fork > 0 => LiveChildren(q)' = LiveChildren(q)
    <3>1. activities[p].wait_fork = 0
      BY RunsAlone DEF DisableFork
    <3> QED BY <1>3, <3>1
  <2> QED BY <1>2, <1>3, <1>4, <2>1, <2>2, HoldingKept DEF joins
<1>6. CASE p \in BaseAids
  <2>1. Holds' = Holds /\ Holds[p] = Promise!Free
    BY <1>1, <1>5, <1>6 DEF Holds
  <2>2. Kids' = [Kids EXCEPT ![p] = {}]
    <3>1. \A q \in BaseAids : Kids'[q] = IF q = p THEN {} ELSE Kids[q]
      BY <1>3 DEF Kids
    <3>2. Kids' = [q \in BaseAids |-> Kids'[q]] /\ Kids = [q \in BaseAids |-> Kids[q]]
      BY DEF Kids
    <3> HIDE DEF Kids
    <3> QED BY <1>6, <3>1, <3>2
  <2>3. Promise!Disable(p)
    BY <2>1, <2>2 DEF Promise!Disable, Kids, Holds
  <2> QED BY <1>6, <2>3 DEF Promise!Next
<1>7. CASE p \notin BaseAids
  BY <1>3, <1>5, <1>7, PromiseStutters
<1> QED BY <1>6, <1>7

\* A refused fork starts and holds nobody.
LEMMA ForkRefusedStutters ==
    ASSUME WInv, NEW p \in Aids, NEW mode \in JoinMode, NEW n \in 0 .. MaxArms,
           ForkRefused(p, mode, n)
    PROVE  UNCHANGED <<Kids, Holds>>
<1> USE DEF WInv
<1> n \in Nat
  BY ForkJoinAssumption
<1>0. PICK J : J = JoinSlot
  OBVIOUS
<1>1. p \in 1 .. acts
  BY RunsAlone DEF ForkRefused
<1>2. TakesBarrier(J, p, mode, n, FALSE)
  <2>1. TakesBarrier(JoinSlot, p, mode, n, FALSE)
    BY <1>1, BarrierTaken DEF ForkRefused
  <2> QED BY <1>0, <2>1
<1>3. acts' = acts /\ activities' = [activities EXCEPT ![p].busy = TRUE]
  BY DEF ForkRefused, Yield, slots
<1>4. SameArms /\ \A a \in Aids : activities'[a].dead = activities[a].dead
  BY <1>3, BusyOnly DEF IInv
<1>5. \A a \in 1 .. acts : activities'[a].wait_fork = activities[a].wait_fork
  BY <1>1, <1>3, Parts DEF IInv, TypeOK, Activity
<1>6. /\ J \in Bars /\ \A b : b \in 1 .. bars' <=> b \in 1 .. bars \/ b = J
      /\ \A b \in 1 .. bars : b # J => barriers'[b] = barriers[b]
      /\ \A a \in 1 .. acts : activities[a].is_child /\ ~activities[a].reported
                                 => activities[a].join_ref # J
  <2>1. 1 .. bars \subseteq Bars /\ 1 .. acts \subseteq Aids
    BY ForkJoinAssumption DEF IInv, TypeOK, Bars, Aids
  <2>2. barriers \in [Bars -> Barrier]
    BY DEF IInv, TypeOK
  <2> QED BY <1>2, <2>1, <2>2 DEF TakesBarrier
<1>7. \A b : Unreported(b)' = Unreported(b)
  BY <1>3, <1>4, Parts DEF Unreported, SameArms
<1>8. Unreported(J) = {}
  BY <1>6 DEF Unreported
<1>9. ASSUME NEW q PROVE Awaited(q)' = Awaited(q)
  <2>1. ASSUME NEW b PROVE b \in Awaited(q)' <=> b \in Awaited(q)
    <3>1. CASE b = J
      BY <1>7, <1>8, <3>1 DEF Awaited
    <3>2. CASE b # J
      BY <1>6, <1>7, <3>2 DEF Awaited
    <3> QED BY <3>1, <3>2
  <2> QED BY <2>1
<1>10. ASSUME NEW q PROVE LiveChildren(q)' = LiveChildren(q)
  <2>1. ASSUME NEW a \in 1 .. acts
        PROVE  (Live(a) /\ ParentOf(a) = q)' <=> (Live(a) /\ ParentOf(a) = q)
    <3>1. a \in Aids
      BY Parts
    <3>2. Live(a)' <=> Live(a)
      BY <1>4, <3>1 DEF Live, SameArms
    <3>3. CASE Live(a)
      <4>1. activities[a].join_ref # J
        BY <1>6, <3>3 DEF Live
      <4>2. activities[a].join_ref \in 1 .. bars
        BY <3>1, <3>3, ChildIsArm DEF Live, IInv, SlotKinds
      <4>3. ParentOf(a)' = ParentOf(a)
        BY <1>4, <1>6, <3>1, <4>1, <4>2 DEF ParentOf, SameArms
      <4> QED BY <3>2, <4>3
    <3>4. CASE ~Live(a)
      BY <3>2, <3>4
    <3> QED BY <3>3, <3>4
  <2> QED BY <1>3, <2>1 DEF LiveChildren
<1>11. ASSUME NEW q \in BaseAids PROVE Holding(q)' = Holding(q)
  <2>1. q \in 1 .. acts
    BY BaseIsNoArm
  <2>2. \A b \in Awaited(q) : barriers'[b].mode = barriers[b].mode
    <3>1. \A b \in Awaited(q) : b \in 1 .. bars /\ b # J
      BY <1>8 DEF Awaited
    <3> QED BY <1>6, <3>1
  <2> QED BY <1>5, <1>7, <1>9, <1>10, <2>1, <2>2, HoldingKept
<1> QED BY <1>10, <1>11, PromiseStutters

\* An arm that completes is done for its parent, and lets it go exactly as the join
\* mode, or the last child of a `wait fork`, says.
LEMMA CompleteIsDone ==
    ASSUME WInv, NEW c \in Aids, Complete(c)
    PROVE  [Promise!Next]_<<Kids, Holds>>
<1> USE DEF WInv
<1>0. PICK b : b = activities[c].join_ref
  OBVIOUS
<1>1. PICK p : p = barriers[b].parent
  OBVIOUS
<1>2. PICK left : left = barriers[b].outstanding - 1
  OBVIOUS
<1>3. PICK wf : wf = activities[p].wait_fork
  OBVIOUS
<1>4. /\ p \in BaseAids /\ c \in Arms /\ c \in 1 .. acts /\ ~finished
  BY <1>0, <1>1, CompletingArm
<1>5. p \in Aids /\ p \in 1 .. acts /\ p # c
  BY <1>4, BaseIsNoArm
<1>6. activities' = [activities EXCEPT ![c].reported = TRUE, ![c].busy = FALSE,
                                       ![p].wait_fork = WaitForkLeft(wf)]
  BY <1>0, <1>1, <1>3 DEF Complete
<1>7. /\ activities'[c] = [activities[c] EXCEPT !.reported = TRUE, !.busy = FALSE]
      /\ activities'[p] = [activities[p] EXCEPT !.wait_fork = WaitForkLeft(wf)]
      /\ \A a \in Aids : a # c /\ a # p => activities'[a] = activities[a]
  BY <1>5, <1>6 DEF IInv, TypeOK
<1>8. wf \in Nat /\ WaitForkLeft(wf) = (IF wf > 0 THEN wf - 1 ELSE 0)
  BY <1>3, <1>5, Parts DEF WaitForkLeft
<1>9. /\ activities'[c].is_child = activities[c].is_child
      /\ activities'[c].join_ref = activities[c].join_ref
      /\ activities'[c].dead = activities[c].dead
      /\ activities'[c].reported
  BY <1>4, <1>7, Parts DEF Activity
<1>10. /\ activities'[p].is_child = activities[p].is_child
       /\ activities'[p].join_ref = activities[p].join_ref
       /\ activities'[p].dead = activities[p].dead
       /\ activities'[p].reported = activities[p].reported
       /\ activities'[p].wait_fork = WaitForkLeft(wf)
  BY <1>5, <1>7, Parts DEF Activity
<1>11. SameArmsBut(c)
  BY <1>7, <1>9, <1>10 DEF SameArmsBut
<1>12. PICK fires \in BOOLEAN : fires = Fires(b, left)
  BY DEF Fires
<1>13. /\ Awaited(p)' = IF fires THEN Awaited(p) \ {b} ELSE Awaited(p)
       /\ fires => b \in Awaited(p)
       /\ c \in LiveChildren(p) /\ LiveChildren(p)' = LiveChildren(p) \ {c}
       /\ \A q : q # p => Awaited(q)' = Awaited(q) /\ LiveChildren(q)' = LiveChildren(q)
  BY <1>0, <1>1, <1>2, <1>11, <1>12, CompletedWaits
<1>14. /\ Unreported(b)' = Unreported(b) \ {c} /\ c \in Unreported(b)
       /\ \A d : d # b => Unreported(d)' = Unreported(d) /\ c \notin Unreported(d)
       /\ \A d \in 1 .. bars : /\ barriers'[d].mode = barriers[d].mode
                               /\ ~barriers[d].fired => barriers[d].mode \in {"All", "Any"}
       /\ ~barriers[b].fired => (fires <=> barriers[b].mode = "Any" \/ Unreported(b) = {c})
  BY <1>0, <1>1, <1>2, <1>11, <1>12, CompletedBarriers
<1>15. ASSUME NEW q \in BaseAids, q # p PROVE Holding(q)' = Holding(q)
  <2>1. activities'[q] = activities[q]
    <3>1. q \in Aids /\ q # c
      BY <1>4, BaseIsNoArm
    <3> QED BY <1>7, <1>15, <3>1
  <2>2. \A d \in Awaited(q) : /\ Unreported(d)' = Unreported(d)
                              /\ barriers'[d].mode = barriers[d].mode
    <3>1. \A d \in Awaited(q) : d \in 1 .. bars /\ d # b
      BY <1>1, <1>15 DEF Awaited
    <3> QED BY <1>14, <3>1
  <2> QED BY <1>13, <1>15, <2>1, <2>2, HoldingKept
<1>16. /\ Thread(p) /\ Cardinality(Awaited(p)) \in Nat /\ ready[p] \in Nat /\ armed[p] \in Nat
       /\ Cardinality(Awaited(p)) = 0 <=> Awaited(p) = {}
       /\ IsFiniteSet(Awaited(p))
  BY <1>4, <1>5, Parts, AwaitedFinite DEF Threads, IInv
<1>17. ready[p] + armed[p] + (IF cur_aid = p THEN 1 ELSE 0) + Cardinality(Awaited(p))
          + (IF wf > 0 THEN 1 ELSE 0) <= 1
  BY <1>3, <1>16 DEF Thread, Continuations
<1>18. Holding(p)' = Promise!StillHeld(Holding(p), c)
  <2> USE DEF Promise!StillHeld
  <2>1. CASE wf > 0
    <3>1. Awaited(p) = {} /\ Awaited(p)' = {}
      BY <1>8, <1>12, <1>13, <1>16, <1>17, <2>1
    <3>2. Holding(p) = [why |-> "Wait", on |-> LiveChildren(p)]
      BY <1>3, <2>1 DEF Holding
    <3>3. Promise!Releases(Holding(p), c) <=> LiveChildren(p) = {c}
      BY <1>13, <3>2 DEF Promise!Releases
    <3>4. wf = 1 <=> LiveChildren(p) = {c}
      <4>1. wf = Cardinality(LiveChildren(p))
        BY <1>3, <1>5, <2>1 DEF WaitForkCount
      <4>2. IsFiniteSet(LiveChildren(p))
        BY AwaitedFinite DEF IInv
      <4>3. /\ IsFiniteSet(LiveChildren(p) \ {c})
            /\ Cardinality(LiveChildren(p) \ {c}) = wf - 1
        BY <1>13, <4>1, <4>2, FS_RemoveElement
      <4>4. wf = 1 <=> LiveChildren(p) \ {c} = {}
        BY <1>8, <4>3, FS_EmptySet
      <4> QED BY <1>13, <4>4
    <3>5. CASE wf = 1
      <4>1. Holding(p)' = Promise!Free
        BY <1>8, <1>10, <3>1, <3>5 DEF Holding, Promise!Free
      <4> QED BY <3>3, <3>4, <3>5, <4>1
    <3>6. CASE wf # 1
      <4>1. Holding(p)' = [why |-> "Wait", on |-> LiveChildren(p) \ {c}]
        BY <1>8, <1>10, <1>13, <2>1, <3>6 DEF Holding
      <4> QED BY <3>2, <3>3, <3>4, <3>6, <4>1
    <3> QED BY <3>5, <3>6
  <2>2. CASE wf = 0 /\ Awaited(p) = {}
    <3>1. Awaited(p)' = {}
      BY <1>12, <1>13, <2>2
    <3>2. Holding(p) = Promise!Free /\ Holding(p)' = Promise!Free
      BY <1>3, <1>8, <1>10, <2>2, <3>1 DEF Holding, Promise!Free
    <3> QED BY <3>2 DEF Promise!Releases, Promise!Free
  <2>3. CASE wf = 0 /\ Awaited(p) # {}
    <3>1. PICK d : d \in Awaited(p)
      BY <2>3
    <3>2. Awaited(p) = {d}
      <4>1. Cardinality(Awaited(p)) = 1
        BY <1>16, <1>17, <2>3
      <4>2. /\ IsFiniteSet(Awaited(p) \ {d})
            /\ Cardinality(Awaited(p) \ {d}) = 0
        BY <1>16, <3>1, <4>1, FS_RemoveElement
      <4>3. Awaited(p) \ {d} = {}
        BY <4>2, FS_EmptySet
      <4> QED BY <3>1, <4>3
    <3>3. d \in 1 .. bars /\ ~barriers[d].fired
      BY <3>1 DEF Awaited
    <3>4. Holding(p) = [why |-> barriers[d].mode, on |-> Unreported(d)]
      <4>1. (CHOOSE x \in Awaited(p) : TRUE) = d
        BY <3>2
      <4>2. ~(activities[p].wait_fork > 0) /\ Awaited(p) # {}
        BY <1>3, <2>3
      <4> QED BY <4>1, <4>2 DEF Holding
    <3>5. activities'[p].wait_fork = 0
      BY <1>8, <1>10, <2>3
    <3>6. CASE d # b
      <4>1. ~fires /\ Awaited(p)' = {d}
        BY <1>12, <1>13, <3>2, <3>6
      <4>2. (CHOOSE x \in Awaited(p)' : TRUE) = d
        BY <4>1
      <4>3. Holding(p)' = [why |-> barriers'[d].mode, on |-> Unreported(d)']
        BY <3>5, <4>1, <4>2 DEF Holding
      <4>4. Holding(p)' = Holding(p) /\ c \notin Unreported(d)
        BY <1>14, <3>3, <3>4, <3>6, <4>3
      <4>5. ~Promise!Releases(Holding(p), c)
        BY <3>4, <4>4 DEF Promise!Releases
      <4>6. [Holding(p) EXCEPT !.on = @ \ {c}] = Holding(p)
        <5>1. Unreported(d) \ {c} = Unreported(d)
          BY <4>4
        <5> QED BY <3>4, <5>1
      <4> QED BY <4>4, <4>5, <4>6
    <3>7. CASE d = b /\ fires
      <4>1. Awaited(p)' = {}
        BY <1>13, <3>2, <3>7
      <4>2. Holding(p)' = Promise!Free
        BY <3>5, <4>1 DEF Holding, Promise!Free
      <4>3. Promise!Releases(Holding(p), c)
        BY <1>14, <3>3, <3>4, <3>7 DEF Promise!Releases
      <4> QED BY <4>2, <4>3
    <3>8. CASE d = b /\ ~fires
      <4>1. Awaited(p)' = {d}
        BY <1>13, <3>2, <3>8
      <4>2. (CHOOSE x \in Awaited(p)' : TRUE) = d
        BY <4>1
      <4>3. Holding(p)' = [why |-> barriers'[d].mode, on |-> Unreported(d)']
        BY <3>5, <4>1, <4>2 DEF Holding
      <4>4. Holding(p)' = [why |-> barriers[d].mode, on |-> Unreported(d) \ {c}]
        BY <1>14, <3>3, <3>8, <4>3
      <4>5. ~Promise!Releases(Holding(p), c)
        BY <1>14, <3>3, <3>4, <3>8 DEF Promise!Releases
      <4> QED BY <3>4, <4>4, <4>5
    <3> QED BY <1>12, <3>6, <3>7, <3>8
  <2> QED BY <1>8, <2>1, <2>2, <2>3
<1>19. Kids' = [Kids EXCEPT ![p] = @ \ {c}] /\ c \in Kids[p]
  <2>1. \A q \in BaseAids : Kids[q] = LiveChildren(q) /\ Kids'[q] = LiveChildren(q)'
    BY DEF Kids
  <2>2. \A q \in BaseAids : Kids'[q] = IF q = p THEN Kids[p] \ {c} ELSE Kids[q]
    BY <1>4, <1>13, <2>1
  <2>3. Kids' = [q \in BaseAids |-> Kids'[q]] /\ Kids = [q \in BaseAids |-> Kids[q]]
    BY DEF Kids
  <2> HIDE DEF Kids
  <2> QED BY <1>4, <1>13, <2>1, <2>2, <2>3
<1>20. Holds' = [Holds EXCEPT ![p] = Promise!StillHeld(Holds[p], c)]
  <2>1. \A q \in BaseAids : Holds[q] = Holding(q) /\ Holds'[q] = Holding(q)'
    BY DEF Holds
  <2>2. \A q \in BaseAids : Holds'[q] = IF q = p THEN Promise!StillHeld(Holds[p], c) ELSE Holds[q]
    BY <1>4, <1>15, <1>18, <2>1
  <2>3. Holds' = [q \in BaseAids |-> Holds'[q]] /\ Holds = [q \in BaseAids |-> Holds[q]]
    BY DEF Holds
  <2> HIDE DEF Holds
  <2> QED BY <1>4, <2>2, <2>3
<1>21. Promise!ArmDone(p, c)
  BY <1>19, <1>20 DEF Promise!ArmDone, Kids, Holds
<1> QED BY <1>4, <1>19, <1>21 DEF Promise!Next, Kids

\* The other steps give a body the thread, take it back or file a report: no child
\* starts or ends, and nothing is held or let go.
LEMMA OthersStutter ==
    ASSUME WInv, NEW a \in Aids,
           \/ Wake(a) \/ Dispatch(a) \/ Suspend(a) \/ Return(a) \/ Finish(a)
           \/ Defer(a) \/ DeferMarker(a)
           \/ MatureDeferred \/ (\E p \in BaseAids : Trigger(p)) \/ UNCHANGED vars
    PROVE  UNCHANGED <<Kids, Holds>>
<1> USE DEF WInv
<1>1. UNCHANGED <<acts, joins>>
  BY DEF Wake, Dispatch, Suspend, Return, Finish, Defer, DeferMarker, MatureDeferred, Trigger,
     vars, slots, joins
<1>2. \/ UNCHANGED activities
      \/ \E x \in BOOLEAN : activities' = [activities EXCEPT ![a].busy = x]
      \/ activities' = [activities EXCEPT ![a].busy = TRUE, ![a].stopped = TRUE]
  BY DEF Wake, Dispatch, Suspend, Return, Finish, Defer, DeferMarker, MatureDeferred, Trigger,
     vars, Yield
<1>3. \A c \in Aids : activities[c] \in Activity
  BY DEF IInv, TypeOK
<1>4. SameArms /\ \A c \in Aids : /\ activities'[c].dead = activities[c].dead
                                  /\ activities'[c].wait_fork = activities[c].wait_fork
  <2>1. CASE UNCHANGED activities
    BY <2>1 DEF SameArms
  <2>2. CASE activities' # activities
    <3>1. /\ \A c \in Aids : c # a => activities'[c] = activities[c]
          /\ \/ \E x \in BOOLEAN : activities'[a] = [activities[a] EXCEPT !.busy = x]
             \/ activities'[a] = [activities[a] EXCEPT !.busy = TRUE, !.stopped = TRUE]
      BY <1>2, <2>2 DEF IInv, TypeOK
    <3>2. /\ activities'[a].is_child = activities[a].is_child
          /\ activities'[a].join_ref = activities[a].join_ref
          /\ activities'[a].tie = activities[a].tie
          /\ activities'[a].reported = activities[a].reported
          /\ activities'[a].dead = activities[a].dead
          /\ activities'[a].wait_fork = activities[a].wait_fork
      BY <1>3, <3>1 DEF Activity
    <3> QED BY <3>1, <3>2 DEF SameArms
  <2> QED BY <2>1, <2>2
<1> QED BY <1>1, <1>4, PromiseKept

\* Every step of the arena is a step of the promise, or none.
LEMMA PromiseStep ==
    ASSUME WInv, [Next]_vars
    PROVE  [Promise!Next]_<<Kids, Holds>>
<1>1. PICK a : a \in Aids
  BY ForkJoinAssumption DEF Aids
<1>2. CASE Ended \/ UNCHANGED vars \/ MatureDeferred \/ \E p \in BaseAids : Trigger(p)
  BY <1>1, <1>2, OthersStutter DEF Ended
<1>3. ASSUME NEW c \in Aids,
             Wake(c) \/ Dispatch(c) \/ Suspend(c) \/ Return(c) \/ Finish(c)
               \/ Defer(c) \/ DeferMarker(c)
      PROVE  [Promise!Next]_<<Kids, Holds>>
  BY <1>3, OthersStutter
<1>4. ASSUME NEW c \in Aids, ForkSome(c) PROVE [Promise!Next]_<<Kids, Holds>>
  <2>1. PICK mode \in JoinMode, n \in 0 .. MaxArms :
            Fork(c, mode, n) \/ ForkRefused(c, mode, n)
    BY <1>4 DEF ForkSome
  <2> QED BY <2>1, ForkSpawns, ForkRefusedStutters
<1>5. ASSUME NEW c \in Aids, WaitFork(c) \/ DisableFork(c) \/ Complete(c)
      PROVE  [Promise!Next]_<<Kids, Holds>>
  BY <1>5, WaitForkWaits, DisableForkDisables, CompleteIsDone
<1> QED BY <1>2, <1>3, <1>4, <1>5 DEF Next

\* At the start nobody has a child and nobody is held.
LEMMA PromiseInit == Init => Promise!Init
<1> SUFFICES ASSUME Init PROVE Promise!Init
  OBVIOUS
<1>1. WInv
  BY ThreadsInit
<1>2. ASSUME NEW p \in BaseAids
      PROVE  LiveChildren(p) = {} /\ Holding(p) = Promise!Free
  <2>1. p \in Aids /\ p \in 1 .. acts
    BY <1>1, BaseIsNoArm DEF WInv
  <2>2. \A a \in 1 .. acts : activities[a] = BaseActivity(a - 1)
    BY <1>1, Parts DEF Init, WInv
  <2>3. \A a \in 1 .. acts : activities[a].is_child = FALSE /\ activities[a].wait_fork = 0
    <3>1. \A x : BaseActivity(x).is_child = FALSE /\ BaseActivity(x).wait_fork = 0
      BY DEF BaseActivity
    <3> QED BY <2>2, <3>1
  <2>4. LiveChildren(p) = {}
    BY <2>3 DEF LiveChildren, Live
  <2>5. Awaited(p) = {}
    BY DEF Init, Awaited
  <2> QED BY <2>1, <2>3, <2>4, <2>5 DEF Holding, Promise!Free
<1> QED BY <1>2 DEF Promise!Init

\* The arena, with its counters, barriers and free lists, implements the promise of
\* fork, join, `wait fork` and `disable fork`, for any number of processes and arms.
THEOREM ArenaKeepsPromise == Spec => KeepsPromise
<1>1. WInv /\ [Next]_vars
        => [Promise!Next]_<<[p \in BaseAids |-> LiveChildren(p)],
                            [p \in BaseAids |-> Holding(p)]>>
  BY PromiseStep DEF Kids, Holds
<1> QED BY <1>1, PromiseInit, ThreadsHold, PTL DEF Spec, KeepsPromise, Promise!Spec

-----------------------------------------------------------------------------
(***************************************************************************)
(* Deferred-assertion reports and the recycling of slots: a pending report *)
(* is filed under its slot and the slot's generation, and the generation   *)
(* keeps it apart from whatever else has run, or will run, in that slot.   *)
(***************************************************************************)
\* A pending report was filed by an allocated slot, in this generation of the slot
\* or an earlier one.
ReportsAreOld ==
    \A k \in deferred : k[1] \in 1 .. acts /\ k[2] <= activities[k[1]].gen

RInv == IInv /\ ReportsAreOld

SameSlots ==
    /\ acts' = acts
    /\ \A a \in Aids : /\ activities'[a].gen      = activities[a].gen
                       /\ activities'[a].is_child = activities[a].is_child
                       /\ activities[a].reported => activities'[a].reported

-----------------------------------------------------------------------------
\* The steps of the run loop leave every slot its generation, its kind, and the
\* fact that its arm has reported; they file no report.
LEMMA RunLoopKeepsSlots ==
    ASSUME IInv,
           \/ \E p \in BaseAids : Trigger(p)
           \/ \E a \in Aids : Wake(a) \/ Dispatch(a)
           \/ MatureDeferred \/ UNCHANGED vars
    PROVE  SameSlots /\ deferred' \subseteq deferred
<1>1. \A a \in Aids : activities[a] \in Activity
  BY DEF IInv, TypeOK
<1>2. ASSUME NEW a \in Aids, Dispatch(a) PROVE SameSlots /\ deferred' \subseteq deferred
  <2>1. \/ activities' = activities
        \/ activities' = [activities EXCEPT ![a].busy = FALSE]
    BY <1>2 DEF Dispatch
  <2>2. acts' = acts /\ deferred' = deferred
    BY <1>2 DEF Dispatch, slots
  <2>3. activities \in [Aids -> Activity]
    BY DEF IInv, TypeOK
  <2> QED BY <1>1, <2>1, <2>2, <2>3 DEF SameSlots, Activity
<1>3. ASSUME UNCHANGED <<activities, acts>>, deferred' \subseteq deferred
      PROVE  SameSlots /\ deferred' \subseteq deferred
  BY <1>3 DEF SameSlots
<1>4. CASE MatureDeferred \/ UNCHANGED vars
  BY <1>3, <1>4 DEF MatureDeferred, slots, vars
<1>5. ASSUME NEW p \in BaseAids, Trigger(p) PROVE UNCHANGED <<activities, acts, deferred>>
  BY <1>5 DEF Trigger, slots
<1>6. ASSUME NEW a \in Aids, Wake(a) PROVE UNCHANGED <<activities, acts, deferred>>
  BY <1>6 DEF Wake, slots
<1> QED BY <1>2, <1>3, <1>4, <1>5, <1>6

\* So do the steps of a body that start no arm.
LEMMA BodyKeepsSlots ==
    ASSUME IInv, NEW a \in Aids,
           \/ Suspend(a) \/ Return(a) \/ Finish(a) \/ WaitFork(a) \/ DisableFork(a)
           \/ Complete(a) \/ Defer(a) \/ DeferMarker(a)
           \/ \E mode \in JoinMode, n \in 0 .. MaxArms : ForkRefused(a, mode, n)
    PROVE  SameSlots
<1>1. /\ \A c \in Aids : activities[c] \in Activity
      /\ activities \in [Aids -> Activity]
  BY DEF IInv, TypeOK
<1>2. CASE Suspend(a) \/ Return(a) \/ \E mode \in JoinMode, n \in 0 .. MaxArms :
                                          ForkRefused(a, mode, n)
  <2>1. /\ acts' = acts
        /\ \E b \in BOOLEAN : activities' = [activities EXCEPT ![a].busy = b]
    BY <1>2 DEF Suspend, Return, ForkRefused, Yield, slots
  <2> QED BY <1>1, <2>1 DEF SameSlots, Activity
<1>3. CASE Finish(a)
  BY <1>1, <1>3 DEF Finish, SameSlots, Activity, slots
<1>4. CASE WaitFork(a)
  <2>1. /\ acts' = acts
        /\ \E w : activities' = [activities EXCEPT ![a].busy = TRUE, ![a].wait_fork = w]
    BY <1>4 DEF WaitFork, slots
  <2> QED BY <1>1, <2>1 DEF SameSlots, Activity
<1>5. CASE DisableFork(a)
  <2>1. /\ acts' = acts
        /\ \E kill : activities' = [c \in Aids |->
                  IF c \in kill THEN [activities[c] EXCEPT !.dead = TRUE]
                                ELSE activities[c]]
    BY <1>5 DEF DisableFork, slots
  <2> QED BY <1>1, <2>1 DEF SameSlots, Activity
<1>6. CASE Complete(a)
  <2>1. /\ acts' = acts
        /\ \E p, w : activities' = [activities EXCEPT
                  ![a].reported = TRUE, ![a].busy = FALSE, ![p].wait_fork = w]
    BY <1>6 DEF Complete
  <2> QED BY <1>1, <2>1 DEF SameSlots, Activity
<1>7. CASE Defer(a) \/ DeferMarker(a)
  BY <1>7 DEF Defer, DeferMarker, SameSlots, slots
<1> QED BY <1>2, <1>3, <1>4, <1>5, <1>6, <1>7

\* A report that a step files is the running activity's, in its own generation.
LEMMA FiledByRunning ==
    ASSUME IInv, [Next]_vars
    PROVE  \/ deferred' \subseteq deferred
           \/ cur_aid \in 1 .. acts /\ deferred' \subseteq deferred \cup {Key(cur_aid)}
<1>1. ASSUME NEW a \in Aids, Defer(a)
      PROVE  cur_aid \in 1 .. acts /\ deferred' \subseteq deferred \cup {Key(cur_aid)}
  BY <1>1, ForkJoinAssumption DEF Defer, Running, IInv, TypeOK
<1>2. ASSUME NEW a \in Aids,
             \/ Suspend(a) \/ Return(a) \/ Finish(a) \/ WaitFork(a) \/ Complete(a)
      PROVE  deferred' = deferred
  BY <1>2 DEF Suspend, Return, Finish, WaitFork, Complete
<1>3. ASSUME NEW a \in Aids, ForkSome(a) PROVE deferred' = deferred
  BY <1>3 DEF ForkSome, Fork, ForkRefused
<1>4. ASSUME NEW a \in Aids, DisableFork(a) \/ DeferMarker(a)
      PROVE  deferred' \subseteq deferred
  BY <1>4 DEF DisableFork, DeferMarker
<1>5. CASE Ended
  BY <1>5 DEF Ended, vars
<1> QED BY <1>1, <1>2, <1>3, <1>4, <1>5, RunLoopKeepsSlots DEF Next

\* The slots a fork takes start their next generation; every other slot keeps its
\* own, its kind, and what it has reported.
LEMMA ForkRaisesGens ==
    ASSUME IInv, NEW p \in Aids, NEW mode \in JoinMode, NEW n \in 0 .. MaxArms,
           Fork(p, mode, n)
    PROVE  /\ acts' \in Nat /\ acts <= acts'
           /\ \A a \in ArmSlots(n) : a \in Aids /\ activities'[a].gen = NextGen(a)
           /\ \A a \in Aids \ ArmSlots(n) :
                 /\ activities'[a].gen      = activities[a].gen
                 /\ activities'[a].is_child = activities[a].is_child
                 /\ activities'[a].reported = activities[a].reported
<1> DEFINE arm == [a \in ArmSlots(n) |->
                      LET i == CHOOSE j \in 1 .. n : ArmSlot(j) = a
                      IN  NewArm(JoinSlot, activities[p].tie, i)]
           parks == ~Continues(mode, n)
<1>1. activities' = [a \in Aids |->
          IF a \in ArmSlots(n) THEN arm[a]
          ELSE IF a = p /\ parks THEN [activities[a] EXCEPT !.busy = TRUE]
          ELSE activities[a]]
  BY DEF Fork
<1>2. \A a \in ArmSlots(n) : arm[a].gen = NextGen(a)
  <2>1. ASSUME NEW a \in ArmSlots(n) PROVE arm[a].gen = NextGen(a)
    <3> DEFINE i == CHOOSE j \in 1 .. n : ArmSlot(j) = a
    <3>1. ArmSlot(i) = a
      BY <2>1 DEF ArmSlots
    <3>2. arm[a] = NewArm(JoinSlot, activities[p].tie, i)
      OBVIOUS
    <3> QED BY <3>1, <3>2 DEF NewArm
  <2> QED BY <2>1
<1>3. acts' \in acts .. MaxActs /\ \A a \in ArmSlots(n) : a \in Aids
  BY ForkedSlots
<1>4. acts \in Nat /\ MaxActs \in Nat /\ \A a \in Aids : activities[a] \in Activity
  BY ForkJoinAssumption DEF IInv, TypeOK
<1> HIDE DEF arm, parks
<1>5. \A a \in Aids \ ArmSlots(n) :
          /\ activities'[a].gen      = activities[a].gen
          /\ activities'[a].is_child = activities[a].is_child
          /\ activities'[a].reported = activities[a].reported
  BY <1>1, <1>4 DEF Activity
<1>6. \A a \in ArmSlots(n) : a \in Aids /\ activities'[a].gen = NextGen(a)
  BY <1>1, <1>2, <1>3
<1> QED BY <1>3, <1>4, <1>5, <1>6
-----------------------------------------------------------------------------
(* The step.                                                               *)

\* Steps that start no arm keep the filed reports old.
LEMMA QuietReports ==
    ASSUME RInv, [Next]_vars, SameSlots
    PROVE  ReportsAreOld' /\ Started = {}
<1>1. /\ acts \in Nat /\ 1 .. acts \subseteq Aids
      /\ \A a \in Aids : activities[a].gen \in Nat
  BY ForkJoinAssumption DEF RInv, IInv, TypeOK, Aids, Activity
<1>2. \A k \in deferred : k[1] \in 1 .. acts' /\ k[2] <= activities'[k[1]].gen
  BY <1>1 DEF RInv, ReportsAreOld, SameSlots
<1>3. ASSUME cur_aid \in 1 .. acts
      PROVE  LET k == Key(cur_aid)
             IN  k[1] \in 1 .. acts' /\ k[2] <= activities'[k[1]].gen
  BY <1>1, <1>3 DEF Key, SameSlots
<1>4. ReportsAreOld'
  BY <1>2, <1>3, FiledByRunning DEF RInv, ReportsAreOld
<1>5. Started = {}
  BY DEF Started, SameSlots
<1> QED BY <1>4, <1>5

\* A fork starts its arms in slots under whose new generation nothing is filed.
LEMMA ForkReports ==
    ASSUME RInv, NEW p \in Aids, NEW mode \in JoinMode, NEW n \in 0 .. MaxArms,
           Fork(p, mode, n)
    PROVE  ReportsAreOld' /\ StartsClean
<1>1. /\ acts \in Nat /\ 1 .. acts \subseteq Aids
      /\ \A a \in Aids : activities[a].gen \in Nat
  BY ForkJoinAssumption DEF RInv, IInv, TypeOK, Aids, Activity
<1>2. deferred' = deferred
  BY DEF Fork
<1>3. /\ acts' \in Nat /\ acts <= acts'
      /\ \A a \in ArmSlots(n) : a \in Aids /\ activities'[a].gen = NextGen(a)
      /\ \A a \in Aids \ ArmSlots(n) :
            /\ activities'[a].gen      = activities[a].gen
            /\ activities'[a].is_child = activities[a].is_child
            /\ activities'[a].reported = activities[a].reported
  BY ForkRaisesGens DEF RInv
<1>4. \A a \in 1 .. acts : activities[a].gen <= activities'[a].gen
  BY <1>1, <1>3 DEF NextGen
<1>5. ReportsAreOld'
  <2>1. ASSUME NEW k \in deferred
        PROVE  k[1] \in 1 .. acts' /\ k[2] <= activities'[k[1]].gen
    <3>1. k[1] \in 1 .. acts /\ k[2] <= activities[k[1]].gen /\ k[2] \in Nat
      BY DEF RInv, IInv, TypeOK, ReportsAreOld
    <3>2. activities[k[1]].gen <= activities'[k[1]].gen
      BY <1>4, <3>1
    <3>3. activities'[k[1]].gen \in Nat
      BY <1>1, <1>3, <3>1 DEF NextGen
    <3>4. activities[k[1]].gen \in Nat
      BY <1>1, <3>1
    <3>5. k[1] \in 1 .. acts'
      BY <1>1, <1>3, <3>1
    <3> QED BY <3>1, <3>2, <3>3, <3>4, <3>5
  <2> QED BY <1>2, <2>1 DEF ReportsAreOld
<1>6. ASSUME NEW a \in Started PROVE <<a, activities'[a].gen>> \notin deferred
  <2>1. a \in ArmSlots(n)
    BY <1>3 DEF Started
  <2>2. activities'[a].gen = NextGen(a)
    BY <1>3, <2>1
  <2>3. SUFFICES ASSUME <<a, activities'[a].gen>> \in deferred PROVE FALSE
    OBVIOUS
  <2>4. a \in 1 .. acts /\ activities'[a].gen <= activities[a].gen
    BY <2>3 DEF RInv, ReportsAreOld
  <2>5. activities'[a].gen = activities[a].gen + 1
    BY <1>1, <2>2, <2>4 DEF NextGen
  <2> QED BY <1>1, <2>4, <2>5
<1> QED BY <1>5, <1>6 DEF StartsClean

\* Every step keeps the filed reports old, and starts its arms clean of them.
LEMMA ReportsStep == RInv /\ [Next]_vars => ReportsAreOld' /\ StartsClean
<1> SUFFICES ASSUME RInv, [Next]_vars PROVE ReportsAreOld' /\ StartsClean
  OBVIOUS
<1> USE DEF RInv
<1>1. CASE \E p \in Aids, mode \in JoinMode, n \in 0 .. MaxArms : Fork(p, mode, n)
  BY <1>1, ForkReports
<1>2. CASE ~ \E p \in Aids, mode \in JoinMode, n \in 0 .. MaxArms : Fork(p, mode, n)
  <2>1. SameSlots
    <3>1. CASE UNCHANGED vars \/ Ended
      BY <3>1, RunLoopKeepsSlots DEF Ended
    <3>2. CASE \/ \E p \in BaseAids : Trigger(p)
               \/ \E a \in Aids : Wake(a) \/ Dispatch(a)
               \/ MatureDeferred
      BY <3>2, RunLoopKeepsSlots
    <3>3. ASSUME NEW a \in Aids,
                 \/ Suspend(a) \/ Return(a) \/ Finish(a) \/ ForkSome(a) \/ WaitFork(a)
                 \/ DisableFork(a) \/ Complete(a) \/ Defer(a) \/ DeferMarker(a)
          PROVE  SameSlots
      BY <1>2, <3>3, BodyKeepsSlots DEF ForkSome
    <3> QED BY <3>1, <3>2, <3>3 DEF Next
  <2> QED BY <2>1, QuietReports DEF StartsClean
<1> QED BY <1>1, <1>2

\* No pending report was filed by a future incarnation of its slot.
THEOREM ReportsInvariant == Spec => []RInv
<1>1. Init => ReportsAreOld
  BY DEF Init, ReportsAreOld
<1>2. RInv /\ [Next]_vars => RInv'
  BY ReportsStep, StepInv DEF RInv
<1>3. Init => RInv
  BY <1>1, InitInv DEF RInv
<1> QED BY <1>2, <1>3, PTL DEF Spec

\* However often a slot is re-issued, its new arm never inherits a report that an
\* earlier arm left pending (try_defer_with keys reports by activity and generation).
THEOREM FreshKeys == Spec => FreshReportKey
<1>1. RInv /\ [Next]_vars => [StartsClean]_vars
  BY ReportsStep
<1> QED BY <1>1, ReportsInvariant, PTL DEF Spec, FreshReportKey
-----------------------------------------------------------------------------
(* Who may drop a report.                                                  *)

\* `disable fork` drops the reports of the arms it kills, in their generation.
LEMMA DroppedByKill ==
    ASSUME IInv, NEW p \in Aids, DisableFork(p)
    PROVE  LostToOwner
<1>1. ASSUME NEW k \in deferred \ deferred'
      PROVE  k = Key(k[1]) /\ activities'[k[1]].dead /\ ~activities[k[1]].dead
  <2>1. k \in Aids \X Nat
    BY DEF IInv, TypeOK
  <2>2. k[1] \in Descendants(p) /\ k[2] = activities[k[1]].gen
    BY DEF DisableFork, Cancelled
  <2>3. p \in 1 .. acts
    BY ForkJoinAssumption DEF DisableFork, Running, IInv, TypeOK
  <2>4. k[1] \in Aids /\ Live(k[1])
    BY <2>2, <2>3, KilledAreLive
  <2>5. activities'[k[1]] = [activities[k[1]] EXCEPT !.dead = TRUE]
    BY <2>2, <2>4 DEF DisableFork
  <2>6. activities[k[1]] \in Activity
    BY <2>4 DEF IInv, TypeOK
  <2>7. activities'[k[1]].dead
    BY <2>5, <2>6 DEF Activity
  <2> QED BY <2>1, <2>2, <2>4, <2>7 DEF Key, Live
<1> QED BY <1>1 DEF LostToOwner

\* No step drops another activity's report, or an earlier generation's.
LEMMA DroppedByOwner == IInv /\ [Next]_vars => LostToOwner \/ UNCHANGED vars
<1> SUFFICES ASSUME IInv, [Next]_vars PROVE LostToOwner \/ UNCHANGED vars
  OBVIOUS
<1>1. ASSUME deferred \subseteq deferred' PROVE LostToOwner
  BY <1>1 DEF LostToOwner
<1>2. ASSUME NEW p \in BaseAids, Trigger(p) PROVE deferred' = deferred
  BY <1>2 DEF Trigger
<1>3. ASSUME NEW a \in Aids, Wake(a) \/ Dispatch(a) PROVE deferred' = deferred
  BY <1>3 DEF Wake, Dispatch
<1>4. CASE MatureDeferred
  BY <1>4 DEF MatureDeferred, Between, LostToOwner
<1>5. ASSUME NEW a \in Aids,
             \/ Suspend(a) \/ Return(a) \/ Finish(a) \/ WaitFork(a) \/ Complete(a)
             \/ Defer(a) \/ ForkSome(a)
      PROVE  deferred \subseteq deferred'
  BY <1>5 DEF Suspend, Return, Finish, WaitFork, Complete, Defer, ForkSome, Fork,
              ForkRefused
<1>6. ASSUME NEW a \in Aids, DisableFork(a) PROVE LostToOwner
  BY <1>6, DroppedByKill
<1>7. ASSUME NEW a \in Aids, DeferMarker(a) PROVE LostToOwner
  <2>1. ASSUME NEW k \in deferred \ deferred' PROVE k = Key(k[1]) /\ cur_aid = k[1]
    BY <1>7, <2>1 DEF DeferMarker, Running, Key
  <2> QED BY <2>1 DEF LostToOwner
<1> QED BY <1>1, <1>2, <1>3, <1>4, <1>5, <1>6, <1>7 DEF Next, Ended

\* A pending report disappears by maturing, at its own arm's marker, or with the
\* arm that filed it: k_disable_fork spares a completed predecessor's report that
\* is filed under the same slot.
THEOREM ReportsKept == Spec => ReportLostOnlyByOwner
<1>1. IInv /\ [Next]_vars => [LostToOwner]_vars
  BY DroppedByOwner
<1> QED BY <1>1, InductiveInvariant, PTL DEF Spec, ReportLostOnlyByOwner
=============================================================================
