---------------------------- MODULE SettleProofs ----------------------------
(***************************************************************************)
(* The fixpoint of the continuous assigns is complete, for any circuit: a  *)
(* pass that visits only the assigns whose inputs moved leaves nothing     *)
(* unsettled.  A delayed assign writes what the inertial delay lets        *)
(* through, for any circuit and any delays.                                *)
(***************************************************************************)
EXTENDS Settle, FiniteSetTheorems, TLAPS

Current(i)  == val[Lhs[i]] = Eval(i)
Resolved(n) == val[n] = Resolve(n, {Eval(i) : i \in Drivers(n)})

\* An assign the worklist certifies is marked, about to be visited, or current.
Worklist == \A i \in Certified : i \in dirty \/ i \in pass \/ Current(i)

\* Until a pass has moved a net it has marked nobody, and the groups it has
\* resolved are resolved; a pass that moved nothing is the last.
Quiet ==
    /\ phase = "pass" /\ ~changed => /\ dirty = {}
                                     /\ \A n \in MdNets \ groups : Resolved(n)
    /\ phase \in {"decide", "settled"} => /\ dirty = {}
                                          /\ \A n \in MdNets : Resolved(n)
    /\ phase # "pass" => pass = {}

\* A delayed net shows what it was driven to, unless that is a landing still to
\* be written; visited and driven to nothing yet, it shows x.
Driven ==
    \A i \in Delayed :
        /\ /\ phase \in {"pass", "decide", "settled"}
           /\ i \notin pass
           /\ last_drv[i] = None
           => val[Lhs[i]] = "x"
        /\ last_drv[i] # None => \/ val[Lhs[i]] = last_drv[i]
                                 \/ \E p \in landings : p[1] = i

Landings ==
    /\ phase # "decide" => landings = {}
    /\ \A p \in landings : p[1] \notin undecided /\ p[2] = last_drv[p[1]]

SInv == TypeOK /\ Worklist /\ Quiet /\ Driven /\ Landings

-----------------------------------------------------------------------------
(* The constants.                                                          *)

\* What SettleAssumption says of a single assign.
LEMMA AssignTypes ==
    ASSUME NEW i \in Assigns
    PROVE  /\ Lhs[i] \in Nets /\ Lhs[i] \notin Inputs /\ Deps[i] \subseteq Nets
           /\ i \in Certified \/ i \in Delayed \/ i \in Multi
           /\ i \in Int
BY SettleAssumption DEF Assigns, Certified, Always

\* The sets of assigns are sets of assigns, and disjoint where they must be.
LEMMA Kinds ==
    /\ Certified \subseteq Assigns /\ Delayed \subseteq Assigns /\ Multi \subseteq Assigns
    /\ \A i \in Certified : i \notin Delayed /\ i \notin Multi
    /\ \A i \in Delayed : i \notin Multi
    /\ MdNets \subseteq Nets /\ Delayed \subseteq Always /\ Always \subseteq Assigns
BY SettleAssumption DEF Certified, Always, Multi, MdNets

\* The net of a certified assign has no other driver.
LEMMA SoleDriver ==
    ASSUME NEW i \in Certified, NEW j \in Assigns, Lhs[i] = Lhs[j]
    PROVE  i = j
<1>1. i \in Assigns /\ i \notin Delayed /\ i \notin Multi
  BY Kinds
<1>2. CASE j \in Delayed
  BY <1>1, <1>2, SettleAssumption
<1>3. CASE j \notin Delayed
  <2> SUFFICES ASSUME i # j PROVE FALSE
    OBVIOUS
  <2> DEFINE D == Drivers(Lhs[i])
  <2>1. {i, j} \subseteq D
    BY <1>1, <1>3 DEF Drivers
  <2>2. IsFiniteSet(D)
    <3>1. D \subseteq Assigns
      BY DEF Drivers
    <3>2. IsFiniteSet(Assigns)
      BY SettleAssumption, FS_Interval DEF Assigns
    <3> QED BY <3>1, <3>2, FS_Subset
  <2>3. Cardinality({i, j}) = 2
    <3>1. IsFiniteSet({i}) /\ Cardinality({i}) = 1
      BY FS_Singleton
    <3>2. Cardinality({i} \cup {j}) = Cardinality({i}) + 1
      BY <3>1, FS_AddElement
    <3>3. {i, j} = {i} \cup {j}
      OBVIOUS
    <3> QED BY <3>1, <3>2, <3>3
  <2>4. Cardinality(D) >= 2
    <3>1. Cardinality({i, j}) <= Cardinality(D)
      BY <2>1, <2>2, FS_Subset
    <3>2. Cardinality(D) \in Nat
      BY <2>2, FS_CardinalityType
    <3> QED BY <2>3, <3>1, <3>2
  <2>5. i \in Multi
    BY <1>1, <2>4, AssignTypes DEF Multi, MdNets
  <2> QED BY <1>1, <2>5
<1> QED BY <1>2, <1>3

\* A resolved net is neither a certified nor a delayed assign's.
LEMMA GroupNets ==
    ASSUME NEW n \in MdNets, NEW i \in Certified \cup Delayed
    PROVE  Lhs[i] # n
<1>1. CASE i \in Certified
  BY <1>1, Kinds DEF Multi
<1>2. CASE i \in Delayed
  <2>1. Drivers(n) # {}
    BY FS_EmptySet DEF MdNets
  <2>2. PICK j \in Assigns : j \notin Delayed /\ Lhs[j] = n
    BY <2>1 DEF Drivers
  <2> QED BY <1>2, <2>2, SettleAssumption
<1> QED BY <1>1, <1>2

-----------------------------------------------------------------------------
(* Values and writes.                                                      *)

\* A right-hand side has a value of the nets' type.
LEMMA EvalType ==
    ASSUME val \in [Nets -> Val], NEW i \in Assigns PROVE Eval(i) \in Val
<1>1. [n \in Deps[i] |-> val[n]] \in [Deps[i] -> Val]
  BY AssignTypes
<1> QED BY <1>1, SettleAssumption DEF Eval

\* A right-hand side changes only when a net it reads does.
LEMMA EvalSame ==
    ASSUME NEW i \in Assigns, \A n \in Deps[i] : val'[n] = val[n]
    PROVE  Eval(i)' = Eval(i)
<1>1. [n \in Deps[i] |-> val'[n]] = [n \in Deps[i] |-> val[n]]
  OBVIOUS
<1> QED BY <1>1 DEF Eval

Wrote(w, marked) ==
    /\ val' = [n \in Nets |-> IF n \in DOMAIN w THEN w[n] ELSE val[n]]
    /\ marked = dirty \cup UNION {Readers(n) : n \in Moved(w)}

\* A write marks every certified assign whose value it changes.
LEMMA Writes ==
    ASSUME val \in [Nets -> Val], dirty \subseteq Certified,
           NEW w, DOMAIN w \subseteq Nets, \A n \in DOMAIN w : w[n] \in Val,
           NEW marked, Wrote(w, marked)
    PROVE  /\ val' \in [Nets -> Val]
           /\ \A n \in Nets : val'[n] = IF n \in DOMAIN w THEN w[n] ELSE val[n]
           /\ marked \subseteq Certified /\ dirty \subseteq marked
           /\ \A i \in Certified : i \in marked \/ Eval(i)' = Eval(i)
           /\ Moved(w) = {} => val' = val /\ marked = dirty
<1>1. \A n \in Nets : val'[n] = IF n \in DOMAIN w THEN w[n] ELSE val[n]
  BY DEF Wrote
<1>2. val' \in [Nets -> Val]
  BY DEF Wrote
<1>3. marked \subseteq Certified /\ dirty \subseteq marked
  BY DEF Wrote, Readers
<1>4. ASSUME NEW i \in Certified, i \notin marked PROVE Eval(i)' = Eval(i)
  <2>1. i \in Assigns /\ Deps[i] \subseteq Nets
    BY Kinds, AssignTypes
  <2>2. ASSUME NEW n \in Deps[i] PROVE val'[n] = val[n]
    <3>1. n \in Nets /\ i \in Readers(n)
      BY <2>1 DEF Readers
    <3>2. n \notin Moved(w)
      BY <1>4, <3>1 DEF Wrote
    <3> QED BY <1>1, <3>1, <3>2 DEF Moved
  <2> QED BY <2>1, <2>2, EvalSame
<1>5. ASSUME Moved(w) = {} PROVE val' = val /\ marked = dirty
  <2>1. \A n \in Nets : val'[n] = val[n]
    BY <1>1, <1>5 DEF Moved
  <2>2. marked = dirty
    BY <1>5 DEF Wrote
  <2> QED BY <1>2, <2>1, <2>2
<1> QED BY <1>1, <1>2, <1>3, <1>4, <1>5

\* A write to nets that no certified assign drives keeps the worklist complete.
LEMMA ForeignWrite ==
    ASSUME SInv, NEW w, DOMAIN w \subseteq Nets, \A n \in DOMAIN w : w[n] \in Val,
           \A i \in Certified : Lhs[i] \notin DOMAIN w,
           NEW marked, Wrote(w, marked)
    PROVE  \A i \in Certified : i \in marked \/ i \in pass \/ Current(i)'
<1>1. /\ val \in [Nets -> Val] /\ dirty \subseteq Certified
  BY DEF SInv, TypeOK
<1>2. /\ \A n \in Nets : val'[n] = IF n \in DOMAIN w THEN w[n] ELSE val[n]
      /\ dirty \subseteq marked
      /\ \A i \in Certified : i \in marked \/ Eval(i)' = Eval(i)
  BY <1>1, Writes
<1> SUFFICES ASSUME NEW i \in Certified, i \notin marked, i \notin pass
             PROVE  Current(i)'
  OBVIOUS
<1>3. Current(i) /\ Eval(i)' = Eval(i)
  BY <1>2 DEF SInv, Worklist
<1>4. val'[Lhs[i]] = val[Lhs[i]]
  BY <1>2, Kinds, AssignTypes
<1> QED BY <1>3, <1>4 DEF Current

-----------------------------------------------------------------------------
(* The steps.                                                              *)

\* The invariant holds before the first settle.
LEMMA SInvInit == Init => SInv
<1> SUFFICES ASSUME Init PROVE SInv
  OBVIOUS
<1>1. 0 \in 0 .. MaxDeltas + 1 /\ 0 \in 0 .. MaxWrites /\ ~(0 > MaxDeltas)
  BY SettleAssumption
<1>2. TypeOK
  BY <1>1, SettleAssumption DEF Init, TypeOK
<1> QED BY <1>2 DEF Init, SInv, Worklist, Quiet, Driven, Landings

\* Another pass, or the end of the run, after the writes that left val' and the
\* worklist `marked`.
LEMMA AgainStep ==
    ASSUME SInv, phase \in {"pass", "decide"}, pass = {}, undecided' \subseteq Delayed,
           NEW marked \in SUBSET Certified, val' \in [Nets -> Val],
           \A i \in Certified : i \in marked \/ Current(i)',
           \A i \in Delayed : last_drv[i] # None => val'[Lhs[i]] = last_drv[i],
           landings' = {}, Again(marked), UNCHANGED <<stage, inert>>
    PROVE  SInv'
<1>1. /\ deltas' = deltas + 1 /\ deltas \in Nat /\ MaxDeltas \in Nat /\ deltas <= MaxDeltas
      /\ (deltas' > MaxDeltas <=> Over(deltas'))
  BY SettleAssumption DEF SInv, TypeOK, Again, Charge, Over
<1>2. deltas' \in 0 .. MaxDeltas + 1
  BY <1>1
<1>3. UNCHANGED <<now, armed, pre_init, writes, wheel, gen, rhs_seen, last_ca, last_drv>>
  BY DEF stage, inert
<1>4. CASE Over(deltas')
  <2>1. phase' = "fatal" /\ dirty' = marked /\ UNCHANGED <<pass, changed, groups>>
    BY <1>4 DEF Again
  <2>2. TypeOK'
    BY <1>1, <1>2, <1>3, <1>4, <2>1 DEF SInv, TypeOK
  <2>3. Worklist' /\ Quiet' /\ Driven' /\ Landings'
    BY <1>3, <2>1 DEF Worklist, Quiet, Driven, Landings
  <2> QED BY <2>2, <2>3 DEF SInv
<1>5. CASE ~Over(deltas')
  <2>1. /\ phase' = "pass" /\ pass' = marked \cup Always /\ dirty' = {}
        /\ changed' = FALSE /\ groups' = MdNets
    BY <1>5 DEF Again, Pass
  <2>2. TypeOK'
    BY <1>1, <1>2, <1>3, <1>5, <2>1, Kinds DEF SInv, TypeOK
  <2>3. Worklist' /\ Quiet' /\ Driven' /\ Landings'
    BY <1>3, <2>1, Kinds DEF Worklist, Quiet, Driven, Landings
  <2> QED BY <2>2, <2>3 DEF SInv
<1> QED BY <1>4, <1>5

\* A pass begun.
LEMMA StartStep == SInv /\ Start => SInv'
<1> SUFFICES ASSUME SInv, Start PROVE SInv'
  OBVIOUS
<1>1. /\ phase = "run" /\ phase' = "pass" /\ pass' = dirty \cup Always /\ dirty' = {}
      /\ changed' = FALSE /\ groups' = MdNets
      /\ UNCHANGED <<val, deltas, undecided, landings, now, armed, pre_init, writes,
                     wheel, gen, rhs_seen, last_ca, last_drv>>
  BY DEF Start, Pass, stage, inert
<1>2. TypeOK'
  BY <1>1, Kinds DEF SInv, TypeOK
<1>3. \A i \in Certified : i \in dirty \/ Current(i)'
  <2>1. \A i \in Certified : i \in dirty \/ Current(i)
    BY <1>1 DEF SInv, Worklist, Quiet
  <2> QED BY <1>1, <2>1 DEF Current, Eval
<1>4. Worklist' /\ Quiet' /\ Driven' /\ Landings'
  BY <1>1, <1>3, Kinds DEF SInv, Worklist, Quiet, Driven, Landings
<1> QED BY <1>2, <1>4 DEF SInv

\* An assign visited.
LEMMA VisitStep == ASSUME SInv, NEW i \in pass, Visit(i) PROVE SInv'
<1>1. /\ phase = "pass" /\ i \in Assigns /\ Wrote(Drives(i), dirty') /\ pass' = pass \ {i}
      /\ changed' = (changed \/ Moved(Drives(i)) # {})
      /\ UNCHANGED <<phase, groups, deltas, undecided, landings, now, armed, pre_init,
                     writes, wheel, gen, rhs_seen, last_ca, last_drv>>
      /\ val \in [Nets -> Val] /\ dirty \subseteq Certified
  BY DEF Visit, WriteNets, Wrote, stage, inert, SInv, TypeOK
<1> DEFINE w == Drives(i)
<1>2. \/ DOMAIN w = {} /\ i \notin Certified /\ (i \in Delayed => last_drv[i] # None)
      \/ /\ DOMAIN w = {Lhs[i]} /\ w[Lhs[i]] = "x" /\ i \in Delayed /\ i \notin Certified
         /\ last_drv[i] = None
      \/ DOMAIN w = {Lhs[i]} /\ w[Lhs[i]] = Eval(i) /\ i \in Certified /\ i \notin Delayed
  <2>1. CASE i \in Multi \/ (i \in Delayed /\ last_drv[i] # None)
    BY <2>1, Kinds DEF Drives
  <2>2. CASE i \in Delayed /\ last_drv[i] = None
    <3>1. i \notin Multi /\ i \notin Certified
      BY <2>2, Kinds
    <3>2. w = [n \in {Lhs[i]} |-> "x"]
      BY <2>2, <3>1 DEF Drives
    <3> QED BY <2>2, <3>1, <3>2
  <2>3. CASE i \in Certified
    <3>1. i \notin Multi /\ i \notin Delayed
      BY <2>3, Kinds
    <3>2. w = [n \in {Lhs[i]} |-> Eval(i)]
      BY <3>1 DEF Drives
    <3> QED BY <2>3, <3>1, <3>2
  <2> QED BY <1>1, <2>1, <2>2, <2>3, AssignTypes
<1>3. DOMAIN w \subseteq {Lhs[i]} /\ DOMAIN w \subseteq Nets /\ \A n \in DOMAIN w : w[n] \in Val
  BY <1>1, <1>2, EvalType, AssignTypes DEF Val
<1> HIDE DEF w
<1>4. /\ val' \in [Nets -> Val]
      /\ \A n \in Nets : val'[n] = IF n \in DOMAIN w THEN w[n] ELSE val[n]
      /\ dirty' \subseteq Certified /\ dirty \subseteq dirty'
      /\ \A j \in Certified : j \in dirty' \/ Eval(j)' = Eval(j)
      /\ Moved(w) = {} => val' = val /\ dirty' = dirty
  <2>1. Wrote(w, dirty')
    BY <1>1 DEF w
  <2> QED BY <1>1, <1>3, <2>1, Writes
<1>5. TypeOK'
  <2>1. changed' \in BOOLEAN
    BY <1>1 DEF SInv, TypeOK
  <2> QED BY <1>1, <1>4, <2>1 DEF SInv, TypeOK
<1>6. Worklist'
  <2> SUFFICES ASSUME NEW j \in Certified, j \notin dirty', j \notin pass'
               PROVE  Current(j)'
    BY DEF Worklist
  <2>1. Eval(j)' = Eval(j) /\ j \in Assigns /\ Lhs[j] \in Nets
    BY <1>4, Kinds, AssignTypes
  <2>2. CASE j = i
    <3>1. DOMAIN w = {Lhs[i]} /\ w[Lhs[i]] = Eval(i)
      BY <1>2, <2>2 DEF w
    <3> QED BY <1>4, <2>1, <2>2, <3>1 DEF Current
  <2>3. CASE j # i
    <3>1. Current(j)
      BY <1>1, <1>4, <2>3 DEF SInv, Worklist
    <3>2. Lhs[j] \notin DOMAIN w
      BY <1>1, <1>3, <2>3, SoleDriver
    <3> QED BY <1>4, <2>1, <3>1, <3>2 DEF Current
  <2> QED BY <2>2, <2>3
<1>7. Quiet'
  <2>1. ASSUME ~changed' PROVE dirty' = {} /\ \A n \in MdNets \ groups : Resolved(n)'
    <3>1. ~changed /\ Moved(w) = {}
      BY <1>1, <2>1 DEF w
    <3>2. val' = val /\ dirty' = {} /\ \A n \in MdNets \ groups : Resolved(n)
      BY <1>1, <1>4, <3>1 DEF SInv, Quiet
    <3> QED BY <3>2 DEF Resolved, Eval
  <2> QED BY <1>1, <2>1 DEF Quiet
<1>8. Driven'
  <2> SUFFICES ASSUME NEW j \in Delayed
               PROVE  /\ j \notin pass' /\ last_drv[j] = None => val'[Lhs[j]] = "x"
                      /\ last_drv[j] # None => \/ val'[Lhs[j]] = last_drv[j]
                                               \/ \E p \in landings : p[1] = j
    BY <1>1 DEF Driven
  <2>1. j \in Assigns /\ Lhs[j] \in Nets
    BY Kinds, AssignTypes
  <2>2. CASE j = i
    <3>1. CASE last_drv[i] = None
      <4>1. Lhs[i] \in DOMAIN w /\ w[Lhs[i]] = "x"
        BY <1>2, <2>2, <3>1 DEF w
      <4> QED BY <1>4, <2>1, <2>2, <3>1, <4>1
    <3>2. CASE last_drv[i] # None
      <4>1. DOMAIN w = {}
        BY <1>2, <2>2, <3>2 DEF w
      <4> QED BY <1>4, <2>1, <2>2, <3>2, <4>1 DEF SInv, Driven
    <3> QED BY <3>1, <3>2
  <2>3. CASE j # i
    <3>1. Lhs[j] \notin DOMAIN w
      BY <1>1, <1>3, <2>3, SettleAssumption
    <3> QED BY <1>1, <1>4, <2>1, <2>3, <3>1 DEF SInv, Driven
  <2> QED BY <2>2, <2>3
<1>9. Landings'
  BY <1>1 DEF SInv, Landings
<1> QED BY <1>5, <1>6, <1>7, <1>8, <1>9 DEF SInv

\* A group of drivers resolved.
LEMMA GroupStep == ASSUME SInv, NEW n \in groups, ResolveGroup(n) PROVE SInv'
<1> DEFINE v == Resolve(n, {Eval(i) : i \in Drivers(n)})
           w == [m \in {n} |-> v]
<1>1. /\ phase = "pass" /\ pass = {} /\ n \in MdNets /\ n \in Nets
      /\ Wrote(w, dirty') /\ groups' = groups \ {n}
      /\ changed' = (changed \/ Moved(w) # {})
      /\ UNCHANGED <<phase, pass, deltas, undecided, landings, now, armed, pre_init,
                     writes, wheel, gen, rhs_seen, last_ca, last_drv>>
      /\ val \in [Nets -> Val] /\ dirty \subseteq Certified
  BY Kinds DEF ResolveGroup, WriteNets, Wrote, stage, inert, SInv, TypeOK
<1>2. v \in Val
  <2>1. {Eval(i) : i \in Drivers(n)} \in SUBSET Val
    BY <1>1, EvalType DEF Drivers
  <2> QED BY <1>1, <2>1, SettleAssumption
<1>3. DOMAIN w = {n} /\ w[n] = v
  OBVIOUS
<1> HIDE DEF v, w
<1>4. /\ DOMAIN w \subseteq Nets /\ \A m \in DOMAIN w : w[m] \in Val
      /\ \A i \in Certified \cup Delayed : Lhs[i] \notin DOMAIN w
  BY <1>1, <1>2, <1>3, GroupNets
<1>5. /\ val' \in [Nets -> Val]
      /\ \A m \in Nets : val'[m] = IF m \in DOMAIN w THEN w[m] ELSE val[m]
      /\ dirty' \subseteq Certified
      /\ Moved(w) = {} => val' = val /\ dirty' = dirty
  BY <1>1, <1>4, Writes
<1>6. TypeOK'
  <2>1. changed' \in BOOLEAN
    BY <1>1 DEF SInv, TypeOK
  <2> QED BY <1>1, <1>5, <2>1 DEF SInv, TypeOK
<1>7. Worklist'
  BY <1>1, <1>4, ForeignWrite DEF Worklist
<1>8. Quiet'
  <2>1. ASSUME ~changed', NEW m \in MdNets \ groups' PROVE dirty' = {} /\ Resolved(m)'
    <3>1. ~changed /\ Moved(w) = {}
      BY <1>1, <2>1
    <3>2. val' = val /\ dirty' = {} /\ \A k \in MdNets \ groups : Resolved(k)
      BY <1>1, <1>5, <3>1 DEF SInv, Quiet
    <3>3. val[n] = v
      BY <1>1, <1>3, <1>5, <3>2
    <3>4. Resolved(m)
      BY <1>1, <2>1, <3>2, <3>3 DEF Resolved, v
    <3> QED BY <3>2, <3>4 DEF Resolved, Eval
  <2>2. ~changed' => dirty' = {}
    BY <1>1, <1>5 DEF SInv, Quiet
  <2> QED BY <1>1, <2>1, <2>2 DEF Quiet
<1>9. Driven'
  <2>1. \A j \in Delayed : val'[Lhs[j]] = val[Lhs[j]]
    BY <1>4, <1>5, Kinds, AssignTypes
  <2> QED BY <1>1, <2>1 DEF SInv, Driven
<1>10. Landings'
  BY <1>1 DEF SInv, Landings
<1> QED BY <1>6, <1>7, <1>8, <1>9, <1>10 DEF SInv

\* The end of a pass.
LEMMA PassEndStep == SInv /\ (NextPass \/ Converged) => SInv'
<1> SUFFICES ASSUME SInv, NextPass \/ Converged PROVE SInv'
  OBVIOUS
<1>1. /\ phase = "pass" /\ pass = {} /\ groups = {} /\ landings = {}
      /\ UNCHANGED <<val, landings, now, armed, pre_init, writes, wheel, gen, rhs_seen,
                     last_ca, last_drv>>
  BY DEF NextPass, Converged, stage, inert, nets, SInv, Landings
<1>2. CASE NextPass
  <2>1. /\ undecided' \subseteq Delayed /\ dirty \in SUBSET Certified
        /\ val' \in [Nets -> Val] /\ landings' = {} /\ Again(dirty)
        /\ UNCHANGED <<stage, inert>>
    BY <1>1, <1>2 DEF NextPass, SInv, TypeOK
  <2>2. \A i \in Certified : i \in dirty \/ Current(i)'
    BY <1>1 DEF SInv, Worklist, Current, Eval
  <2>3. \A i \in Delayed : last_drv[i] # None => val'[Lhs[i]] = last_drv[i]
    BY <1>1 DEF SInv, Driven
  <2> QED BY <1>1, <2>1, <2>2, <2>3, AgainStep
<1>3. CASE Converged
  <2>1. /\ ~changed /\ phase' = "decide" /\ undecided' = Delayed
        /\ UNCHANGED <<dirty, pass, groups, changed, deltas>>
    BY <1>3 DEF Converged, nets
  <2>2. TypeOK'
    BY <1>1, <2>1 DEF SInv, TypeOK
  <2>3. Worklist' /\ Driven' /\ Landings'
    BY <1>1, <2>1 DEF SInv, Worklist, Current, Eval, Driven, Landings
  <2>4. Quiet'
    BY <1>1, <2>1 DEF SInv, Quiet, Resolved, Eval
  <2> QED BY <2>2, <2>3, <2>4 DEF SInv
<1> QED BY <1>2, <1>3

\* What a decision may do, in the words of its branches.
LEMMA Branches ==
    ASSUME NEW i \in Delayed, NEW v, DecideOn(i, v)
    PROVE  \/ UNCHANGED <<wheel, gen, rhs_seen, last_ca, last_drv, landings>> /\ Repeats(i, v)
           \/ Keeps(i, v)
           \/ last_ca[i] # v /\ Deferred(i, v) /\ Defers(i, v)
           \/ /\ last_ca[i] # v /\ ~Deferred(i, v) /\ Supersedes(i, v)
              /\ \/ Transition(i, v) = Never /\ UNCHANGED <<wheel, last_drv, landings>>
                 \/ Transition(i, v) = 0 /\ MayLand /\ LandsNow(i, v)
                 \/ Transition(i, v) # Never /\ Schedules(i, v, Transition(i, v))
<1>1. CASE Repeats(i, v)
  BY <1>1 DEF DecideOn, inert
<1>2. CASE ~Repeats(i, v) /\ ~(Keeps(i, v) \/ (last_ca[i] # v /\ Deferred(i, v) /\ Defers(i, v)))
  <2> DEFINE d == Transition(i, v)
  <2>1. /\ last_ca[i] # v /\ ~Deferred(i, v) /\ Supersedes(i, v)
        /\ CASE d = Never         -> UNCHANGED <<wheel, last_drv, landings>>
             [] d = 0 /\ MayLand  -> LandsNow(i, v)
             [] OTHER             -> Schedules(i, v, d)
    BY <1>2 DEF DecideOn
  <2>2. \/ d = Never /\ UNCHANGED <<wheel, last_drv, landings>>
        \/ d = 0 /\ MayLand /\ LandsNow(i, v)
        \/ d # Never /\ Schedules(i, v, d)
    BY <2>1
  <2> QED BY <2>1, <2>2
<1> QED BY <1>1, <1>2 DEF DecideOn

\* The delay of a transition is a number, never Never for a constant delay.
LEMMA DelayType ==
    ASSUME val \in [Nets -> Val], NEW i \in Delayed, NEW v \in Val
    PROVE  Transition(i, v) \in Nat /\ (Transition(i, v) = Never => i \in Runtime)
<1>1. "1" \in Val
  BY DEF Val
<1> QED BY <1>1, SettleAssumption DEF Transition

\* The types after a decision.
LEMMA DecideTypes == ASSUME SInv, NEW i \in undecided, Decide(i) PROVE TypeOK'
<1>1. /\ i \in Delayed /\ i \in Assigns /\ phase = "decide" /\ DecideOn(i, Eval(i))
      /\ undecided' = undecided \ {i}
      /\ UNCHANGED <<val, dirty, phase, pass, groups, changed, deltas, now, armed,
                     pre_init, writes>>
      /\ val \in [Nets -> Val]
  BY Kinds DEF Decide, stage, nets, SInv, TypeOK
<1> DEFINE v == Eval(i)
           d == Transition(i, v)
<1>2. v \in Val
  BY <1>1, EvalType
<1>3. d \in Nat
  BY <1>1, <1>2, DelayType
<1> HIDE DEF v
<1>4. /\ rhs_seen \in [Delayed -> Val \cup {None}] /\ last_ca \in [Delayed -> Val \cup {None}]
      /\ last_drv \in [Delayed -> Val \cup {None}] /\ gen \in [Delayed -> Nat]
      /\ wheel \subseteq Entry /\ landings \subseteq Delayed \X Val /\ now \in Nat
  BY DEF SInv, TypeOK
<1>5. /\ rhs_seen' \in [Delayed -> Val \cup {None}] /\ last_ca' \in [Delayed -> Val \cup {None}]
      /\ last_drv' \in [Delayed -> Val \cup {None}] /\ gen' \in [Delayed -> Nat]
      /\ wheel' \subseteq Entry /\ landings' \subseteq Delayed \X Val
  <2>1. CASE UNCHANGED <<wheel, gen, rhs_seen, last_ca, last_drv, landings>>
    BY <1>4, <2>1
  <2>2. CASE Keeps(i, v) \/ Defers(i, v)
    BY <1>2, <1>4, <2>2 DEF Keeps, Defers
  <2>3. CASE /\ Supersedes(i, v)
             /\ \/ UNCHANGED <<wheel, last_drv, landings>>
                \/ LandsNow(i, v)
                \/ Schedules(i, v, d)
    <3>1. /\ rhs_seen' \in [Delayed -> Val \cup {None}] /\ last_ca' \in [Delayed -> Val \cup {None}]
          /\ gen' \in [Delayed -> Nat]
      <4>1. gen[i] + 1 \in Nat /\ gen' = [gen EXCEPT ![i] = gen[i] + 1]
        BY <1>1, <1>4, <2>3 DEF Supersedes, NextGen
      <4>2. gen' \in [Delayed -> Nat]
        BY <1>4, <4>1
      <4> QED BY <1>2, <1>4, <2>3, <4>2 DEF Supersedes
    <3>2. CASE UNCHANGED <<wheel, last_drv, landings>>
      BY <1>4, <3>1, <3>2
    <3>3. CASE LandsNow(i, v)
      BY <1>1, <1>2, <1>4, <3>1, <3>3 DEF LandsNow
    <3>4. CASE Schedules(i, v, d)
      <4>1. now + d \in Nat /\ gen'[i] \in Nat
        BY <1>1, <1>3, <1>4, <3>1
      <4>2. [ci |-> i, gen |-> gen'[i], tick |-> now + d, val |-> v] \in Entry
        BY <1>1, <1>2, <4>1 DEF Entry
      <4> QED BY <1>4, <3>1, <3>4, <4>2 DEF Schedules
    <3> QED BY <2>3, <3>2, <3>3, <3>4
  <2>4. DecideOn(i, v)
    BY <1>1 DEF v
  <2> QED BY <1>1, <2>1, <2>2, <2>3, <2>4, Branches
<1> QED BY <1>1, <1>5 DEF SInv, TypeOK

\* A decision touches no net, and what it drives it hands back as a landing.
LEMMA DecideStep == ASSUME SInv, NEW i \in undecided, Decide(i) PROVE SInv'
<1>1. /\ i \in Delayed /\ i \in Assigns /\ phase = "decide" /\ DecideOn(i, Eval(i))
      /\ undecided' = undecided \ {i}
      /\ UNCHANGED <<val, dirty, phase, pass, groups, changed, deltas>>
      /\ last_drv \in [Delayed -> Val \cup {None}] /\ Eval(i) \in Val
  BY Kinds, EvalType DEF Decide, stage, nets, SInv, TypeOK
<1> DEFINE v == Eval(i)
<1>2. \/ UNCHANGED <<last_drv, landings>>
      \/ last_drv' = [last_drv EXCEPT ![i] = v] /\ landings' = landings \cup {<<i, v>>}
  BY <1>1, Branches DEF Keeps, Defers, LandsNow, Schedules
<1>3. TypeOK'
  BY DecideTypes
<1>4. Worklist' /\ Quiet'
  BY <1>1 DEF SInv, Worklist, Quiet, Current, Resolved, Eval
<1>5. Driven' /\ Landings'
  <2>1. CASE UNCHANGED <<last_drv, landings>>
    BY <1>1, <2>1 DEF SInv, Driven, Landings
  <2>2. CASE last_drv' = [last_drv EXCEPT ![i] = v] /\ landings' = landings \cup {<<i, v>>}
    <3>1. last_drv'[i] = v /\ v # None /\ \A j \in Delayed : j # i => last_drv'[j] = last_drv[j]
      BY <1>1, <2>2, SettleAssumption
    <3>2. <<i, v>> \in landings' /\ <<i, v>>[1] = i /\ landings \subseteq landings'
      BY <2>2
    <3>3. ASSUME NEW j \in Delayed
          PROVE  /\ /\ phase' \in {"pass", "decide", "settled"}
                    /\ j \notin pass'
                    /\ last_drv'[j] = None
                    => val'[Lhs[j]] = "x"
                 /\ last_drv'[j] # None => \/ val'[Lhs[j]] = last_drv'[j]
                                           \/ \E p \in landings' : p[1] = j
      <4>1. CASE j = i
        BY <3>1, <3>2, <4>1
      <4>2. CASE j # i
        BY <1>1, <3>1, <3>2, <4>2 DEF SInv, Driven
      <4> QED BY <4>1, <4>2
    <3>4. ASSUME NEW p \in landings'
          PROVE  p[1] \notin undecided' /\ p[2] = last_drv'[p[1]]
      <4>1. CASE p = <<i, v>>
        BY <1>1, <3>1, <4>1
      <4>2. CASE p \in landings
        <5>1. p[1] \notin undecided /\ p[2] = last_drv[p[1]] /\ p[1] \in Delayed
          BY <4>2 DEF SInv, Landings, TypeOK
        <5> QED BY <1>1, <3>1, <5>1
      <4> QED BY <2>2, <4>1, <4>2
    <3> QED BY <1>1, <3>3, <3>4 DEF Driven, Landings
  <2> QED BY <1>2, <2>1, <2>2
<1> QED BY <1>3, <1>4, <1>5 DEF SInv

\* What the landings write: to the net of each its value last driven.
LEMMA LandedIs ==
    ASSUME SInv
    PROVE  /\ DOMAIN Landed \subseteq Nets
           /\ \A n \in DOMAIN Landed : \E i \in Delayed : Lhs[i] = n
           /\ \A n \in DOMAIN Landed : Landed[n] \in Val
           /\ \A i \in Delayed : Lhs[i] \in DOMAIN Landed <=> \E p \in landings : p[1] = i
           /\ \A i \in Delayed : Lhs[i] \in DOMAIN Landed => Landed[Lhs[i]] = last_drv[i]
<1>1. DOMAIN Landed = {Lhs[p[1]] : p \in landings}
  BY DEF Landed
<1>2. \A p \in landings : p[1] \in Delayed /\ p[2] \in Val /\ p[2] = last_drv[p[1]]
  BY DEF SInv, TypeOK, Landings
<1>3. \A i, j \in Delayed : Lhs[i] = Lhs[j] => i = j
  BY Kinds, SettleAssumption
<1>4. \A i \in Delayed : Lhs[i] \in Nets
  BY Kinds, AssignTypes
<1>5. ASSUME NEW p \in landings PROVE Landed[Lhs[p[1]]] = p[2]
  <2>1. Landed[Lhs[p[1]]] = (CHOOSE q \in landings : Lhs[q[1]] = Lhs[p[1]])[2]
    BY <1>1 DEF Landed
  <2> DEFINE q == CHOOSE q \in landings : Lhs[q[1]] = Lhs[p[1]]
  <2>2. q \in landings /\ Lhs[q[1]] = Lhs[p[1]]
    OBVIOUS
  <2> HIDE DEF q
  <2>3. q[1] = p[1]
    BY <1>2, <1>3, <2>2
  <2>4. q[2] = p[2]
    BY <1>2, <2>2, <2>3
  <2> QED BY <2>1, <2>4 DEF q
<1>6. \A i \in Delayed : Lhs[i] \in DOMAIN Landed <=> \E p \in landings : p[1] = i
  BY <1>1, <1>2, <1>3
<1> QED BY <1>1, <1>2, <1>4, <1>5, <1>6

\* The landings written, or found to change nothing.
LEMMA LandStep == SInv /\ (Land \/ Settled) => SInv'
<1> SUFFICES ASSUME SInv, Land \/ Settled PROVE SInv'
  OBVIOUS
<1> DEFINE w == Landed
<1>1. /\ phase = "decide" /\ pass = {} /\ landings' = {} /\ val \in [Nets -> Val]
      /\ undecided = {} /\ undecided' = undecided /\ dirty \subseteq Certified
      /\ last_drv' = last_drv
      /\ \A n \in MdNets : Resolved(n)
  BY DEF Land, Settled, inert, SInv, Quiet, TypeOK
<1>2. /\ DOMAIN w \subseteq Nets /\ \A n \in DOMAIN w : w[n] \in Val
      /\ \A n \in DOMAIN w : \E i \in Delayed : Lhs[i] = n
      /\ \A i \in Delayed : Lhs[i] \in DOMAIN w <=> \E p \in landings : p[1] = i
      /\ \A i \in Delayed : Lhs[i] \in DOMAIN w => w[Lhs[i]] = last_drv[i]
  BY LandedIs
<1> HIDE DEF w
<1>3. \A i \in Delayed : last_drv[i] # None /\ Lhs[i] \notin DOMAIN w =>
          val[Lhs[i]] = last_drv[i]
  BY <1>2 DEF SInv, Driven
<1>4. CASE Land
  <2> DEFINE marked == dirty \cup UNION {Readers(n) : n \in Moved(w)}
  <2>1. Wrote(w, marked) /\ Again(marked) /\ UNCHANGED <<stage, inert>>
    BY <1>4 DEF Land, Wrote, w
  <2> HIDE DEF marked
  <2>2. \A i \in Certified : Lhs[i] \notin DOMAIN w
    BY <1>2, Kinds, SoleDriver
  <2>3. \A i \in Certified : i \in marked \/ Current(i)'
    BY <1>1, <1>2, <2>1, <2>2, ForeignWrite
  <2>4. /\ val' \in [Nets -> Val] /\ marked \subseteq Certified
        /\ \A n \in Nets : val'[n] = IF n \in DOMAIN w THEN w[n] ELSE val[n]
    BY <1>1, <1>2, <2>1, Writes
  <2>5. \A i \in Delayed : last_drv[i] # None => val'[Lhs[i]] = last_drv[i]
    BY <1>2, <1>3, <2>4, Kinds, AssignTypes
  <2> QED BY <1>1, <2>1, <2>3, <2>4, <2>5, AgainStep
<1>5. CASE Settled
  <2>1. /\ phase' = "settled" /\ Moved(w) = {}
        /\ UNCHANGED <<val, dirty, pass, groups, changed, deltas, now, armed, pre_init,
                       writes, wheel, gen, rhs_seen, last_ca>>
    BY <1>5 DEF Settled, nets, stage, inert, w
  <2>2. TypeOK'
    BY <1>1, <2>1 DEF SInv, TypeOK
  <2>3. Worklist' /\ Quiet' /\ Landings'
    BY <1>1, <2>1 DEF SInv, Worklist, Quiet, Current, Resolved, Eval, Landings
  <2>4. \A i \in Delayed : last_drv[i] # None => val[Lhs[i]] = last_drv[i]
    <3>1. \A n \in DOMAIN w : w[n] = val[n]
      BY <2>1 DEF Moved
    <3> QED BY <1>2, <1>3, <3>1
  <2>5. Driven'
    BY <1>1, <2>1, <2>4 DEF SInv, Driven
  <2> QED BY <2>2, <2>3, <2>5 DEF SInv
<1> QED BY <1>4, <1>5

\* What the wheel's writes at a tick come to: each delayed assign that lands has
\* driven what its net now holds.
LEMMA DueWrites ==
    ASSUME SInv, NEW t, TakeDue(t)
    PROVE  /\ last_drv' \in [Delayed -> Val \cup {None}]
           /\ wheel' \subseteq Entry
           /\ UNCHANGED <<gen, rhs_seen, last_ca>>
           /\ \E w : /\ Wrote(w, dirty')
                     /\ DOMAIN w \subseteq Nets /\ \A n \in DOMAIN w : w[n] \in Val
                     /\ \A n \in DOMAIN w : \E i \in Delayed : Lhs[i] = n
                     /\ \A i \in Delayed : last_drv'[i] = IF Lhs[i] \in DOMAIN w THEN w[Lhs[i]]
                                                          ELSE last_drv[i]
<1> DEFINE live == {e \in Due(t) : Survives(e)}
           w    == [n \in {Lhs[e.ci] : e \in live} |->
                       (CHOOSE e \in live : Lhs[e.ci] = n).val]
<1>1. /\ wheel' = wheel \ Due(t)
      /\ last_drv' = [i \in Delayed |->
              IF \E e \in live : e.ci = i THEN w[Lhs[i]] ELSE last_drv[i]]
      /\ Wrote(w, dirty')
      /\ UNCHANGED <<gen, rhs_seen, last_ca>>
  BY DEF TakeDue, WriteNets, Wrote
<1>2. /\ wheel \subseteq Entry /\ live \subseteq wheel
      /\ last_drv \in [Delayed -> Val \cup {None}]
  BY DEF SInv, TypeOK, Due
<1>3. DOMAIN w = {Lhs[e.ci] : e \in live}
  OBVIOUS
<1>4. \A n \in DOMAIN w : w[n] \in Val
  <2> SUFFICES ASSUME NEW n \in DOMAIN w PROVE w[n] \in Val
    OBVIOUS
  <2>1. PICK f \in live : Lhs[f.ci] = n
    BY <1>3
  <2>2. (CHOOSE e \in live : Lhs[e.ci] = n) \in live
    BY <2>1
  <2>3. w[n] = (CHOOSE e \in live : Lhs[e.ci] = n).val
    BY <1>3
  <2> HIDE DEF w, live
  <2>4. (CHOOSE e \in live : Lhs[e.ci] = n) \in Entry
    BY <1>2, <2>2
  <2> QED BY <2>3, <2>4 DEF Entry
<1> HIDE DEF w, live
<1>5. \A e \in live : e.ci \in Delayed
  BY <1>2 DEF Entry
<1>6. \A i, j \in Delayed : Lhs[i] = Lhs[j] => i = j
  BY Kinds, SettleAssumption
<1>7. \A i \in Delayed : Lhs[i] \in Nets
  BY Kinds, AssignTypes
<1>8. DOMAIN w \subseteq Nets /\ \A n \in DOMAIN w : \E i \in Delayed : Lhs[i] = n
  BY <1>3, <1>5, <1>7
<1>9. \A i \in Delayed : (\E e \in live : e.ci = i) <=> Lhs[i] \in DOMAIN w
  BY <1>3, <1>5, <1>6
<1>10. \A i \in Delayed : last_drv'[i] = IF Lhs[i] \in DOMAIN w THEN w[Lhs[i]]
                                         ELSE last_drv[i]
  BY <1>1, <1>9
<1>11. last_drv' \in [Delayed -> Val \cup {None}]
  BY <1>1, <1>2, <1>4, <1>9
<1>12. wheel' \subseteq Entry
  BY <1>1, <1>2
<1>13. /\ Wrote(w, dirty') /\ DOMAIN w \subseteq Nets /\ \A n \in DOMAIN w : w[n] \in Val
       /\ \A n \in DOMAIN w : \E i \in Delayed : Lhs[i] = n
       /\ \A i \in Delayed : last_drv'[i] = IF Lhs[i] \in DOMAIN w THEN w[Lhs[i]]
                                            ELSE last_drv[i]
  BY <1>1, <1>4, <1>8, <1>10
<1> QED BY <1>1, <1>11, <1>12, <1>13

\* The landings of a time, drained at it or on moving to it.
LEMMA TimeStep ==
    ASSUME SInv, SameTime \/ \E t \in now + 1 .. MaxTime : Advance(t) PROVE SInv'
<1>1. PICK t : /\ TakeDue(t) /\ phase = "settled" /\ now' \in Nat
               /\ phase' \in {"run", "fatal"} /\ deltas' \in 0 .. MaxDeltas + 1
               /\ (phase' = "fatal" <=> deltas' > MaxDeltas)
               /\ UNCHANGED <<pass, groups, changed, undecided, landings, armed, pre_init,
                              writes>>
  <2>1. CASE SameTime
    <3>1. /\ deltas' = deltas + 1 /\ phase = "settled" /\ deltas \in 0 .. MaxDeltas + 1
          /\ MaxDeltas \in Nat /\ ~(deltas > MaxDeltas) /\ now' = now /\ now \in Nat
          /\ phase' = IF deltas' > MaxDeltas THEN "fatal" ELSE "run"
      BY <2>1, SettleAssumption DEF SameTime, Over, SInv, TypeOK, stage
    <3>2. deltas' \in 0 .. MaxDeltas + 1
      BY <3>1
    <3> QED BY <2>1, <3>1, <3>2 DEF SameTime, stage
  <2>2. CASE \E t \in now + 1 .. MaxTime : Advance(t)
    <3>1. PICK t \in now + 1 .. MaxTime : Advance(t)
      BY <2>2
    <3>2. t \in Nat /\ 0 \in 0 .. MaxDeltas + 1 /\ ~(0 > MaxDeltas)
      BY SettleAssumption DEF SInv, TypeOK
    <3> QED BY <3>1, <3>2 DEF Advance
  <2> QED BY <2>1, <2>2
<1>2. /\ last_drv' \in [Delayed -> Val \cup {None}] /\ wheel' \subseteq Entry
      /\ UNCHANGED <<gen, rhs_seen, last_ca>>
  BY <1>1, DueWrites
<1>3. PICK w : /\ Wrote(w, dirty')
               /\ DOMAIN w \subseteq Nets /\ \A n \in DOMAIN w : w[n] \in Val
               /\ \A n \in DOMAIN w : \E i \in Delayed : Lhs[i] = n
               /\ \A i \in Delayed : last_drv'[i] = IF Lhs[i] \in DOMAIN w THEN w[Lhs[i]]
                                                    ELSE last_drv[i]
  BY <1>1, DueWrites
<1>4. \A i \in Certified : Lhs[i] \notin DOMAIN w
  BY <1>3, Kinds, SoleDriver
<1>5. /\ val' \in [Nets -> Val] /\ dirty' \subseteq Certified
      /\ \A n \in Nets : val'[n] = IF n \in DOMAIN w THEN w[n] ELSE val[n]
  BY <1>3, Writes DEF SInv, TypeOK
<1>6. TypeOK'
  BY <1>1, <1>2, <1>5 DEF SInv, TypeOK
<1>7. Worklist'
  BY <1>1, <1>3, <1>4, ForeignWrite DEF Worklist
<1>8. Quiet' /\ Landings'
  BY <1>1 DEF SInv, Quiet, Landings
<1>9. Driven'
  <2>1. landings = {}
    BY <1>1 DEF SInv, Landings
  <2>2. \A i \in Delayed : last_drv'[i] # None => val'[Lhs[i]] = last_drv'[i]
    BY <1>3, <1>5, <2>1, Kinds, AssignTypes DEF SInv, Driven
  <2> QED BY <1>1, <2>2 DEF Driven
<1> QED BY <1>6, <1>7, <1>8, <1>9 DEF SInv

\* The writes of initializers and processes.
LEMMA ProcessStep ==
    ASSUME SInv, Initialize \/ \E n \in Inputs, v \in Val : Write(n, v) PROVE SInv'
<1>1. PICK w : /\ Wrote(w, dirty') /\ DOMAIN w \subseteq Inputs
               /\ \A n \in DOMAIN w : w[n] \in Val
               /\ phase \in {"settled", "run"} /\ phase' = "run"
               /\ deltas' \in {deltas, 0} /\ pre_init' \in BOOLEAN
               /\ writes' \in 0 .. MaxWrites
               /\ UNCHANGED <<pass, groups, changed, undecided, landings, now, armed, wheel,
                              gen, rhs_seen, last_ca, last_drv>>
  <2>1. CASE Initialize
    <3>1. PICK w \in [Initializers -> {"0", "1"}] : WriteNets(w)
      BY <2>1 DEF Initialize
    <3>2. /\ DOMAIN w \subseteq Inputs /\ \A n \in DOMAIN w : w[n] \in Val
          /\ Wrote(w, dirty')
      BY <3>1, SettleAssumption DEF Val, WriteNets, Wrote
    <3> QED BY <2>1, <3>2 DEF Initialize, inert, SInv, TypeOK
  <2>2. ASSUME NEW n \in Inputs, NEW v \in Val, Write(n, v)
        PROVE  \E w : /\ Wrote(w, dirty') /\ DOMAIN w \subseteq Inputs
                      /\ \A m \in DOMAIN w : w[m] \in Val
                      /\ phase \in {"settled", "run"} /\ phase' = "run"
                      /\ deltas' \in {deltas, 0} /\ pre_init' \in BOOLEAN
                      /\ writes' \in 0 .. MaxWrites
                      /\ UNCHANGED <<pass, groups, changed, undecided, landings, now, armed,
                                     wheel, gen, rhs_seen, last_ca, last_drv>>
    <3> DEFINE w == [m \in {n} |-> v]
    <3>1. Wrote(w, dirty') /\ DOMAIN w \subseteq Inputs /\ \A m \in DOMAIN w : w[m] \in Val
      BY <2>2 DEF Write, WriteNets, Wrote
    <3>2. /\ phase \in {"settled", "run"} /\ phase' = "run" /\ deltas' = deltas
          /\ pre_init' = pre_init /\ writes' = writes + 1 /\ writes < MaxWrites
          /\ UNCHANGED <<pass, groups, changed, undecided, landings, now, armed, wheel,
                         gen, rhs_seen, last_ca, last_drv>>
      BY <2>2 DEF Write, loop, inert
    <3>3. writes + 1 \in 0 .. MaxWrites /\ pre_init \in BOOLEAN
      BY <3>2, SettleAssumption DEF SInv, TypeOK
    <3> HIDE DEF w
    <3> QED BY <3>1, <3>2, <3>3
  <2> QED BY <2>1, <2>2
<1>2. DOMAIN w \subseteq Nets /\ \A i \in Assigns : Lhs[i] \notin DOMAIN w
  BY <1>1, AssignTypes, SettleAssumption
<1>3. /\ val' \in [Nets -> Val] /\ dirty' \subseteq Certified
      /\ \A n \in Nets : val'[n] = IF n \in DOMAIN w THEN w[n] ELSE val[n]
  BY <1>1, <1>2, Writes DEF SInv, TypeOK
<1>4. TypeOK'
  <2>1. deltas' \in 0 .. MaxDeltas + 1 /\ ~(deltas' > MaxDeltas)
    BY <1>1, SettleAssumption DEF SInv, TypeOK
  <2> QED BY <1>1, <1>3, <2>1 DEF SInv, TypeOK
<1>5. Worklist'
  BY <1>1, <1>2, Kinds, ForeignWrite DEF Worklist
<1>6. Quiet' /\ Landings'
  BY <1>1 DEF SInv, Quiet, Landings
<1>7. Driven'
  <2>1. \A i \in Delayed : val'[Lhs[i]] = val[Lhs[i]]
    BY <1>2, <1>3, Kinds, AssignTypes
  <2> QED BY <1>1, <2>1 DEF SInv, Driven
<1> QED BY <1>4, <1>5, <1>6, <1>7 DEF SInv

\* Every step preserves the invariant.
LEMMA SInvStep == SInv /\ [Next]_vars => SInv'
<1> SUFFICES ASSUME SInv, [Next]_vars PROVE SInv'
  OBVIOUS
<1>1. CASE UNCHANGED vars \/ Arm
  <2>1. /\ UNCHANGED <<val, phase, pass, dirty, groups, changed, deltas, undecided, landings,
                       now, pre_init, wheel, gen, rhs_seen, last_ca, last_drv, writes>>
        /\ armed' \in BOOLEAN
    BY <1>1 DEF vars, Arm, nets, loop, inert, SInv, TypeOK
  <2>2. TypeOK'
    BY <2>1 DEF SInv, TypeOK
  <2> QED BY <2>1, <2>2
          DEF SInv, Worklist, Quiet, Driven, Landings, Current, Resolved, Eval
<1>2. CASE Settling
  <2>1. CASE Start
    BY <2>1, StartStep
  <2>2. CASE NextPass \/ Converged
    BY <2>2, PassEndStep
  <2>3. CASE Land \/ Settled
    BY <2>3, LandStep
  <2>4. CASE \E i \in pass : Visit(i)
    BY <2>4, VisitStep
  <2>5. CASE \E n \in groups : ResolveGroup(n)
    BY <2>5, GroupStep
  <2>6. CASE \E i \in undecided : Decide(i)
    BY <2>6, DecideStep
  <2> QED BY <1>2, <2>1, <2>2, <2>3, <2>4, <2>5, <2>6 DEF Settling
<1>3. CASE Initialize \/ \E n \in Inputs, v \in Val : Write(n, v)
  BY <1>3, ProcessStep
<1>4. CASE SameTime \/ \E t \in now + 1 .. MaxTime : Advance(t)
  BY <1>4, TimeStep
<1> QED BY <1>1, <1>2, <1>3, <1>4 DEF Next

-----------------------------------------------------------------------------
\* The invariant holds of every reachable state.
LEMMA SettleInvariant == Spec => []SInv
<1> QED BY SInvInit, SInvStep, PTL DEF Spec

\* The types; the delta budget is overrun by one and then the run is over.
THEOREM SettleTypes == Spec => []TypeOK
<1>1. SInv => TypeOK
  BY DEF SInv
<1> QED BY <1>1, SettleInvariant, PTL

\* A settle that ends has settled every net of the circuit.
THEOREM SettleIsComplete == Spec => []SettledComplete
<1>1. SInv => SettledComplete
  <2> SUFFICES ASSUME SInv, phase = "settled" PROVE SettledComplete
    BY DEF SettledComplete
  <2>1. dirty = {} /\ pass = {} /\ landings = {} /\ \A n \in MdNets : Resolved(n)
    BY DEF SInv, Quiet, Landings
  <2>2. \A i \in Assigns \ (Delayed \cup Multi) : Current(i)
    BY <2>1 DEF SInv, Worklist, Certified, Always
  <2>3. \A i \in Delayed : val[Lhs[i]] = IF last_drv[i] = None THEN "x" ELSE last_drv[i]
    BY <2>1 DEF SInv, Driven
  <2> QED BY <2>1, <2>2, <2>3 DEF SettledComplete, Current, Resolved
<1> QED BY <1>1, SettleInvariant, PTL

-----------------------------------------------------------------------------
(* Delayed assigns, for any delays: one write to come per assign, each on  *)
(* its way to its right-hand side, none decided on what the initializers   *)
(* are still to write, and the whole an implementation of the inertial     *)
(* delay.                                                                  *)

\* A wheel entry is of the present or the future, and of no later generation.
WheelTimes == \A e \in wheel : e.tick >= now /\ e.gen <= gen[e.ci]

\* One entry per assign is live.
WheelLive ==
    \A e, f \in wheel :
        e.ci = f.ci /\ e.gen = gen[e.ci] /\ f.gen = gen[f.ci] => e = f

\* The value last decided is the value of the live entry; without one it has been
\* driven, or its transition never happens.
Agrees ==
    \A i \in Delayed :
        /\ rhs_seen[i] # None => last_ca[i] = rhs_seen[i]
        /\ \A e \in Live(i) : e.val = last_ca[i]
        /\ Live(i) = {} => last_drv[i] = last_ca[i] \/ i \in Runtime

\* Once the initializers have written, a decision is the right-hand side's value.
Decided ==
    ~pre_init =>
        /\ phase = "decide" => \A i \in Delayed \ undecided : last_ca[i] = Eval(i)
        /\ phase = "settled" => \A i \in Delayed : last_ca[i] = Eval(i)

Stages == (armed => ~pre_init) /\ (~armed => now = 0)

GInv == /\ SInv
        /\ WheelTimes
        /\ WheelLive
        /\ Agrees
        /\ Decided
        /\ InitFirst
        /\ Stages

-----------------------------------------------------------------------------
\* The invariant holds before the first settle.
LEMMA GInvInit == Init => GInv
<1> SUFFICES ASSUME Init PROVE GInv
  OBVIOUS
<1>1. SInv
  BY SInvInit
<1>2. \A i \in Delayed : Live(i) = {} /\ rhs_seen[i] = None /\ last_drv[i] = last_ca[i]
  BY DEF Init, Live
<1>3. Agrees
  BY <1>2 DEF Agrees
<1>4. WheelTimes /\ WheelLive /\ Decided /\ InitFirst /\ Stages
  BY DEF Init, WheelTimes, WheelLive, Decided, InitFirst, Stages
<1> QED BY <1>1, <1>3, <1>4 DEF GInv

\* A step that decides nothing and lets no time pass.
LEMMA OtherSteps ==
    ASSUME GInv,
           \/ Start \/ NextPass \/ Converged \/ Land \/ Settled
           \/ \E i \in pass : Visit(i)
           \/ \E n \in groups : ResolveGroup(n)
           \/ Initialize \/ Arm
           \/ \E n \in Inputs, v \in Val : Write(n, v)
           \/ UNCHANGED vars
    PROVE  /\ UNCHANGED <<now, wheel, gen, rhs_seen, last_ca, last_drv>>
           /\ landings' \in {landings, {}}
           /\ pre_init' => pre_init
           /\ armed' = armed \/ (armed' /\ ~pre_init')
           /\ armed' => armed \/ ~pre_init
           /\ \/ phase' \notin {"decide", "settled"}
              \/ phase' = "decide" /\ undecided' = Delayed
              \/ /\ phase' = "settled" /\ undecided = {} /\ phase = "decide" /\ val' = val
                 /\ pre_init' = pre_init
              \/ /\ phase' = phase /\ val' = val /\ pre_init' = pre_init
                 /\ undecided' = undecided
<1>1. CASE Start \/ NextPass \/ Converged \/ Land \/ Settled
  <2>1. /\ UNCHANGED <<now, armed, pre_init, wheel, gen, rhs_seen, last_ca, last_drv>>
        /\ landings' \in {landings, {}}
    BY <1>1 DEF Start, NextPass, Converged, Land, Settled, stage, inert
  <2>2. CASE Start \/ NextPass \/ Land
    BY <2>1, <2>2 DEF Start, NextPass, Land, Again, Pass
  <2>3. CASE Converged
    BY <2>1, <2>3 DEF Converged
  <2>4. CASE Settled
    BY <2>1, <2>4 DEF Settled, nets
  <2> QED BY <1>1, <2>2, <2>3, <2>4
<1>2. CASE (\E i \in pass : Visit(i)) \/ (\E n \in groups : ResolveGroup(n))
  <2>1. /\ UNCHANGED <<now, armed, pre_init, landings, wheel, gen, rhs_seen, last_ca,
                       last_drv>>
        /\ phase' = "pass"
    <3>1. ASSUME NEW i \in pass, Visit(i)
          PROVE  UNCHANGED <<phase, landings, stage, inert>> /\ phase = "pass"
      BY <3>1 DEF Visit
    <3>2. ASSUME NEW n \in groups, ResolveGroup(n)
          PROVE  UNCHANGED <<phase, landings, stage, inert>> /\ phase = "pass"
      BY <3>2 DEF ResolveGroup
    <3>3. UNCHANGED <<phase, landings, stage, inert>> /\ phase = "pass"
      BY <1>2, <3>1, <3>2
    <3> QED BY <3>3 DEF stage, inert
  <2> QED BY <2>1
<1>3. CASE Initialize \/ \E n \in Inputs, v \in Val : Write(n, v)
  <2>1. /\ UNCHANGED <<now, armed, landings, wheel, gen, rhs_seen, last_ca, last_drv>>
        /\ phase' = "run" /\ (pre_init' => pre_init)
    <3>1. CASE Initialize
      BY <3>1 DEF Initialize, inert
    <3>2. ASSUME NEW n \in Inputs, NEW v \in Val, Write(n, v)
          PROVE  UNCHANGED <<armed, pre_init, now, loop, inert>> /\ phase' = "run"
      BY <3>2 DEF Write
    <3>3. CASE \E n \in Inputs, v \in Val : Write(n, v)
      <4>1. UNCHANGED <<armed, pre_init, now, loop, inert>> /\ phase' = "run"
        BY <3>2, <3>3
      <4> QED BY <4>1 DEF loop, inert
    <3> QED BY <1>3, <3>1, <3>3
  <2> QED BY <2>1
<1>4. CASE Arm
  <2>1. /\ UNCHANGED <<now, landings, phase, val, undecided, pre_init, wheel, gen, rhs_seen,
                       last_ca, last_drv>>
        /\ armed' /\ ~pre_init
    BY <1>4 DEF Arm, nets, loop, inert
  <2> QED BY <2>1
<1>5. CASE UNCHANGED vars
  BY <1>5 DEF vars
<1> QED BY <1>1, <1>2, <1>3, <1>4, <1>5

\* Such a step preserves the invariant.
LEMMA OtherInv ==
    ASSUME GInv, SInv',
           \/ Start \/ NextPass \/ Converged \/ Land \/ Settled
           \/ \E i \in pass : Visit(i)
           \/ \E n \in groups : ResolveGroup(n)
           \/ Initialize \/ Arm
           \/ \E n \in Inputs, v \in Val : Write(n, v)
           \/ UNCHANGED vars
    PROVE  GInv'
<1>1. /\ UNCHANGED <<now, wheel, gen, rhs_seen, last_ca, last_drv>>
      /\ landings' \in {landings, {}}
      /\ pre_init' => pre_init
      /\ armed' = armed \/ (armed' /\ ~pre_init')
      /\ armed' => armed \/ ~pre_init
      /\ \/ phase' \notin {"decide", "settled"}
         \/ phase' = "decide" /\ undecided' = Delayed
         \/ /\ phase' = "settled" /\ undecided = {} /\ phase = "decide" /\ val' = val
            /\ pre_init' = pre_init
         \/ /\ phase' = phase /\ val' = val /\ pre_init' = pre_init
            /\ undecided' = undecided
  BY OtherSteps
<1>2. \A i \in Delayed : Live(i)' = Live(i)
  BY <1>1 DEF Live
<1>3. Agrees'
  BY <1>1, <1>2 DEF GInv, Agrees
<1>4. WheelTimes' /\ WheelLive'
  BY <1>1 DEF GInv, WheelTimes, WheelLive
<1>5. InitFirst'
  <2>1. landings = {} => landings' = {}
    BY <1>1
  <2> QED BY <1>1, <2>1 DEF GInv, InitFirst
<1>6. Stages'
  BY <1>1 DEF GInv, Stages
<1>7. Decided'
  <2>1. CASE phase' \notin {"decide", "settled"}
    BY <2>1 DEF Decided
  <2>2. CASE phase' = "decide" /\ undecided' = Delayed
    BY <2>2 DEF Decided
  <2>3. CASE /\ phase' = "settled" /\ undecided = {} /\ phase = "decide" /\ val' = val
             /\ pre_init' = pre_init
    BY <1>1, <2>3 DEF GInv, Decided, Eval
  <2>4. CASE /\ phase' = phase /\ val' = val /\ pre_init' = pre_init
             /\ undecided' = undecided
    BY <1>1, <2>4 DEF GInv, Decided, Eval
  <2> QED BY <1>1, <2>1, <2>2, <2>3, <2>4
<1> QED BY <1>3, <1>4, <1>5, <1>6, <1>7 DEF GInv

-----------------------------------------------------------------------------
(* Decisions.                                                              *)

\* What deciding an assign makes of its own entries and of everyone else's.
LEMMA DecideWheel ==
    ASSUME GInv, NEW i \in undecided, Decide(i)
    PROVE  LET v == Eval(i)
               d == Transition(i, v)
               e == [ci |-> i, gen |-> gen[i] + 1, tick |-> now + d, val |-> v]
           IN  /\ i \in Delayed /\ v \in Val /\ d \in Nat
               /\ UNCHANGED <<val, phase, now, armed, pre_init>>
               /\ \/ /\ UNCHANGED <<wheel, gen, last_ca, last_drv, landings>>
                     /\ \/ rhs_seen' = rhs_seen /\ last_ca[i] = v
                        \/ rhs_seen' = [rhs_seen EXCEPT ![i] = v] /\ last_ca[i] = v
                        \/ rhs_seen' = [rhs_seen EXCEPT ![i] = None] /\ pre_init
                  \/ /\ last_ca[i] # v
                     /\ rhs_seen' = [rhs_seen EXCEPT ![i] = v]
                     /\ last_ca' = [last_ca EXCEPT ![i] = v]
                     /\ gen' = [gen EXCEPT ![i] = gen[i] + 1]
                     /\ pre_init => i \notin Runtime /\ d # 0
                     /\ \/ /\ d = Never /\ i \in Runtime
                           /\ UNCHANGED <<wheel, last_drv, landings>>
                        \/ /\ d = 0 /\ ~armed /\ ~pre_init /\ wheel' = wheel
                           /\ last_drv' = [last_drv EXCEPT ![i] = v]
                        \/ /\ d # Never /\ wheel' = wheel \cup {e}
                           /\ UNCHANGED <<last_drv, landings>>
<1> DEFINE v == Eval(i)
           d == Transition(i, v)
<1>1. /\ i \in Delayed /\ DecideOn(i, v) /\ val \in [Nets -> Val] /\ v \in Val
      /\ UNCHANGED <<val, phase, now, armed, pre_init>>
      /\ gen \in [Delayed -> Nat]
  BY Kinds, EvalType DEF Decide, nets, stage, GInv, SInv, TypeOK
<1>2. d \in Nat /\ (d = Never => i \in Runtime)
  BY <1>1, DelayType
<1> HIDE DEF v, d
<1>3. \/ UNCHANGED <<wheel, gen, rhs_seen, last_ca, last_drv, landings>> /\ Repeats(i, v)
      \/ Keeps(i, v)
      \/ last_ca[i] # v /\ Deferred(i, v) /\ Defers(i, v)
      \/ /\ last_ca[i] # v /\ ~Deferred(i, v) /\ Supersedes(i, v)
         /\ \/ d = Never /\ UNCHANGED <<wheel, last_drv, landings>>
            \/ d = 0 /\ MayLand /\ LandsNow(i, v)
            \/ d # Never /\ Schedules(i, v, d)
  BY <1>1, Branches DEF d
<1>4. CASE UNCHANGED <<wheel, gen, rhs_seen, last_ca, last_drv, landings>> /\ Repeats(i, v)
  <2>1. last_ca[i] = v
    BY <1>1, <1>4, SettleAssumption DEF GInv, Agrees, Repeats
  <2> QED BY <1>1, <1>2, <1>4, <2>1 DEF v, d
<1>5. CASE Keeps(i, v)
  BY <1>1, <1>2, <1>5 DEF Keeps, v, d
<1>6. CASE last_ca[i] # v /\ Deferred(i, v) /\ Defers(i, v)
  BY <1>1, <1>2, <1>6 DEF Defers, Deferred, v, d
<1>7. CASE /\ last_ca[i] # v /\ ~Deferred(i, v) /\ Supersedes(i, v)
           /\ \/ d = Never /\ UNCHANGED <<wheel, last_drv, landings>>
              \/ d = 0 /\ MayLand /\ LandsNow(i, v)
              \/ d # Never /\ Schedules(i, v, d)
  <2>1. /\ rhs_seen' = [rhs_seen EXCEPT ![i] = v]
        /\ last_ca' = [last_ca EXCEPT ![i] = v]
        /\ gen' = [gen EXCEPT ![i] = gen[i] + 1] /\ gen'[i] = gen[i] + 1
    BY <1>1, <1>7 DEF Supersedes, NextGen
  <2>2. pre_init => i \notin Runtime /\ d # 0
    BY <1>7 DEF Deferred, d
  <2>3. \/ /\ d = Never /\ i \in Runtime
           /\ UNCHANGED <<wheel, last_drv, landings>>
        \/ /\ d = 0 /\ ~armed /\ ~pre_init /\ wheel' = wheel
           /\ last_drv' = [last_drv EXCEPT ![i] = v]
        \/ /\ d # Never
           /\ wheel' = wheel \cup
                {[ci |-> i, gen |-> gen[i] + 1, tick |-> now + d, val |-> v]}
           /\ UNCHANGED <<last_drv, landings>>
    BY <1>2, <1>7, <2>1 DEF MayLand, LandsNow, Schedules
  <2> QED BY <1>1, <1>2, <1>7, <2>1, <2>2, <2>3 DEF v, d
<1> QED BY <1>3, <1>4, <1>5, <1>6, <1>7

\* The live entries after a decision.
LEMMA DecideLive ==
    ASSUME GInv, NEW i \in undecided, Decide(i)
    PROVE  LET v == Eval(i)
               d == Transition(i, v)
               e == [ci |-> i, gen |-> gen[i] + 1, tick |-> now + d, val |-> v]
           IN  /\ \A j \in Delayed : j # i => Live(j)' = Live(j)
               /\ \/ UNCHANGED <<wheel, gen>> /\ Live(i)' = Live(i)
                  \/ last_ca[i] # v /\ wheel' = wheel /\ Live(i)' = {}
                  \/ last_ca[i] # v /\ wheel' = wheel \cup {e} /\ Live(i)' = {e}
<1> DEFINE v == Eval(i)
           d == Transition(i, v)
           e == [ci |-> i, gen |-> gen[i] + 1, tick |-> now + d, val |-> v]
<1>1. /\ i \in Delayed
      /\ \/ UNCHANGED <<wheel, gen>>
         \/ /\ last_ca[i] # v /\ gen' = [gen EXCEPT ![i] = gen[i] + 1]
            /\ wheel' = wheel \/ wheel' = wheel \cup {e}
  BY DecideWheel
<1>2. e.ci = i /\ e.gen = gen[i] + 1
  OBVIOUS
<1> HIDE DEF v, d, e
<1>3. /\ gen \in [Delayed -> Nat] /\ wheel \subseteq Entry
      /\ \A f \in wheel : f.gen <= gen[f.ci]
  BY DEF GInv, SInv, TypeOK, WheelTimes
<1>4. CASE UNCHANGED <<wheel, gen>>
  BY <1>4 DEF Live, v, d, e
<1>5. CASE last_ca[i] # v /\ gen' = [gen EXCEPT ![i] = gen[i] + 1]
  <2>1. gen'[i] = gen[i] + 1 /\ \A j \in Delayed : j # i => gen'[j] = gen[j]
    BY <1>1, <1>3, <1>5
  <2>2. \A f \in wheel : f.ci = i => f.gen # gen'[i]
    <3> SUFFICES ASSUME NEW f \in wheel, f.ci = i, f.gen = gen[i] + 1 PROVE FALSE
      BY <2>1
    <3>1. f.gen <= gen[i] /\ gen[i] \in Nat
      BY <1>1, <1>3
    <3> QED BY <3>1
  <2>3. \A j \in Delayed : j # i => Live(j)' = Live(j)
    <3> SUFFICES ASSUME NEW j \in Delayed, j # i PROVE Live(j)' = Live(j)
      OBVIOUS
    <3> QED BY <1>1, <1>2, <1>5, <2>1 DEF Live
  <2>4. CASE wheel' = wheel
    <3>1. Live(i)' = {}
      BY <2>2, <2>4 DEF Live
    <3> QED BY <1>5, <2>3, <2>4, <3>1 DEF v, d, e
  <2>5. CASE wheel' = wheel \cup {e}
    <3>1. Live(i)' = {e}
      BY <1>2, <2>1, <2>2, <2>5 DEF Live
    <3> QED BY <1>5, <2>3, <2>5, <3>1 DEF v, d, e
  <2>6. wheel' = wheel \/ wheel' = wheel \cup {e}
    BY <1>1, <1>5
  <2> QED BY <2>4, <2>5, <2>6
<1> QED BY <1>1, <1>4, <1>5

\* A decision preserves the invariant.
LEMMA DecideInv == ASSUME GInv, NEW i \in undecided, Decide(i) PROVE GInv'
<1> DEFINE v == Eval(i)
           d == Transition(i, v)
           e == [ci |-> i, gen |-> gen[i] + 1, tick |-> now + d, val |-> v]
<1>1. /\ i \in Delayed /\ v \in Val /\ d \in Nat
      /\ UNCHANGED <<val, phase, now, armed, pre_init>>
      /\ \/ /\ UNCHANGED <<wheel, gen, last_ca, last_drv, landings>>
            /\ \/ rhs_seen' = rhs_seen /\ last_ca[i] = v
               \/ rhs_seen' = [rhs_seen EXCEPT ![i] = v] /\ last_ca[i] = v
               \/ rhs_seen' = [rhs_seen EXCEPT ![i] = None] /\ pre_init
         \/ /\ last_ca[i] # v
            /\ rhs_seen' = [rhs_seen EXCEPT ![i] = v]
            /\ last_ca' = [last_ca EXCEPT ![i] = v]
            /\ gen' = [gen EXCEPT ![i] = gen[i] + 1]
            /\ pre_init => i \notin Runtime /\ d # 0
            /\ \/ /\ d = Never /\ i \in Runtime
                  /\ UNCHANGED <<wheel, last_drv, landings>>
               \/ /\ d = 0 /\ ~armed /\ ~pre_init /\ wheel' = wheel
                  /\ last_drv' = [last_drv EXCEPT ![i] = v]
               \/ /\ d # Never /\ wheel' = wheel \cup {e}
                  /\ UNCHANGED <<last_drv, landings>>
  BY DecideWheel
<1>2. /\ \A j \in Delayed : j # i => Live(j)' = Live(j)
      /\ \/ UNCHANGED <<wheel, gen>> /\ Live(i)' = Live(i)
         \/ last_ca[i] # v /\ wheel' = wheel /\ Live(i)' = {}
         \/ last_ca[i] # v /\ wheel' = wheel \cup {e} /\ Live(i)' = {e}
  BY DecideLive
<1>3. e.ci = i /\ e.gen = gen[i] + 1 /\ e.tick = now + d /\ e.val = v
  OBVIOUS
<1>4. undecided' = undecided \ {i} /\ Eval(i)' = Eval(i) /\ phase = "decide"
  BY <1>1 DEF Decide, Eval
<1> HIDE DEF v, d, e
<1>5. /\ gen \in [Delayed -> Nat] /\ wheel \subseteq Entry /\ now \in Nat
      /\ rhs_seen \in [Delayed -> Val \cup {None}] /\ last_ca \in [Delayed -> Val \cup {None}]
      /\ last_drv \in [Delayed -> Val \cup {None}] /\ v # None
  BY <1>1, SettleAssumption DEF GInv, SInv, TypeOK
<1>6. SInv'
  BY DecideStep DEF GInv
<1>7. wheel' = wheel \/ (wheel' = wheel \cup {e} /\ gen' = [gen EXCEPT ![i] = gen[i] + 1])
  BY <1>1
<1>8. \A j \in Delayed : gen'[j] >= gen[j] /\ gen'[j] \in Nat
  <2>1. gen' = gen \/ gen' = [gen EXCEPT ![i] = gen[i] + 1]
    BY <1>1
  <2>2. \A j \in Delayed : gen[j] \in Nat
    BY <1>5
  <2>3. CASE gen' = gen
    BY <2>2, <2>3
  <2>4. CASE gen' = [gen EXCEPT ![i] = gen[i] + 1]
    <3>1. \A j \in Delayed : gen'[j] = gen[j] \/ gen'[j] = gen[j] + 1
      BY <1>5, <2>4
    <3> QED BY <2>2, <3>1
  <2> QED BY <2>1, <2>3, <2>4
<1>9. WheelTimes'
  <2> SUFFICES ASSUME NEW f \in wheel' PROVE f.tick >= now /\ f.gen <= gen'[f.ci]
    BY <1>1 DEF WheelTimes
  <2>1. CASE f \in wheel
    <3>1. f.tick >= now /\ f.gen <= gen[f.ci] /\ f.ci \in Delayed /\ f.gen \in Nat
      BY <1>5, <2>1 DEF GInv, WheelTimes, Entry
    <3>2. gen[f.ci] \in Nat /\ gen'[f.ci] \in Nat /\ gen'[f.ci] >= gen[f.ci]
      BY <1>5, <1>8, <3>1
    <3> QED BY <3>1, <3>2
  <2>2. CASE f = e /\ gen' = [gen EXCEPT ![i] = gen[i] + 1]
    <3>1. gen'[i] = gen[i] + 1 /\ gen[i] \in Nat
      BY <1>1, <1>5, <2>2
    <3>2. now + d >= now
      BY <1>1, <1>5
    <3> QED BY <1>3, <2>2, <3>1, <3>2
  <2> QED BY <1>7, <2>1, <2>2
<1>10. WheelLive'
  <2> SUFFICES ASSUME NEW f \in wheel', NEW g \in wheel', f.ci = g.ci,
                      f.gen = gen'[f.ci], g.gen = gen'[g.ci]
               PROVE  f = g
    BY DEF WheelLive
  <2>1. f.ci \in Delayed
    BY <1>1, <1>3, <1>5, <1>7 DEF Entry
  <2>2. f \in Live(f.ci)' /\ g \in Live(f.ci)'
    BY DEF Live
  <2>3. CASE Live(f.ci)' = Live(f.ci)
    BY <2>2, <2>3 DEF Live, GInv, WheelLive
  <2>4. CASE Live(f.ci)' = {} \/ Live(f.ci)' = {e}
    BY <2>2, <2>4
  <2> QED BY <1>2, <2>1, <2>3, <2>4
<1>11. Agrees'
  <2> SUFFICES ASSUME NEW j \in Delayed
               PROVE  /\ rhs_seen'[j] # None => last_ca'[j] = rhs_seen'[j]
                      /\ \A f \in Live(j)' : f.val = last_ca'[j]
                      /\ Live(j)' = {} => last_drv'[j] = last_ca'[j] \/ j \in Runtime
    BY DEF Agrees
  <2>1. /\ rhs_seen[j] # None => last_ca[j] = rhs_seen[j]
        /\ \A f \in Live(j) : f.val = last_ca[j]
        /\ Live(j) = {} => last_drv[j] = last_ca[j] \/ j \in Runtime
    BY DEF GInv, Agrees
  <2>2. CASE j # i
    <3>1. /\ rhs_seen'[j] = rhs_seen[j] /\ last_ca'[j] = last_ca[j]
          /\ last_drv'[j] = last_drv[j]
      BY <1>1, <1>5, <2>2
    <3> QED BY <1>2, <2>1, <2>2, <3>1
  <2>3. CASE j = i /\ UNCHANGED <<wheel, gen, last_ca, last_drv, landings>>
    <3>1. Live(i)' = Live(i)
      BY <2>3 DEF Live
    <3>2. \/ rhs_seen'[i] = rhs_seen[i]
          \/ rhs_seen'[i] = v /\ last_ca[i] = v
          \/ rhs_seen'[i] = None
      <4>1. gen'[i] # gen[i] + 1
        BY <1>5, <2>3
      <4>2. gen' # [gen EXCEPT ![i] = gen[i] + 1]
        BY <1>1, <1>5, <4>1
      <4> QED BY <1>1, <1>5, <4>2
    <3> QED BY <2>1, <2>3, <3>1, <3>2
  <2>4. CASE /\ j = i /\ last_ca[i] # v
             /\ rhs_seen' = [rhs_seen EXCEPT ![i] = v]
             /\ last_ca' = [last_ca EXCEPT ![i] = v]
             /\ gen' = [gen EXCEPT ![i] = gen[i] + 1]
             /\ \/ d = Never /\ i \in Runtime /\ wheel' = wheel
                \/ wheel' = wheel /\ last_drv' = [last_drv EXCEPT ![i] = v]
                \/ wheel' = wheel \cup {e}
    <3>1. rhs_seen'[i] = v /\ last_ca'[i] = v
      BY <1>1, <1>5, <2>4
    <3>2. gen'[i] = gen[i] + 1 /\ gen[i] \in Nat
      BY <1>1, <1>5, <2>4
    <3>3. gen' # gen
      BY <3>2
    <3>4. \A f \in Live(i)' : f.val = v
      BY <1>2, <1>3, <3>3
    <3>5. Live(i)' = {} => i \in Runtime \/ last_drv' = [last_drv EXCEPT ![i] = v]
      <4>1. CASE wheel' = wheel \cup {e}
        <5>1. e \in wheel' /\ e.gen = gen'[i]
          BY <1>3, <3>2, <4>1
        <5>2. e \in Live(i)'
          BY <1>3, <5>1 DEF Live
        <5> QED BY <5>2
      <4> QED BY <2>4, <4>1
    <3> QED BY <1>1, <1>5, <2>4, <3>1, <3>4, <3>5
  <2> QED BY <1>1, <2>2, <2>3, <2>4
<1>12. Decided'
  <2> SUFFICES ASSUME ~pre_init, NEW j \in Delayed \ undecided'
               PROVE  last_ca'[j] = Eval(j)'
    BY <1>1, <1>4 DEF Decided
  <2>1. Eval(j)' = Eval(j)
    BY <1>1 DEF Eval
  <2>2. CASE j = i
    <3>1. last_ca'[i] = v
      BY <1>1, <1>5
    <3> QED BY <2>1, <2>2, <3>1 DEF v
  <2>3. CASE j # i
    <3>1. last_ca'[j] = last_ca[j]
      BY <1>1, <1>5, <2>3
    <3> QED BY <1>4, <2>1, <2>3, <3>1 DEF GInv, Decided
  <2> QED BY <2>2, <2>3
<1>13. InitFirst'
  <2> SUFFICES ASSUME pre_init
               PROVE  /\ landings' = {} /\ \A j \in Delayed : last_drv'[j] = None
                      /\ \A f \in wheel' : f.ci \notin Runtime /\ f.tick > now
    BY <1>1 DEF InitFirst
  <2>1. /\ landings = {} /\ \A j \in Delayed : last_drv[j] = None
        /\ \A f \in wheel : f.ci \notin Runtime /\ f.tick > now
    BY DEF GInv, InitFirst
  <2>2. \/ UNCHANGED <<wheel, last_drv, landings>>
        \/ /\ UNCHANGED <<last_drv, landings>> /\ wheel' = wheel \cup {e}
           /\ i \notin Runtime /\ d # 0
    BY <1>1
  <2>3. d # 0 => now + d > now
    BY <1>1, <1>5
  <2> QED BY <1>3, <2>1, <2>2, <2>3
<1>14. Stages'
  BY <1>1 DEF GInv, Stages
<1> QED BY <1>6, <1>9, <1>10, <1>11, <1>12, <1>13, <1>14 DEF GInv

-----------------------------------------------------------------------------
(* Time.                                                                   *)

\* A tick taken off the wheel ends the live write of an assign, which is then what
\* it has driven, or leaves the assign as it was.
LEMMA DueLive ==
    ASSUME GInv, NEW t, TakeDue(t), NEW i \in Delayed
    PROVE  \/ \E e \in Live(i) : /\ e.tick = t /\ last_drv'[i] = e.val
                                 /\ Live(i) = {e} /\ Live(i)' = {}
           \/ /\ Live(i)' = Live(i) /\ last_drv'[i] = last_drv[i]
              /\ \A e \in Live(i) : e.tick # t
<1> DEFINE live == {e \in Due(t) : Survives(e)}
           w    == [n \in {Lhs[e.ci] : e \in live} |->
                       (CHOOSE e \in live : Lhs[e.ci] = n).val]
<1>1. /\ wheel' = wheel \ Due(t) /\ gen' = gen
      /\ last_drv' = [j \in Delayed |->
              IF \E e \in live : e.ci = j THEN w[Lhs[j]] ELSE last_drv[j]]
  BY DEF TakeDue
<1>2. wheel \subseteq Entry
  BY DEF GInv, SInv, TypeOK
<1>3. \A e \in live : e \in wheel /\ e.tick = t /\ e.gen = gen[e.ci] /\ e.ci \in Delayed
  BY <1>2 DEF Due, Survives, Entry
<1>4. \A e \in wheel : e.tick = t /\ e.gen = gen[e.ci] => e \in live
  BY DEF Due, Survives
<1>5. Live(i)' = {e \in Live(i) : e.tick # t}
  BY <1>1 DEF Live, Due
<1>6. DOMAIN w = {Lhs[e.ci] : e \in live}
  OBVIOUS
<1>7. \A n \in DOMAIN w : w[n] = (CHOOSE e \in live : Lhs[e.ci] = n).val
  OBVIOUS
<1> HIDE DEF w, live
<1>8. CASE \E e \in live : e.ci = i
  <2>1. PICK e \in live : e.ci = i
    BY <1>8
  <2>2. e \in Live(i) /\ e.tick = t /\ e \in wheel
    BY <1>3, <2>1 DEF Live
  <2>3. \A f \in Live(i) : f = e
    BY <1>3, <2>1, <2>2 DEF Live, GInv, WheelLive
  <2>4. Live(i) = {e} /\ Live(i)' = {}
    BY <1>5, <2>2, <2>3
  <2> DEFINE q == CHOOSE f \in live : Lhs[f.ci] = Lhs[i]
  <2>5. q \in live /\ Lhs[q.ci] = Lhs[i]
    BY <2>1
  <2>6. Lhs[i] \in DOMAIN w /\ w[Lhs[i]] = q.val
    BY <1>6, <1>7, <2>1
  <2> HIDE DEF q
  <2>7. q.ci = i
    BY <1>3, <2>5, Kinds, SettleAssumption
  <2>8. q = e
    BY <1>3, <2>3, <2>5, <2>7 DEF Live
  <2>9. last_drv'[i] = e.val
    BY <1>1, <1>8, <2>6, <2>8
  <2> QED BY <2>2, <2>4, <2>9
<1>9. CASE ~ \E e \in live : e.ci = i
  <2>1. \A e \in Live(i) : e.tick # t
    BY <1>4, <1>9 DEF Live
  <2>2. Live(i)' = Live(i)
    BY <1>5, <2>1
  <2>3. last_drv'[i] = last_drv[i]
    BY <1>1, <1>9
  <2> QED BY <2>1, <2>2, <2>3
<1> QED BY <1>8, <1>9

\* What time does.
LEMMA Passing ==
    ASSUME GInv, SameTime \/ \E t \in now + 1 .. MaxTime : Advance(t)
    PROVE  /\ TakeDue(now') /\ now' >= now /\ now' \in Nat
           /\ \A e \in wheel : e.tick >= now'
           /\ armed /\ armed' = armed /\ pre_init' = pre_init /\ phase' \in {"run", "fatal"}
<1>1. now \in Nat
  BY DEF GInv, SInv, TypeOK
<1>2. CASE SameTime
  BY <1>1, <1>2 DEF SameTime, stage, GInv, WheelTimes
<1>3. CASE \E t \in now + 1 .. MaxTime : Advance(t)
  <2>1. PICK t \in now + 1 .. MaxTime : Advance(t)
    BY <1>3
  <2>2. t \in Nat /\ t >= now
    BY <1>1, SettleAssumption
  <2> QED BY <2>1, <2>2 DEF Advance
<1> QED BY <1>2, <1>3

\* Passing time preserves the invariant.
LEMMA TimeInv ==
    ASSUME GInv, SameTime \/ \E t \in now + 1 .. MaxTime : Advance(t) PROVE GInv'
<1>1. /\ TakeDue(now') /\ now' >= now /\ now' \in Nat
      /\ \A e \in wheel : e.tick >= now'
      /\ armed /\ armed' = armed /\ pre_init' = pre_init /\ phase' \in {"run", "fatal"}
  BY Passing
<1>2. /\ wheel' \subseteq wheel /\ gen' = gen /\ rhs_seen' = rhs_seen /\ last_ca' = last_ca
  BY <1>1 DEF TakeDue
<1>3. SInv'
  BY TimeStep DEF GInv
<1>4. WheelTimes' /\ WheelLive'
  BY <1>1, <1>2 DEF GInv, WheelTimes, WheelLive
<1>5. Agrees'
  <2> SUFFICES ASSUME NEW i \in Delayed
               PROVE  /\ rhs_seen'[i] # None => last_ca'[i] = rhs_seen'[i]
                      /\ \A e \in Live(i)' : e.val = last_ca'[i]
                      /\ Live(i)' = {} => last_drv'[i] = last_ca'[i] \/ i \in Runtime
    BY DEF Agrees
  <2>1. /\ rhs_seen[i] # None => last_ca[i] = rhs_seen[i]
        /\ \A e \in Live(i) : e.val = last_ca[i]
        /\ Live(i) = {} => last_drv[i] = last_ca[i] \/ i \in Runtime
    BY DEF GInv, Agrees
  <2>2. \/ \E e \in Live(i) : last_drv'[i] = e.val /\ Live(i)' = {}
        \/ Live(i)' = Live(i) /\ last_drv'[i] = last_drv[i]
    BY <1>1, DueLive
  <2> QED BY <1>2, <2>1, <2>2
<1>6. Decided' /\ InitFirst' /\ Stages'
  BY <1>1 DEF GInv, Decided, InitFirst, Stages
<1> QED BY <1>3, <1>4, <1>5, <1>6 DEF GInv

\* Every step preserves the invariant.
LEMMA GInvStep == GInv /\ [Next]_vars => GInv'
<1> SUFFICES ASSUME GInv, [Next]_vars PROVE GInv'
  OBVIOUS
<1>1. SInv'
  BY SInvStep DEF GInv
<1>2. CASE SameTime \/ \E t \in now + 1 .. MaxTime : Advance(t)
  BY <1>2, TimeInv
<1>3. CASE \E i \in undecided : Decide(i)
  BY <1>3, DecideInv
<1>4. CASE \/ Start \/ NextPass \/ Converged \/ Land \/ Settled
           \/ \E i \in pass : Visit(i)
           \/ \E n \in groups : ResolveGroup(n)
           \/ Initialize \/ Arm
           \/ \E n \in Inputs, v \in Val : Write(n, v)
           \/ UNCHANGED vars
  BY <1>1, <1>4, OtherInv
<1> QED BY <1>2, <1>3, <1>4 DEF Next, Settling

-----------------------------------------------------------------------------
\* The invariant holds of every reachable state.
LEMMA InertialInvariant == Spec => []GInv
<1> QED BY GInvInit, GInvStep, PTL DEF Spec

\* One write to come per assign, of its newest generation and of its last decision.
THEOREM OneLiveWrite == Spec => []OneLive
<1>1. GInv => OneLive
  <2> SUFFICES ASSUME GInv, NEW i \in Delayed
               PROVE  Cardinality(Live(i)) <= 1 /\ \A e \in Live(i) : e.val = last_ca[i]
    BY DEF OneLive, GInv, WheelTimes
  <2>1. \A e, f \in Live(i) : e = f
    BY DEF Live, GInv, WheelLive
  <2>2. CASE Live(i) = {}
    <3>1. Cardinality({}) = 0
      BY FS_EmptySet
    <3> QED BY <2>2, <3>1
  <2>3. CASE Live(i) # {}
    <3>1. PICK e : Live(i) = {e}
      BY <2>1, <2>3
    <3>2. Cardinality({e}) = 1
      BY FS_Singleton
    <3>3. Cardinality(Live(i)) <= 1
      BY <3>1, <3>2
    <3> QED BY <3>3 DEF GInv, Agrees
  <2> QED BY <2>2, <2>3
<1> QED BY <1>1, InertialInvariant, PTL

\* Each delayed assign is on its way to its right-hand side.
THEOREM WritesFollowRhs == Spec => []FollowsRhs
<1>1. GInv => FollowsRhs
  <2> SUFFICES ASSUME GInv, phase = "settled", armed, NEW i \in Delayed
               PROVE  \/ \E e \in Live(i) : e.val = Eval(i)
                      \/ Live(i) = {} /\ last_drv[i] = Eval(i)
                      \/ Live(i) = {} /\ last_ca[i] = Eval(i) /\ i \in Runtime
    BY DEF FollowsRhs
  <2>1. last_ca[i] = Eval(i)
    BY DEF GInv, Decided, Stages
  <2>2. \A e \in Live(i) : e.val = last_ca[i]
    BY DEF GInv, Agrees
  <2>3. Live(i) = {} => last_drv[i] = last_ca[i] \/ i \in Runtime
    BY DEF GInv, Agrees
  <2> QED BY <2>1, <2>2, <2>3
<1> QED BY <1>1, InertialInvariant, PTL

\* Nothing is decided on a value that precedes the initializers.
THEOREM InitializersFirst == Spec => []InitFirst
<1>1. GInv => InitFirst
  BY DEF GInv
<1> QED BY <1>1, InertialInvariant, PTL

-----------------------------------------------------------------------------
(* The inertial delay.                                                     *)

\* The event of an assign is its live write, unless it would change nothing.
PendingOf(live, drv) ==
    {[val |-> e.val, due |-> e.tick] : e \in {f \in live : f.val # drv}}

\* The event of an assign with one live write, or with none.
LEMMA OneEvent ==
    ASSUME NEW drv
    PROVE  /\ PendingOf({}, drv) = {}
           /\ \A e : PendingOf({e}, drv) = IF e.val = drv THEN {}
                                           ELSE {[val |-> e.val, due |-> e.tick]}
BY DEF PendingOf

\* A decision is a step of the inertial delay, or none.
LEMMA DecideImplements ==
    ASSUME GInv, NEW i \in undecided, Decide(i)
    PROVE  [Inertial!Next]_<<now, last_drv, [j \in Delayed |-> Pending(j)]>>
<1> DEFINE v == Eval(i)
           d == Transition(i, v)
           e == [ci |-> i, gen |-> gen[i] + 1, tick |-> now + d, val |-> v]
           pend == [j \in Delayed |-> Pending(j)]
<1>1. /\ i \in Delayed /\ v \in Val /\ d \in Nat
      /\ UNCHANGED <<val, phase, now, armed, pre_init>>
      /\ \/ UNCHANGED <<wheel, gen, last_ca, last_drv, landings>>
         \/ /\ last_ca[i] # v
            /\ gen' = [gen EXCEPT ![i] = gen[i] + 1]
            /\ \/ /\ d = Never /\ i \in Runtime
                  /\ UNCHANGED <<wheel, last_drv, landings>>
               \/ /\ d = 0 /\ ~armed /\ ~pre_init /\ wheel' = wheel
                  /\ last_drv' = [last_drv EXCEPT ![i] = v]
               \/ /\ d # Never /\ wheel' = wheel \cup {e}
                  /\ UNCHANGED <<last_drv, landings>>
  BY DecideWheel
<1>2. /\ \A j \in Delayed : j # i => Live(j)' = Live(j)
      /\ \/ UNCHANGED <<wheel, gen>> /\ Live(i)' = Live(i)
         \/ last_ca[i] # v /\ wheel' = wheel /\ Live(i)' = {}
         \/ last_ca[i] # v /\ wheel' = wheel \cup {e} /\ Live(i)' = {e}
  BY DecideLive
<1>3. e.ci = i /\ e.gen = gen[i] + 1 /\ e.tick = now + d /\ e.val = v
  OBVIOUS
<1>4. Inertial!DelayOf(i, v) = d
  BY DEF Inertial!DelayOf, Transition
<1> HIDE DEF v, d, e
<1>5. /\ last_drv \in [Delayed -> Val \cup {None}] /\ gen[i] \in Nat
  BY <1>1 DEF GInv, SInv, TypeOK
<1>6. \A f \in Live(i) : f.val = last_ca[i]
  BY <1>1 DEF GInv, Agrees
<1>7. \A j \in Delayed : pend[j] = PendingOf(Live(j), last_drv[j])
  BY DEF Pending, PendingOf
<1>8. \A j \in Delayed : pend'[j] = PendingOf(Live(j)', last_drv'[j])
  BY DEF Pending, PendingOf
<1>9. DOMAIN pend = Delayed /\ DOMAIN pend' = Delayed
  OBVIOUS
<1>10. \A f \in pend[i] : f.val = last_ca[i]
  <2>1. pend[i] = PendingOf(Live(i), last_drv[i])
    BY <1>1, <1>7
  <2> QED BY <1>6, <2>1 DEF PendingOf
<1>11. pend = [j \in Delayed |-> pend[j]] /\ pend' = [j \in Delayed |-> pend'[j]]
  OBVIOUS
<1> HIDE DEF pend
<1>12. ASSUME NEW x, \A j \in Delayed : j # i => last_drv'[j] = last_drv[j],
              PendingOf(Live(i)', last_drv'[i]) = x
       PROVE  pend' = [pend EXCEPT ![i] = x]
  <2>1. \A j \in Delayed : j # i => pend'[j] = pend[j]
    BY <1>2, <1>7, <1>8, <1>12
  <2>2. pend'[i] = x
    BY <1>1, <1>8, <1>12
  <2>3. \A j \in Delayed : pend'[j] = [pend EXCEPT ![i] = x][j]
    BY <1>9, <2>1, <2>2
  <2>4. [pend EXCEPT ![i] = x] = [j \in Delayed |-> [pend EXCEPT ![i] = x][j]]
    BY <1>9
  <2> QED BY <1>11, <2>3, <2>4
<1>13. e \notin wheel
  <2>1. \A f \in wheel : f.ci = i => f.gen # gen[i] + 1
    <3> SUFFICES ASSUME NEW f \in wheel, f.ci = i, f.gen = gen[i] + 1 PROVE FALSE
      OBVIOUS
    <3>1. f.gen <= gen[i]
      BY DEF GInv, WheelTimes
    <3> QED BY <1>5, <3>1
  <2> QED BY <1>3, <2>1
<1>14. gen' # gen => \/ Live(i)' = {}
                     \/ wheel' = wheel \cup {e} /\ Live(i)' = {e}
  BY <1>2
<1>15. CASE UNCHANGED <<wheel, gen, last_ca, last_drv, landings>>
  <2>1. \A j \in Delayed : Live(j)' = Live(j)
    BY <1>15 DEF Live
  <2>2. pend' = pend
    BY <1>7, <1>8, <1>11, <1>15, <2>1
  <2> QED BY <1>1, <1>15, <2>2 DEF pend
<1>16. CASE /\ last_ca[i] # v /\ gen' = [gen EXCEPT ![i] = gen[i] + 1]
            /\ d = Never /\ UNCHANGED <<wheel, last_drv>>
  <2>1. gen' # gen
    <3>1. gen'[i] # gen[i]
      BY <1>1, <1>5, <1>16 DEF GInv, SInv, TypeOK
    <3> QED BY <3>1
  <2>2. ~ (wheel' = wheel \cup {e})
    BY <1>16, <1>13
  <2>3. Live(i)' = {}
    BY <1>14, <2>1, <2>2
  <2>4. pend' = [pend EXCEPT ![i] = {}]
    BY <1>12, <1>16, <2>3, OneEvent
  <2>5. Inertial!Event(v, d) = {}
    BY <1>16 DEF Inertial!Event
  <2>6. \A f \in pend[i] : f.val # v
    BY <1>10, <1>16
  <2>7. Inertial!Takes(i, v)
    BY <1>1, <1>4, <1>16, <2>4, <2>5, <2>6 DEF Inertial!Takes, pend
  <2> QED BY <1>1, <2>7 DEF Inertial!Next
<1>17. CASE /\ d = 0 /\ ~armed /\ wheel' = wheel /\ gen' = [gen EXCEPT ![i] = gen[i] + 1]
            /\ last_drv' = [last_drv EXCEPT ![i] = v]
  <2>1. gen' # gen
    <3>1. gen'[i] # gen[i]
      BY <1>1, <1>5, <1>17 DEF GInv, SInv, TypeOK
    <3> QED BY <3>1
  <2>2. ~ (wheel' = wheel \cup {e})
    BY <1>17, <1>13
  <2>3. Live(i)' = {}
    BY <1>14, <2>1, <2>2
  <2>4. \A j \in Delayed : j # i => last_drv'[j] = last_drv[j]
    BY <1>5, <1>17
  <2>5. pend' = [pend EXCEPT ![i] = {}]
    BY <1>12, <2>3, <2>4, OneEvent
  <2>6. now = 0
    BY <1>17 DEF GInv, Stages
  <2>7. Inertial!AtOnce(i, v)
    BY <1>1, <1>4, <1>17, <2>5, <2>6 DEF Inertial!AtOnce, pend
  <2> QED BY <1>1, <2>7 DEF Inertial!Next
<1>18. CASE /\ last_ca[i] # v /\ d # Never /\ wheel' = wheel \cup {e}
            /\ gen' = [gen EXCEPT ![i] = gen[i] + 1] /\ last_drv' = last_drv
  <2>1. gen'[i] = gen[i] + 1 /\ gen' # gen
    BY <1>1, <1>5, <1>18 DEF GInv, SInv, TypeOK
  <2>2. e \in Live(i)'
    BY <1>3, <1>18, <2>1 DEF Live
  <2>3. Live(i)' = {e}
    BY <1>2, <2>1, <2>2
  <2>4. PendingOf(Live(i)', last_drv'[i]) =
          IF v = last_drv[i] THEN {} ELSE {[val |-> v, due |-> now + d]}
    <3>1. PendingOf({e}, last_drv[i]) = IF e.val = last_drv[i] THEN {}
                                        ELSE {[val |-> e.val, due |-> e.tick]}
      BY OneEvent
    <3>2. last_drv'[i] = last_drv[i]
      BY <1>18
    <3> QED BY <1>3, <2>3, <3>1, <3>2
  <2>5. pend' = [pend EXCEPT ![i] = IF v = last_drv[i] THEN {}
                                    ELSE {[val |-> v, due |-> now + d]}]
    BY <1>12, <1>18, <2>4
  <2>6. \A f \in pend[i] : f.val # v
    BY <1>10, <1>18
  <2>7. Inertial!Event(v, d) = {[val |-> v, due |-> now + d]}
    BY <1>18 DEF Inertial!Event
  <2>8. Inertial!Takes(i, v)
    BY <1>1, <1>4, <1>18, <2>5, <2>6, <2>7 DEF Inertial!Takes, pend
  <2> QED BY <1>1, <2>8 DEF Inertial!Next
<1> QED BY <1>1, <1>15, <1>16, <1>17, <1>18

\* Passing time makes the events of that time happen.
LEMMA TimeImplements ==
    ASSUME GInv, SameTime \/ \E t \in now + 1 .. MaxTime : Advance(t)
    PROVE  Inertial!Next
<1> DEFINE pend == [j \in Delayed |-> Pending(j)]
<1>1. /\ TakeDue(now') /\ now' >= now /\ \A e \in wheel : e.tick >= now'
  BY Passing
<1>2. \A i \in Delayed : pend[i] = PendingOf(Live(i), last_drv[i])
  BY DEF Pending, PendingOf
<1>3. \A i \in Delayed : pend'[i] = PendingOf(Live(i)', last_drv'[i])
  BY DEF Pending, PendingOf
<1>4. pend' = [i \in Delayed |-> pend'[i]]
  OBVIOUS
<1> HIDE DEF pend
<1>5. \A i \in Delayed : \A e \in pend[i] : e.due >= now'
  BY <1>1, <1>2 DEF PendingOf, Live
<1> DEFINE due(i) == {e \in pend[i] : e.due = now'}
<1>6. ASSUME NEW i \in Delayed
      PROVE  /\ last_drv'[i] = IF due(i) = {} THEN last_drv[i]
                               ELSE (CHOOSE e \in due(i) : TRUE).val
             /\ pend'[i] = pend[i] \ due(i)
  <2>1. CASE \E e \in Live(i) : /\ e.tick = now' /\ last_drv'[i] = e.val
                                /\ Live(i) = {e} /\ Live(i)' = {}
    <3>1. PICK e \in Live(i) : /\ e.tick = now' /\ last_drv'[i] = e.val
                               /\ Live(i) = {e} /\ Live(i)' = {}
      BY <2>1
    <3>2. pend'[i] = {}
      BY <1>3, <3>1, OneEvent
    <3>3. pend[i] = IF e.val = last_drv[i] THEN {} ELSE {[val |-> e.val, due |-> e.tick]}
      <4>1. PendingOf({e}, last_drv[i]) = IF e.val = last_drv[i] THEN {}
                                          ELSE {[val |-> e.val, due |-> e.tick]}
        BY OneEvent
      <4>2. pend[i] = PendingOf(Live(i), last_drv[i])
        BY <1>2
      <4> QED BY <3>1, <4>1, <4>2
    <3>4. CASE e.val = last_drv[i]
      BY <3>1, <3>2, <3>3, <3>4
    <3>5. CASE e.val # last_drv[i]
      <4> DEFINE r == [val |-> e.val, due |-> e.tick]
      <4>1. r.val = e.val /\ r.due = now'
        BY <3>1
      <4>2. pend[i] = {r}
        BY <3>3, <3>5
      <4> HIDE DEF r
      <4>3. due(i) = {r}
        BY <4>1, <4>2
      <4>4. (CHOOSE f \in due(i) : TRUE) = r
        BY <4>3
      <4> QED BY <3>1, <3>2, <4>1, <4>2, <4>3, <4>4
    <3> QED BY <3>4, <3>5
  <2>2. CASE /\ Live(i)' = Live(i) /\ last_drv'[i] = last_drv[i]
             /\ \A e \in Live(i) : e.tick # now'
    <3>1. pend'[i] = pend[i]
      BY <1>2, <1>3, <2>2
    <3>2. \A e \in pend[i] : e.due # now'
      <4>1. pend[i] = PendingOf(Live(i), last_drv[i])
        BY <1>2
      <4> QED BY <2>2, <4>1 DEF PendingOf
    <3>3. due(i) = {}
      BY <3>2
    <3> QED BY <2>2, <3>1, <3>3
  <2> QED BY <1>1, <2>1, <2>2, DueLive
<1>7. /\ last_drv' = [i \in Delayed |-> last_drv'[i]]
  BY <1>1 DEF TakeDue
<1>8. /\ last_drv' = [i \in Delayed |-> IF due(i) = {} THEN last_drv[i]
                                        ELSE (CHOOSE e \in due(i) : TRUE).val]
      /\ pend' = [i \in Delayed |-> pend[i] \ due(i)]
  BY <1>4, <1>6, <1>7
<1>9. Inertial!Tick
  BY <1>1, <1>5, <1>8 DEF Inertial!Tick, Inertial!Due, pend
<1> QED BY <1>9 DEF Inertial!Next

\* Every step of the scheduler is a step of the inertial delay, or none.
LEMMA InertialStep ==
    GInv /\ [Next]_vars =>
        [Inertial!Next]_<<now, last_drv, [i \in Delayed |-> Pending(i)]>>
<1> SUFFICES ASSUME GInv, [Next]_vars
             PROVE  [Inertial!Next]_<<now, last_drv, [i \in Delayed |-> Pending(i)]>>
  OBVIOUS
<1>1. CASE SameTime \/ \E t \in now + 1 .. MaxTime : Advance(t)
  BY <1>1, TimeImplements
<1>2. CASE \E i \in undecided : Decide(i)
  BY <1>2, DecideImplements
<1>3. CASE \/ Start \/ NextPass \/ Converged \/ Land \/ Settled
           \/ \E i \in pass : Visit(i)
           \/ \E n \in groups : ResolveGroup(n)
           \/ Initialize \/ Arm
           \/ \E n \in Inputs, v \in Val : Write(n, v)
           \/ UNCHANGED vars
  <2>1. UNCHANGED <<now, wheel, gen, last_drv>>
    BY <1>3, OtherSteps
  <2> QED BY <2>1 DEF Pending, Live
<1> QED BY <1>1, <1>2, <1>3 DEF Next, Settling

\* The delayed assigns implement the inertial delay of the standard.
THEOREM AssignsAreInertial == Spec => KeepsInertial
<1>1. Init => Inertial!Init
  BY DEF Init, Inertial!Init, Pending, Live
<1> QED BY <1>1, InertialInvariant, InertialStep, PTL DEF Spec, KeepsInertial, Inertial!Spec
=============================================================================
