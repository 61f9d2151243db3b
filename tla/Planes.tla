------------------------------- MODULE Planes -------------------------------
(***************************************************************************)
(* Four-state logic, one machine word at a time                            *)
(* (crates/sim-engine/src/value.rs, eval/binops.rs, sched/wait_fork.rs).   *)
(* A word is the set of its bits that are 1.  Two words, the planes val    *)
(* and unk, hold WordBits four-state bits: 0 is (0,0), 1 is (1,0), x is    *)
(* (0,1), z is (1,1).  Every operator works on all bits of a word at once; *)
(* the tables at the end say what it is to do to one of them.              *)
(***************************************************************************)
EXTENDS Integers

CONSTANT WordBits     \* 64
ASSUME WordBitsAssumption == WordBits \in Nat \ {0}

Bit  == 0 .. WordBits - 1
Word == SUBSET Bit
Quad == [val : Word, unk : Word]

Not(a) == Bit \ a

State(q, i) == IF i \in q.unk THEN IF i \in q.val THEN "z" ELSE "x"
                              ELSE IF i \in q.val THEN "1" ELSE "0"

-----------------------------------------------------------------------------
Known0(q) == Not(q.unk) \cap Not(q.val)
Known1(q) == Not(q.unk) \cap q.val
IsZ(q)    == q.unk \cap q.val

\* The planes that are 1 in ones, 0 in zeros and x elsewhere.
Definite(ones, zeros) == [val |-> ones, unk |-> Not(zeros) \cap Not(ones)]

and_w(a, b) == Definite(Known1(a) \cap Known1(b), Known0(a) \cup Known0(b))
or_w(a, b)  == Definite(Known1(a) \cup Known1(b), Known0(a) \cap Known0(b))

Differ(a, b) == (a.val \ b.val) \cup (b.val \ a.val)
Unknown(a, b) == a.unk \cup b.unk

xor_w(a, b)  == [val |-> Differ(a, b) \ Unknown(a, b), unk |-> Unknown(a, b)]
xnor_w(a, b) == [val |-> Not(Differ(a, b)) \ Unknown(a, b), unk |-> Unknown(a, b)]
not_w(a)     == [val |-> Not(a.val) \ a.unk, unk |-> a.unk]

\* Bits equal in both planes.
Same(a, b) == Not(Differ(a, b))
              \cap Not((a.unk \ b.unk) \cup (b.unk \ a.unk))

\* merge_x_word: ?: under an unknown condition.
merge_x_word(t, e) == [val |-> t.val \cap Same(t, e),
                       unk |-> (t.unk \cap Same(t, e)) \cup Not(Same(t, e))]

-----------------------------------------------------------------------------
(* Resolution of two drivers: one at z yields to the other; two that drive *)
(* give ones in ones, x in xs and 0 elsewhere.                             *)
Resolves(acc, d, keeps, ones, xs) ==
    LET take_d   == IsZ(acc)
        take_acc == Not(IsZ(acc)) \cap (IsZ(d) \cup keeps)
    IN  [val |-> (take_d \cap d.val) \cup (take_acc \cap acc.val) \cup ones,
         unk |-> (take_d \cap d.unk) \cup (take_acc \cap acc.unk) \cup xs]

Both(acc, d) == Not(IsZ(acc)) \cap Not(IsZ(d))

resolve_wire_into(acc, d) ==
    Resolves(acc, d, Same(acc, d), {}, Both(acc, d) \cap Not(Same(acc, d)))

resolve_wand_into(acc, d) ==
    LET one == Known1(acc) \cap Known1(d)
        zer == Known0(acc) \cup Known0(d)
    IN  Resolves(acc, d, {}, Both(acc, d) \cap one,
                 Both(acc, d) \cap Not(zer) \cap Not(one))

resolve_wor_into(acc, d) ==
    LET one == Known1(acc) \cup Known1(d)
        zer == Known0(acc) \cap Known0(d)
    IN  Resolves(acc, d, {}, Both(acc, d) \cap one,
                 Both(acc, d) \cap Not(one) \cap Not(zer))

-----------------------------------------------------------------------------
(* The tables of IEEE 1800-2017 11.4 and 6.6, for one bit; MergeBit is the *)
(* code's: a z both branches agree on stays z, where Table 11-20 has x.    *)
Defined == {"0", "1"}

AndBit(p, q) == IF "0" \in {p, q} THEN "0" ELSE IF p = "1" /\ q = "1" THEN "1" ELSE "x"
OrBit(p, q)  == IF "1" \in {p, q} THEN "1" ELSE IF p = "0" /\ q = "0" THEN "0" ELSE "x"
XorBit(p, q) == IF p \in Defined /\ q \in Defined THEN IF p = q THEN "0" ELSE "1" ELSE "x"
NotBit(p)    == IF p = "0" THEN "1" ELSE IF p = "1" THEN "0" ELSE "x"
MergeBit(p, q) == IF p = q THEN p ELSE "x"

WireBit(p, q) == IF p = "z" THEN q ELSE IF q = "z" \/ p = q THEN p ELSE "x"
WandBit(p, q) == IF p = "z" THEN q ELSE IF q = "z" THEN p ELSE AndBit(p, q)
WorBit(p, q)  == IF p = "z" THEN q ELSE IF q = "z" THEN p ELSE OrBit(p, q)
=============================================================================
