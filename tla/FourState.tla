----------------------------- MODULE FourState ------------------------------
(***************************************************************************)
(* Values of any width (crates/sim-engine/src/value.rs) and the operators  *)
(* of the evaluator on them (eval/binops.rs, eval/eval_core.rs).  A value  *)
(* is two planes of words, word 0 holding the least significant bits, with *)
(* a width and a sign.  The operators work word by word and keep values    *)
(* canonical: nothing is set beyond the width.  Reals and strings, which   *)
(* take lanes of their own, are left out.                                  *)
(***************************************************************************)
EXTENDS Planes, FiniteSets, FiniteSetsExt, Folds

CONSTANTS
    GrowCap,     \* 4096: how far << may grow a value
    MaxIndex     \* 2^63 - 1
ASSUME BoundsAssumption == GrowCap \in Nat /\ MaxIndex \in Nat

Mx(a, b) == IF a >= b THEN a ELSE b
Mn(a, b) == IF a <= b THEN a ELSE b

-----------------------------------------------------------------------------
nwords(w) == (w + WordBits - 1) \div WordBits
NWords(w) == Mx(nwords(w), 1)
low_mask(w) == {b \in Bit : b < w}

\* mutant: a width that fills its last word keeps nothing of it
top_mask_Rem(w) == low_mask(w % WordBits)

top_mask(w) == IF w = 0 THEN {} ELSE IF w % WordBits = 0 THEN Bit ELSE low_mask(w % WordBits)

At(plane, k) == IF k \in DOMAIN plane THEN plane[k] ELSE {}
Quads(v, k)  == [val |-> At(v.val, k), unk |-> At(v.unk, k)]

Index(w) == 0 .. NWords(w) - 1

Masked(plane, w) ==
    [k \in Index(w) |-> IF k = NWords(w) - 1 THEN At(plane, k) \cap top_mask(w)
                                             ELSE At(plane, k)]

\* A value of width w from raw planes, cut to it: mask_top.
Value(val, unk, w, s) == [val |-> Masked(val, w), unk |-> Masked(unk, w),
                          width |-> w, signed |-> s]

\* A value of width w from its words.
FromWords(quads, w, s) == Value([k \in Index(w) |-> quads[k].val],
                                [k \in Index(w) |-> quads[k].unk], w, s)

\* The planes of a value of width w: nothing is set beyond the width.
PlanesOf(w) == {p \in [Index(w) -> Word] : p[NWords(w) - 1] \subseteq top_mask(w)}

zeros(w, s) == Value(<<>>, <<>>, w, s)
xs(w, s)    == FromWords([k \in Index(w) |-> [val |-> {}, unk |-> Bit]], w, s)
logic(b)    == Value([k \in {0} |-> IF b THEN {0} ELSE {}], <<>>, 1, FALSE)
x1          == xs(1, FALSE)

is_canonical(v) == /\ DOMAIN v.val = 0 .. NWords(v.width) - 1
                   /\ DOMAIN v.unk = 0 .. NWords(v.width) - 1
                   /\ v.val = Masked(v.val, v.width)
                   /\ v.unk = Masked(v.unk, v.width)

get_vu(v, i) == LET w == i \div WordBits  s == i % WordBits
                IN  [val |-> s \in At(v.val, w), unk |-> s \in At(v.unk, w)]

\* A bit of a value, and of the value extended with the sign s.
BitOf(v, i)  == State(Quads(v, i \div WordBits), i % WordBits)
Ext(v, s, i) == IF i < v.width THEN BitOf(v, i)
                ELSE IF s /\ v.width > 0 THEN BitOf(v, v.width - 1) ELSE "0"

has_xz(v) == \E k \in 0 .. nwords(v.width) - 1 : At(v.unk, k) # {}

\* The number a word is.
Num(word) == SumSet({2 ^ b : b \in word})

\* to_u64, or -1 when it has none.
to_u64(v) == IF has_xz(v) \/ \E k \in DOMAIN v.val : k > 0 /\ v.val[k] # {}
             THEN -1 ELSE Num(At(v.val, 0))

-----------------------------------------------------------------------------
\* fill_bits: the bits lo .. hi - 1 of a plane become fv.
fill_bits(plane, lo, hi, fv) ==
    [k \in DOMAIN plane |->
        LET mask == {b \in Bit : lo <= k * WordBits + b /\ k * WordBits + b < hi}
        IN  IF fv THEN plane[k] \cup mask ELSE plane[k] \ mask]

\* mutant: an x sign bit does not extend
Extends_Defined(v, w) == w > v.width /\ v.signed /\ v.width > 0 /\ ~get_vu(v, v.width - 1).unk

Extends(v, w) == w > v.width /\ v.signed /\ v.width > 0

\* resize_word and the general path of resize: copy the words both have, sign
\* fill when a signed value grows, mask.
resize(v, w) ==
    IF w = v.width THEN v
    ELSE LET copied == nwords(Mn(v.width, w))
             Copy(plane) == [k \in 0 .. NWords(w) - 1 |->
                               IF k < copied THEN At(plane, k) ELSE {}]
             top == get_vu(v, v.width - 1)
             Fill(plane, f) == IF Extends(v, w) THEN fill_bits(plane, v.width, w, f) ELSE plane
         IN  Value(Fill(Copy(v.val), top.val), Fill(Copy(v.unk), top.unk), w, v.signed)

\* resize_keep_sign: it extends with the sign when value and context have one.
resize_keep_sign(v, w, s) ==
    [resize([v EXCEPT !.signed = v.signed /\ (s \/ w = v.width)], w) EXCEPT !.signed = s]

Right(word, r) == {b - r : b \in {c \in word : c >= r}}
Left(word, r)  == {b \in Bit : b - r \in word}

\* mutant: the bits of the next word do not come in
shr_word_Alone(plane, k, q, r) == Right(At(plane, k + q), r)

shr_word(plane, k, q, r) ==
    Right(At(plane, k + q), r) \cup (IF r = 0 THEN {} ELSE Left(At(plane, k + q + 1), WordBits - r))

shr_fill(v, amt, w, f) ==
    LET q == amt \div WordBits  r == amt % WordBits
        Shift(plane) == [k \in 0 .. NWords(w) - 1 |->
                            IF amt < w THEN shr_word(plane, k, q, r) ELSE {}]
        lo == Mx(w - amt, 0)
    IN  Value(fill_bits(Shift(v.val), lo, w, f.val),
              fill_bits(Shift(v.unk), lo, w, f.unk), w, v.signed)

shl_grow(v, amt, w) ==
    LET q == amt \div WordBits  r == amt % WordBits
        Shift(plane) == [k \in 0 .. NWords(w) - 1 |->
            IF amt >= w \/ k < q THEN {}
            ELSE Left(At(plane, k - q), r)
                 \cup (IF r = 0 \/ k = q THEN {} ELSE Right(At(plane, k - q - 1), WordBits - r))]
    IN  Value(Shift(v.val), Shift(v.unk), w, v.signed)

\* An amount that does not fit a word shifts everything out.
Amount(r) == IF to_u64(r) = -1 THEN 2 ^ WordBits - 1 ELSE to_u64(r)

shift_left(l, r) == IF has_xz(r) THEN xs(l.width, l.signed)
                    ELSE shl_grow(l, Amount(r), Mx(Mn(l.width + Amount(r), GrowCap), l.width))

shift_right(l, r, arith) ==
    IF has_xz(r) THEN xs(l.width, l.signed)
    ELSE shr_fill(l, Amount(r), l.width,
                  IF arith THEN get_vu(l, l.width - 1) ELSE [val |-> FALSE, unk |-> FALSE])

-----------------------------------------------------------------------------
WordBinOp(f, a, b) == CASE f = "&"  -> and_w(a, b) [] f = "|"  -> or_w(a, b)
                        [] f = "^"  -> xor_w(a, b) [] f = "^~" -> xnor_w(a, b)

\* The operator f on the words, at the wider width.
bitwise(l, r, f) ==
    LET w == Mx(l.width, r.width)
        s == l.signed /\ r.signed
        le == resize_keep_sign(l, w, s)
        re == resize_keep_sign(r, w, s)
    IN  FromWords([k \in Index(w) |-> WordBinOp(f, Quads(le, k), Quads(re, k))], w, s)

bit_not(a, s) == FromWords([k \in Index(a.width) |-> not_w(Quads(a, k))], a.width, s)

merge_x(t, e, w, s) ==
    FromWords([k \in Index(w) |-> merge_x_word(Quads(t, k), Quads(e, k))], w, s)

resolve_into(kind, acc, d) == CASE kind = "wire" -> resolve_wire_into(acc, d)
                                [] kind = "wand" -> resolve_wand_into(acc, d)
                                [] kind = "wor"  -> resolve_wor_into(acc, d)

\* The drivers of a net of width w, folded from all z.
resolve_md_group(kind, w, drivers) ==
    LET z == FromWords([k \in Index(w) |-> [val |-> Bit, unk |-> Bit]], w, FALSE)
        Step(d, acc) == FromWords([k \in Index(w) |->
                           resolve_into(kind, Quads(acc, k), Quads(d, k))], w, FALSE)
    IN  FoldFunction(Step, z, drivers)

-----------------------------------------------------------------------------
(* Reductions and truth.                                                   *)
AnyUnknown(v) == \E k \in DOMAIN v.unk : v.unk[k] # {}

\* mutant: the padding of the last word counts as zeros
any_known0_Padding(v) == \E k \in DOMAIN v.val : Known0(Quads(v, k)) # {}

any_known0(v) == \E k \in 0 .. nwords(v.width) - 1 :
                    Known0(Quads(v, k)) \cap low_mask(v.width - k * WordBits) # {}
ones(v) == MapThenSumSet(LAMBDA k : Cardinality(Known1(Quads(v, k))), DOMAIN v.val)

Tri(b) == CASE b = "1" -> logic(TRUE) [] b = "0" -> logic(FALSE) [] OTHER -> x1

\* reduce_word and reduce_verdict
reduce_word(v, kind) ==
    CASE kind = "and" -> IF any_known0(v) THEN "0" ELSE IF AnyUnknown(v) THEN "x" ELSE "1"
      [] kind = "or"  -> IF ones(v) > 0 THEN "1" ELSE IF AnyUnknown(v) THEN "x" ELSE "0"
      [] kind = "xor" -> IF AnyUnknown(v) THEN "x" ELSE IF ones(v) % 2 = 1 THEN "1" ELSE "0"

truthiness(v) == IF ones(v) > 0 THEN "1" ELSE IF AnyUnknown(v) THEN "x" ELSE "0"

\* log_bin_tri
log_bin_tri(op, l, r) == IF op = "&&" THEN AndBit(l, r) ELSE OrBit(l, r)

-----------------------------------------------------------------------------
(* Comparisons.                                                            *)
\* The word-wise order of two planes: the highest word that differs decides.
cmp_words(a, b) ==
    LET differ == {k \in DOMAIN a \cup DOMAIN b : At(a, k) # At(b, k)}
    IN  IF differ = {} THEN 0
        ELSE LET k == Max(differ)
             IN  IF Num(At(a, k)) < Num(At(b, k)) THEN -1 ELSE 1

relational_verdict(op, ord) == CASE op = "<"  -> ord = -1
                                 [] op = "<=" -> ord # 1
                                 [] op = ">"  -> ord = 1
                                 [] op = ">=" -> ord # -1

\* Differing sign bits decide a signed comparison.
ordering(le, re, s) ==
    LET ln == get_vu(le, le.width - 1).val
        rn == get_vu(re, re.width - 1).val
    IN  IF s /\ ln # rn THEN IF ln THEN -1 ELSE 1 ELSE cmp_words(le.val, re.val)

relational(op, l, r) ==
    IF has_xz(l) \/ has_xz(r) THEN x1
    ELSE LET w == Mx(l.width, r.width)
             s == l.signed /\ r.signed
         IN  logic(relational_verdict(op,
                ordering(resize_keep_sign(l, w, s), resize_keep_sign(r, w, s), s)))

\* log_eq: a known difference decides; else any x or z leaves it open.
log_eq(op, l, r) ==
    LET w  == Mx(l.width, r.width)
        s  == l.signed /\ r.signed
        le == resize_keep_sign(l, w, s)
        re == resize_keep_sign(r, w, s)
        Definitely(k) == Differ(Quads(le, k), Quads(re, k)) \ Unknown(Quads(le, k), Quads(re, k))
    IN  IF \E k \in 0 .. nwords(w) - 1 : Definitely(k) # {} THEN logic(op = "!=")
        ELSE IF AnyUnknown(le) \/ AnyUnknown(re) THEN x1
        ELSE logic(op = "==")

case_eq(op, l, r) ==
    LET w  == Mx(l.width, r.width)
        s  == l.signed /\ r.signed
        le == resize_keep_sign(l, w, s)
        re == resize_keep_sign(r, w, s)
        eq == \A k \in 0 .. nwords(w) - 1 : Same(Quads(le, k), Quads(re, k)) = Bit
    IN  logic(eq = (op = "==="))

\* casez_eq: z, or for casex x and z, on either side matches anything.
casez_eq(op, l, r) ==
    LET Open(q) == IF op = "casez" THEN IsZ(q) ELSE q.unk
    IN  logic(\A k \in 0 .. NWords(Mx(l.width, r.width)) - 1 :
                 Not(Open(Quads(l, k)) \cup Open(Quads(r, k)))
                    \subseteq Same(Quads(l, k), Quads(r, k)))

-----------------------------------------------------------------------------
(* Moving windows of bits.                                                 *)
window64(plane, bit) == shr_word(plane, 0, bit \div WordBits, bit % WordBits)

\* copy_bits: w bits of src from soff are or-ed into dst from doff; a word of
\* dst takes one window of src.
copy_bits(dst, doff, src, soff, w) ==
    LET Copy(d, s) == [k \in DOMAIN d |->
            LET i   == Mx(k * WordBits - doff, 0)
                dsh == (doff + i) % WordBits
                n   == Mn(WordBits - dsh, w - i)
            IN  IF (doff + i) \div WordBits # k \/ i >= w THEN d[k]
                ELSE d[k] \cup Left(window64(s, soff + i) \cap low_mask(n), dsh)]
    IN  [dst EXCEPT !.val = Copy(dst.val, src.val), !.unk = Copy(dst.unk, src.unk)]

clear_bits(v, lo, w) == [v EXCEPT !.val = fill_bits(@, lo, lo + w, FALSE),
                                  !.unk = fill_bits(@, lo, lo + w, FALSE)]

replace_bits(dst, doff, src, soff, w) == copy_bits(clear_bits(dst, doff, w), doff, src, soff, w)

window_in_range(lsb, w, bound) == w > 0 /\ lsb >= 0 /\ lsb + w <= bound

eval_concat(l, r) ==
    LET out == zeros(l.width + r.width, FALSE)
    IN  copy_bits(copy_bits(out, r.width, l, 0, l.width), 0, r, 0, r.width)

eval_replicate(count, v) ==
    LET Rep[c \in 0 .. count] ==
          IF c = 0 THEN zeros(v.width * count, FALSE)
          ELSE copy_bits(Rep[c - 1], (c - 1) * v.width, v, 0, v.width)
    IN  Rep[count]

select_lsb(kind, off, w) == IF kind = "-:" THEN off - w + 1 ELSE off

\* eval_select: a copy when the window is inside, else x outside.
eval_select(v, off, w, kind) ==
    LET o   == to_u64(off)
        lsb == select_lsb(kind, o, w)
        In(k) == {b \in Bit : lsb + k * WordBits + b \in 0 .. v.width - 1}
        sel == [k \in Index(w) |->
          [val |-> {b \in In(k) : get_vu(v, lsb + k * WordBits + b).val},
           unk |-> {b \in In(k) : get_vu(v, lsb + k * WordBits + b).unk} \cup Not(In(k))]]
    IN  IF o = -1 \/ o > MaxIndex THEN xs(w, FALSE)
        ELSE IF window_in_range(lsb, w, v.width)
        THEN copy_bits(zeros(w, FALSE), 0, v, lsb, w)
        ELSE FromWords(sel, w, FALSE)
=============================================================================
