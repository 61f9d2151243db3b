----------------------------- MODULE ConstFold ------------------------------
(***************************************************************************)
(* The elaborator's constant fold (crates/elaborate/src/const_wide.rs,     *)
(* const_wide_num.rs, net_util.rs): what a parameter declared with an      *)
(* expression is bound to.  It is a second evaluator of the expressions of *)
(* Evaluate, in two passes: the first finds the width and the sign of a    *)
(* region, the second folds it again with both pushed down.  It may        *)
(* decline, and where it does not, it must answer what the run would.      *)
(* A folded value is the four states of its bits, a width and a sign; a    *)
(* result is the set of at most one of them, empty when the fold declines. *)
(***************************************************************************)
EXTENDS Evaluate

CONSTANTS
    MaxNetWidth,  \* 2^20: the widest value the fold builds
    WorkCap,      \* WIDE_CONST_WORK_CAP, in word operations
    Literals      \* the values written as literals; the others are names

WideBits(bits, w, s) == [bits |-> bits, width |-> w, signed |-> s]
Places(w) == 0 .. w - 1
Open == {"x", "z"}

Folded(v) == WideBits([i \in Places(v.width) |-> State(Quads(v, i \div WordBits), i % WordBits)],
                      v.width, v.signed)

cap(w) == w \in 1 .. MaxNetWidth

-----------------------------------------------------------------------------
bp_any_unknown(v) == \E i \in Places(v.width) : v.bits[i] \in Open
bp_truth(v) == IF \E i \in Places(v.width) : v.bits[i] = "1" THEN "1"
               ELSE IF bp_any_unknown(v) THEN "x" ELSE "0"
bp_not(v) == [v EXCEPT !.bits = [i \in DOMAIN @ |-> NotBit(@[i])]]
bp_truth_bit(b) == WideBits([i \in {0} |-> b], 1, FALSE)
bp_bit(p) == bp_truth_bit(IF p THEN "1" ELSE "0")

Msb(v) == v.bits[v.width - 1]

\* The added bits take the state of the top one, a 1 only when signed.
resize_bits(v, w, sg) ==
    LET fill == IF Msb(v) = "1" /\ ~sg THEN "0" ELSE Msb(v)
    IN  WideBits([i \in Places(w) |-> IF i < v.width THEN v.bits[i] ELSE fill], w, v.signed)

\* An unsigned value grows by zeros even from an unknown top bit.
extend_bits(v, w, sg) ==
    IF w > v.width /\ ~sg /\ Msb(v) \in Open
    THEN WideBits([i \in Places(w) |-> IF i < v.width THEN v.bits[i] ELSE "0"], w, v.signed)
    ELSE resize_bits(v, w, sg)

widen_to(v, to, sg) ==
    IF v.width >= to THEN {v}
    ELSE IF sg /\ Msb(v) \in Open THEN {}
    ELSE {extend_bits(v, to, sg)}

\* Two known operands, at the wider width and the common sign.
bp_operands(a, b) ==
    LET w == Mx(a.width, b.width)
        sg == a.signed /\ b.signed
        At_w(v) == [resize_bits(v, w, sg) EXCEPT !.signed = sg]
    IN  IF bp_any_unknown(a) \/ bp_any_unknown(b) THEN {} ELSE {<<At_w(a), At_w(b)>>}

\* A region's sign psg is {} in the first pass, and holds the sign in the second.
unwrap_or(psg, own) == IF psg = {} THEN own ELSE TRUE \in psg

bp_operands_at(a, b, to, psg) ==
    LET sg == unwrap_or(psg, a.signed /\ b.signed)
    IN  UNION {bp_operands(x, y) : x \in widen_to(a, to, sg), y \in widen_to(b, to, sg)}

-----------------------------------------------------------------------------
(* Limbs: words of known bits.                                             *)
limbs(v) == [k \in Index(v.width) |->
    SumSet({2 ^ j : j \in {j \in Bit : /\ k * WordBits + j < v.width
                                       /\ v.bits[k * WordBits + j] = "1"}})]

bp_from_limbs(a, w, s) ==
    WideBits([i \in Places(w) |->
                 IF (D(a, i \div WordBits) \div 2 ^ (i % WordBits)) % 2 = 1 THEN "1" ELSE "0"], w, s)

limbs_add(a, b, w) == mw_mask(mw_add(a, b), w)
limbs_neg(a, w) == limbs_add([k \in DOMAIN a |-> Base - 1 - a[k]], mw_one(NWords(w)), w)
limbs_mul(a, b, w) == mw_mask(mw_mul(a, b, NWords(w)), w)

\* limbs_cmp, as a < b: differing sign bits decide a signed comparison.
limbs_less(a, b, w, signed) ==
    LET Top(v) == BitAt(v, w - 1)
    IN  IF signed /\ Top(a) # Top(b) THEN Top(a) = 1 ELSE ~mw_leq(b, a)

int32(n) == bp_from_limbs([k \in Index(IntBits) |-> (n \div Base ^ k) % Base], IntBits, TRUE)

\* a and b have one width and one sign.
wide_divmod_known(o, a, b) ==
    LET w == a.width
        neg(v) == v.signed /\ Msb(v) = "1"
        mag(v) == IF neg(v) THEN limbs_neg(limbs(v), w) ELSE limbs(v)
        qr == mw_divmod(mag(a), mag(b))
        Signed_by(n, minus) == IF minus THEN limbs_neg(n, w) ELSE n
    IN  IF mw_is_zero(limbs(b)) \/ w * NWords(w) > WorkCap THEN {}
        ELSE {bp_from_limbs(IF o = "/" THEN Signed_by(qr[1], neg(a) # neg(b))
                                       ELSE Signed_by(qr[2], neg(a)), w, a.signed)}

fold_divmod(o, a, b) == UNION {wide_divmod_known(o, p[1], p[2]) : p \in bp_operands(a, b)}

\* The exponent has a width and a sign of its own; 0 to a negative one declines.
wide_pow(base, exponent) ==
    LET w == base.width
        n == NWords(w)
        a == limbs(base)
        e == limbs(exponent)
        minus_one == limbs_neg(mw_one(n), w)
        odd == e[0] % 2 = 1
        set == {i \in Places(exponent.width) : exponent.bits[i] = "1"}
        Is_(v) == {bp_from_limbs(v, w, base.signed)}
    IN  IF bp_any_unknown(base) \/ bp_any_unknown(exponent) THEN {}
        ELSE IF exponent.signed /\ Msb(exponent) = "1"
        THEN CASE a = mw_one(n) -> Is_(a)
               [] base.signed /\ a = minus_one -> Is_(IF odd THEN minus_one ELSE mw_one(n))
               [] mw_is_zero(a) -> {}
               [] OTHER -> Is_(mw_zero(n))
        ELSE IF (IF set = {} THEN 0 ELSE Max(set) + 1) * 2 * n * n > WorkCap THEN {}
        ELSE Is_(mw_pow(a, e, w))

wide_clog2(v) ==
    LET set == {i \in Places(v.width) : v.bits[i] = "1"}
    IN  IF bp_any_unknown(v) THEN {}
        ELSE {int32(IF set = {} THEN 0 ELSE IF Cardinality(set) = 1 THEN Max(set) ELSE Max(set) + 1)}

-----------------------------------------------------------------------------
RECURSIVE fold_region(_, _, _)
RECURSIVE fold_bits_at(_, _)

fold_bits_at0(e) == fold_bits_at(e, 0)

\* A literal, or one negated in 32 bits.
const_eval_u32(e) ==
    LET Lit(x) == IF x.op = "leaf" /\ x.v \in Literals /\ ~has_xz(x.v) /\ ReadInt(x.v, FALSE) < 2 ^ IntBits
                  THEN {ReadInt(x.v, FALSE)} ELSE {}
    IN  IF e.op = "neg" THEN {(-n) % 2 ^ IntBits : n \in Lit(e.args[1])} ELSE Lit(e)

\* The unsigned number of a known value.
Number(v) == IF bp_any_unknown(v) THEN {}
             ELSE {SumSet({2 ^ i : i \in {i \in Places(v.width) : v.bits[i] = "1"}})}

CountOf(e) == IF const_eval_u32(e) # {} THEN const_eval_u32(e)
              ELSE UNION {Number(v) : v \in fold_bits_at0(e)}

fold_count(e) == {n \in CountOf(e) : n < 2 ^ IntBits}

\* An amount past 32 bits moves everything out: it is past every width there is.
fold_shift_count(e) == {Mn(n, 2 ^ IntBits) : n \in CountOf(e)}

-----------------------------------------------------------------------------
(* The arms of fold_region.                                                *)
fold_concat_parts(e) ==
    LET Joined(a, b) == WideBits([i \in Places(a.width + b.width) |->
                            IF i < b.width THEN b.bits[i] ELSE a.bits[i - b.width]],
                            a.width + b.width, FALSE)
    IN  {v \in {Joined(a, b) : a \in fold_bits_at0(e.args[1]), b \in fold_bits_at0(e.args[2])} :
            cap(v.width)}

fold_replicate(e) ==
    {WideBits([i \in Places(e.k * v.width) |-> v.bits[i % v.width]], e.k * v.width, FALSE) :
        v \in {v \in fold_bits_at0(e.args[1]) : e.k > 0 /\ cap(e.k * v.width)}}

\* A shift: its left operand takes the context, the amount does not, and >>>
\* fills with the top bit when the region is signed.
Moved(o, v, n, sg) ==
    LET w == v.width
        fill == IF o = ">>>" /\ sg THEN Msb(v) ELSE "0"
    IN  [v EXCEPT !.bits = [i \in Places(w) |->
            IF o = "<<" THEN IF i < n THEN "0" ELSE v.bits[i - n]
                        ELSE IF i + n < w THEN v.bits[i + n] ELSE fill]]

fold_shift(e, to, psg) ==
    UNION {{Moved(e.op, b, n, unwrap_or(psg, a.signed)) :
                b \in widen_to(a, to, unwrap_or(psg, a.signed))} :
           a \in fold_region(e.args[1], to, psg), n \in fold_shift_count(e.args[2])}

BitOp(o, p, q) == CASE o = "&" -> AndBit(p, q) [] o = "|" -> OrBit(p, q)
                    [] o = "^" -> XorBit(p, q) [] o = "^~" -> NotBit(XorBit(p, q))

fold_bitwise(e, to, psg) ==
    LET Known2(a, b) == ~bp_any_unknown(a) /\ ~bp_any_unknown(b)
        Both2(a, b) ==
            LET w == Mx(Mx(a.width, b.width), to)
                cs == unwrap_or(psg, a.signed /\ b.signed)
                la == resize_bits(a, w, cs).bits
                lb == resize_bits(b, w, cs).bits
            IN  WideBits([i \in Places(w) |-> BitOp(e.op, la[i], lb[i])], w, a.signed /\ b.signed)
    IN  UNION {IF Known2(a, b) THEN {Both2(a, b)} ELSE {} :
               a \in fold_region(e.args[1], to, psg), b \in fold_region(e.args[2], to, psg)}

\* ~ and the unary minus, at the width of the context.
fold_inverse(e, to, psg) ==
    LET Inverted(b) == IF e.op = "~" THEN bp_not(b)
                       ELSE bp_from_limbs(limbs_neg(limbs(b), b.width), b.width, b.signed)
    IN  UNION {IF bp_any_unknown(a) THEN {}
               ELSE {Inverted(b) : b \in widen_to(a, to, unwrap_or(psg, a.signed))} :
               a \in fold_region(e.args[1], to, psg)}

\* Reductions and !: a known bit may decide over unknown ones.
Verdict(o, v) ==
    LET Parity == IF bp_any_unknown(v) THEN "x"
                  ELSE IF Cardinality({i \in Places(v.width) : v.bits[i] = "1"}) % 2 = 1 THEN "1" ELSE "0"
    IN  CASE o = "r&"  -> NotBit(bp_truth(bp_not(v))) [] o = "r~&" -> bp_truth(bp_not(v))
          [] o = "r|"  -> bp_truth(v)                 [] o \in {"r~|", "!"} -> NotBit(bp_truth(v))
          [] o = "r^"  -> Parity                      [] o = "r~^" -> NotBit(Parity)

fold_truth(e) == {bp_truth_bit(Verdict(e.op, v)) : v \in fold_bits_at0(e.args[1])}

fold_add(e, to, psg) ==
    LET Result(a, b) ==
            LET w == a.width  x == limbs(a)  y == limbs(b)
            IN  bp_from_limbs(CASE e.op = "+" -> limbs_add(x, y, w)
                                [] e.op = "-" -> limbs_add(x, limbs_neg(y, w), w)
                                [] e.op = "*" -> limbs_mul(x, y, w), w, a.signed)
    IN  UNION {{Result(p[1], p[2]) : p \in bp_operands_at(a, b, to, psg)} :
               a \in fold_region(e.args[1], to, psg), b \in fold_region(e.args[2], to, psg)}

\* The region's sign is also the sign the division runs with.
fold_div(e, to, psg) ==
    LET Divided(a, b) ==
            LET sg == unwrap_or(psg, a.signed /\ b.signed)
                With(v) == [v EXCEPT !.signed = sg]
            IN  UNION {fold_divmod(e.op, With(x), With(y)) :
                       x \in widen_to(a, to, sg), y \in widen_to(b, to, sg)}
    IN  UNION {Divided(a, b) :
               a \in fold_region(e.args[1], to, psg), b \in fold_region(e.args[2], to, psg)}

fold_power(e, to, psg) ==
    LET Raised(a, b) ==
            LET sg == unwrap_or(psg, a.signed)
            IN  UNION {wide_pow([x EXCEPT !.signed = sg], b) : x \in widen_to(a, to, sg)}
    IN  UNION {Raised(a, b) : a \in fold_region(e.args[1], to, psg), b \in fold_bits_at0(e.args[2])}

\* An equality of operands with unknown bits: === always has an answer, == one
\* when a known bit differs.
wide_eq_with_unknowns(o, a, b) ==
    LET w == Mx(a.width, b.width)
        sg == a.signed /\ b.signed
        Answered(p, q) ==
            LET equal == \A i \in Places(w) : p.bits[i] = q.bits[i]
                differ == \E i \in Places(w) : {p.bits[i], q.bits[i]} = Defined
            IN  IF o \in CaseEq THEN bp_bit(equal = (o = "==="))
                ELSE bp_truth_bit(IF ~differ THEN "x" ELSE IF o = "!=" THEN "1" ELSE "0")
    IN  IF o \notin Equality \cup CaseEq THEN {}
        ELSE UNION {{Answered(p, q) : q \in widen_to(b, w, sg)} : p \in widen_to(a, w, sg)}

Ordered(o, a, b) ==
    LET x == limbs(a)  y == limbs(b)
        less == limbs_less(x, y, a.width, a.signed)
    IN  CASE o = "<"  -> less                       [] o = ">=" -> ~less
          [] o = ">"  -> limbs_less(y, x, a.width, a.signed)
          [] o = "<=" -> ~limbs_less(y, x, a.width, a.signed)
          [] o \in {"==", "==="} -> x = y           [] o \in {"!=", "!=="} -> x # y

\* A side is folded again when it is narrower than the comparison, and when it is
\* signed and the comparison is not.
Refolds(v, w, sg) == v.width < w \/ (v.signed /\ ~sg)

\* A comparison is a region of its own.
fold_compare(e) ==
    LET Side(i, v, w, sg) == IF Refolds(v, w, sg) THEN fold_region(e.args[i], w, {sg}) ELSE {v}
        Compared(a, b) ==
            IF e.op \in CaseZ THEN {}
            ELSE IF bp_any_unknown(a) \/ bp_any_unknown(b) THEN wide_eq_with_unknowns(e.op, a, b)
            ELSE {bp_bit(Ordered(e.op, p[1], p[2])) : p \in bp_operands(a, b)}
        Sized(a, b) ==
            LET w == Mx(a.width, b.width)
                sg == a.signed /\ b.signed
            IN  UNION {Compared(x, y) : x \in Side(1, a, w, sg), y \in Side(2, b, w, sg)}
    IN  UNION {Sized(a, b) : a \in fold_bits_at0(e.args[1]), b \in fold_bits_at0(e.args[2])}

\* Both operands are folded, and either one may decide.
fold_logical(e) ==
    {bp_truth_bit(IF e.op = "&&" THEN AndBit(bp_truth(a), bp_truth(b)) ELSE OrBit(bp_truth(a), bp_truth(b))) :
        a \in fold_bits_at0(e.args[1]), b \in fold_bits_at0(e.args[2])}

\* Both arms give the width and the sign; an unknown condition declines.
fold_ternary(e, to, psg) ==
    LET Chosen(c, t, f) ==
            LET sg == t.signed /\ f.signed
                arm == [(IF c = "1" THEN t ELSE f) EXCEPT !.signed = sg]
            IN  IF c = "x" THEN {}
                ELSE widen_to(arm, Mx(Mx(t.width, f.width), to), unwrap_or(psg, sg))
    IN  UNION {Chosen(bp_truth(c), t, f) : c \in fold_bits_at0(e.args[1]),
               t \in fold_region(e.args[2], to, psg), f \in fold_region(e.args[3], to, psg)}

\* A select declines where it leaves its source; one of a bit, on an unknown bit.
fold_select(e) ==
    LET Part(v, i) ==
            LET lo == IF e.op = "-:" THEN i - e.k + 1 ELSE i
            IN  IF lo < 0 \/ lo + e.k > v.width THEN {}
                ELSE {WideBits([j \in Places(e.k) |-> v.bits[lo + j]], e.k, FALSE)}
    IN  {p \in UNION {Part(v, i) : v \in fold_bits_at0(e.args[1]), i \in fold_count(e.args[2])} :
            e.op = "[i]" => ~bp_any_unknown(p)}

fold_sysfunc(e) ==
    LET n(v) == Cardinality({i \in Places(v.width) : v.bits[i] = "1"})
        Call(v) == CASE e.op \in Signing -> {[v EXCEPT !.signed = (e.op = "$signed")]}
                     [] e.op = "$clog2" -> wide_clog2(v)
                     [] e.op = "$isunknown" -> {bp_bit(bp_any_unknown(v))}
                     [] bp_any_unknown(v) -> {}
                     [] e.op = "$countones" -> {int32(n(v))}
                     [] e.op = "$onehot" -> {bp_bit(n(v) = 1)}
                     [] e.op = "$onehot0" -> {bp_bit(n(v) <= 1)}
    IN  UNION {Call(v) : v \in fold_bits_at0(e.args[1])}

-----------------------------------------------------------------------------
fold_region(e, to, psg) ==
    CASE e.op = "leaf" -> {Folded(e.v)}
      [] e.op = "{}" -> fold_concat_parts(e)
      [] e.op = "{n{}}" -> fold_replicate(e)
      [] e.op \in Shifts -> fold_shift(e, to, psg)
      [] e.op \in Bitwise -> fold_bitwise(e, to, psg)
      [] e.op \in {"~", "neg"} -> fold_inverse(e, to, psg)
      [] e.op \in Reductions \cup {"!"} -> fold_truth(e)
      [] e.op \in {"+", "-", "*"} -> fold_add(e, to, psg)
      [] e.op \in {"/", "%"} -> fold_div(e, to, psg)
      [] e.op = "**" -> fold_power(e, to, psg)
      [] e.op \in Compares -> fold_compare(e)
      [] e.op \in Logical -> fold_logical(e)
      [] e.op = "?:" -> fold_ternary(e, to, psg)
      [] e.op \in Selects -> fold_select(e)
      [] OTHER -> fold_sysfunc(e)

\* The operators whose operands the context does not reach.
wide_top_is_self_determined(e) ==
    e.op \in {"leaf", "{}", "{n{}}", "!", "$clog2", "$countones"} \cup Selects \cup Signing
             \cup Predicates \cup Reductions \cup Compares \cup Logical

\* mutant: the second pass extends each operand with its own sign
second_Own(e, v) == fold_region(e, v.width, {})

\* The second pass, at the width and the sign the first one found.
second(e, v) == fold_region(e, v.width, {v.signed})

fold_bits_at(e, to) ==
    LET Again(v) == IF wide_top_is_self_determined(e) \/ (v.width = to /\ v.signed) THEN {v}
                    ELSE second(e, v)
    IN  UNION {Again(v) : v \in fold_region(e, to, {})}

\* The value of a parameter of that width, declared with the expression e.
param_bits_at_declared(e, width) ==
    {extend_bits(v, width, v.signed) :
        v \in {v \in fold_bits_at(e, width) : v.width >= width \/ wide_top_is_self_determined(e)}}

-----------------------------------------------------------------------------
\* The syntax tree of a node of an arena.
RECURSIVE syntax(_, _)
syntax(e, i) == [e[i] EXCEPT !.args = [j \in DOMAIN @ |-> syntax(e, @[j])]]

\* The expression out answers, as the right-hand side of a declaration.
Declared == LET e == IF op = "tree" THEN arg ELSE Source(op, arg)
            IN  syntax(e, Len(e))

\* A literal negated as a shift amount: it is read in 32 bits, not in its own.
NegatedAmount(e) == e.op \in Shifts /\ e.args[2].op = "neg" /\ const_eval_u32(e.args[2]) # {}

\* A parameter is what the run would compute: where the fold of an expression
\* does not decline, by itself it has the width, the sign and the bits of the
\* evaluator's answer, and in a declaration its bits, as many as are declared
\* (fold_bits_at, param_bits_at_declared against eval_ctx).
FoldAgrees ==
    (op \notin {"none", "=[]"} \cup Wired /\ ctx.signed /\ ~NegatedAmount(Declared)) =>
        \A v \in IF ctx.width = 0 THEN fold_bits_at0(Declared)
                 ELSE param_bits_at_declared(Declared, ctx.width) :
            /\ ctx.width = 0 => v.width = out.width /\ v.signed = out.signed
            /\ \A i \in Places(v.width) : v.bits[i] = BitOf(out, i)
=============================================================================
