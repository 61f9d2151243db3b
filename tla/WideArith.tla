----------------------------- MODULE WideArith ------------------------------
(***************************************************************************)
(* Arithmetic on values (crates/sim-engine/src/eval/binops.rs) and the     *)
(* multi-word kernels it uses past the native lanes                        *)
(* (crates/sim-ir/src/mw.rs).  A value with no x or z is a function from   *)
(* word indices to digits below 2^WordBits.  Up to one word signed and two *)
(* words unsigned, a native integer of two words does the work; beyond,    *)
(* the kernels do.                                                         *)
(***************************************************************************)
EXTENDS FourState

CONSTANT WideCap      \* WIDE_ARITH_CAP

\* The cap, 2^20 bits, is past the native lanes.
ASSUME WideCapAssumption == WideCap \in Nat /\ WideCap >= 2 * WordBits

Base == 2 ^ WordBits
Lane == Base * Base   \* what u128 and i128 wrap at

\* Folds over the words or bits 0 .. n - 1, from the top and from the bottom.
Words(n) == 0 .. n - 1
D(a, k)  == IF k \in DOMAIN a THEN a[k] ELSE 0

Digits(v)  == [k \in DOMAIN v.val |-> Num(v.val[k])]
BitsOf(d)  == {b \in Bit : (d \div 2 ^ b) % 2 = 1}
OfDigits(a, w, s) ==
    Value([k \in DOMAIN a |-> BitsOf(a[k])], <<>>, w, s)

-----------------------------------------------------------------------------
Carry(d) == d \div Base

mw_add(a, b) ==
    LET n == Cardinality(DOMAIN a)
        Sum[k \in 0 .. n] ==   \* <<digit k - 1, carry>>
          IF k = 0 THEN <<0, 0>>
          ELSE LET d == a[k - 1] + D(b, k - 1) + Sum[k - 1][2]
               IN  <<d % Base, Carry(d)>>
    IN  [k \in DOMAIN a |-> Sum[k + 1][1]]

mw_one(n)  == [k \in Words(n) |-> IF k = 0 THEN 1 ELSE 0]
mw_zero(n) == [k \in Words(n) |-> 0]

mw_neg(a) == mw_add([k \in DOMAIN a |-> Base - 1 - a[k]], mw_one(Cardinality(DOMAIN a)))

mw_mask(a, w) == [k \in Words(NWords(w)) |-> D(a, k) % 2 ^ Mn(Mx(w - k * WordBits, 0), WordBits)]

mw_is_zero(a) == \A k \in DOMAIN a : a[k] = 0

\* School multiplication, the low n words: row i adds a[i] * b from word i on.
mw_mul(a, b, n) ==
    LET Row(out, i) ==
          LET Cell[j \in 0 .. n - i] ==    \* <<digit i + j - 1, carry>>
                IF j = 0 THEN <<0, 0>>
                ELSE LET cur == a[i] * D(b, j - 1) + out[i + j - 1] + Cell[j - 1][2]
                     IN  <<cur % Base, cur \div Base>>
          IN  [k \in Words(n) |-> IF k < i THEN out[k] ELSE Cell[k - i + 1][1]]
        Out[i \in 0 .. n] ==
          IF i = 0 THEN mw_zero(n)
          ELSE IF i - 1 \notin DOMAIN a THEN Out[i - 1] ELSE Row(Out[i - 1], i - 1)
    IN  Out[n]

\* mw_cmp, as a <= b.
mw_leq(a, b) ==
    LET differ == {k \in DOMAIN a \cup DOMAIN b : D(a, k) # D(b, k)}
    IN  differ = {} \/ D(a, Max(differ)) < D(b, Max(differ))

\* A divisor of one word: digit by digit from the top.
short_div(a, d) ==
    LET n == Cardinality(DOMAIN a)
        Step[k \in 0 .. n] ==    \* <<digit n - k, remainder>>
          IF k = 0 THEN <<0, 0>>
          ELSE LET cur == Step[k - 1][2] * Base + a[n - k]
               IN  <<cur \div d, cur % d>>
    IN  <<[k \in DOMAIN a |-> Step[n - k][1]],
          [k \in DOMAIN a |-> IF k = 0 THEN Step[n][2] ELSE 0]>>

\* mutant: the divisor is subtracted only when the remainder is larger
Fits_Strictly(rem, b) == ~mw_leq(rem, b)

Fits(rem, b) == mw_leq(b, rem)

BitAt(a, i) == (a[i \div WordBits] \div 2 ^ (i % WordBits)) % 2

\* Restoring division, bit by bit from the top; the remainder has one more word.
long_div(a, b) ==
    LET n  == Cardinality(DOMAIN a)
        bx == [k \in Words(n + 1) |-> D(b, k)]
        Shifted(rem, bit) == [k \in Words(n + 1) |->
            ((2 * rem[k]) % Base) + (IF k = 0 THEN bit ELSE rem[k - 1] \div 2 ^ (WordBits - 1))]
        Step[i \in 0 .. n * WordBits] ==    \* <<quotient, remainder>>
          IF i = 0 THEN <<mw_zero(n), mw_zero(n + 1)>>
          ELSE LET bit == n * WordBits - i
                   q   == Step[i - 1][1]
                   rem == Shifted(Step[i - 1][2], BitAt(a, bit))
               IN  IF ~Fits(rem, bx) THEN <<q, rem>>
                   ELSE <<[q EXCEPT ![bit \div WordBits] = @ + 2 ^ (bit % WordBits)],
                          mw_add(rem, mw_neg(bx))>>
        last == Step[n * WordBits]
    IN  <<last[1], [k \in Words(n) |-> last[2][k]]>>

mw_divmod(a, b) == IF \A k \in DOMAIN b : k > 0 => b[k] = 0 THEN short_div(a, b[0])
                   ELSE long_div(a, b)

\* Square and multiply, up to the top bit of the exponent.
mw_pow(base, exp, w) ==
    LET n == Cardinality(DOMAIN base)
        last == Cardinality(DOMAIN exp) * WordBits
        set == {i \in 0 .. last - 1 : BitAt(exp, i) = 1}
        Step[i \in 0 .. last] ==    \* <<acc, square>>
          IF i = 0 THEN <<mw_one(n), base>>
          ELSE LET acc == Step[i - 1][1]  sq == Step[i - 1][2]
               IN  <<IF i - 1 \in set THEN mw_mask(mw_mul(acc, sq, n), w) ELSE acc,
                     mw_mask(mw_mul(sq, sq, n), w)>>
    IN  IF set = {} THEN mw_one(n) ELSE Step[Max(set) + 1][1]

-----------------------------------------------------------------------------
(* The native lanes.                                                       *)
Negative(v) == get_vu(v, v.width - 1).val

\* read_i128: sign extended when read as signed.
ReadInt(v, s) == LET n == SumFunction([k \in DOMAIN v.val |-> Num(v.val[k]) * 2 ^ (k * WordBits)])
             IN  IF s /\ v.signed /\ Negative(v) THEN n - 2 ^ v.width ELSE n

Quot(a, b) == LET q == (IF a < 0 THEN -a ELSE a) \div (IF b < 0 THEN -b ELSE b)
              IN  IF (a < 0) = (b < 0) THEN q ELSE -q
Rest(a, b) == a - b * Quot(a, b)

\* An i128 or u128 as it wraps.
Wrapped(n) == n % Lane

\* Square and multiply in the lane, up to the top bit of e.
ipow(b, e) ==
    LET bits == {i \in 0 .. 2 * WordBits - 1 : (e \div 2 ^ i) % 2 = 1}
        Step[i \in 0 .. 2 * WordBits] ==
          IF i = 0 THEN <<1, Wrapped(b)>>
          ELSE LET acc == Step[i - 1][1]  sq == Step[i - 1][2]
               IN  <<IF i - 1 \in bits THEN Wrapped(acc * sq) ELSE acc, Wrapped(sq * sq)>>
    IN  Step[2 * WordBits][1]

\* ipow_signed
ipow_signed(b, e) == IF e >= 0 THEN ipow(b, e)
                     ELSE CASE b = 1  -> 1
                            [] b = -1 -> IF e % 2 = 0 THEN 1 ELSE Wrapped(-1)
                            [] OTHER  -> 0

\* The result of the lane as a value: its low words, masked.
OfLane(n, w, s) == OfDigits([k \in {0, 1} |-> (Wrapped(n) \div 2 ^ (k * WordBits)) % Base], w, s)

native(op, a, b, w, s) ==
    CASE op = "+"  -> OfLane(a + b, w, s)
      [] op = "-"  -> OfLane(a - b, w, s)
      [] op = "*"  -> OfLane(a * b, w, s)
      [] op = "/"  -> IF b = 0 THEN xs(w, s) ELSE OfLane(Quot(a, b), w, s)
      [] op = "%"  -> IF b = 0 THEN xs(w, s) ELSE OfLane(Rest(a, b), w, s)
      [] op = "**" -> OfLane(ipow_signed(a, b), w, s)

\* The exponents the signed kernel of ** cannot express take the table of
\* 11.4.3: a base of 1 or -1, of 0, and any other.
wide_pow_negative(a, b, w, lhs, res) ==
    LET n == Cardinality(DOMAIN a)
        minus_one == mw_mask(mw_neg(mw_one(n)), w)
    IN  IF a = mw_one(n) THEN OfDigits(a, w, res)
        ELSE IF lhs /\ a = minus_one
        THEN OfDigits(IF b[0] % 2 = 0 THEN mw_one(n) ELSE minus_one, w, res)
        ELSE IF mw_is_zero(a) THEN xs(w, res) ELSE zeros(w, res)

wide_divmod(op, a, b, sa, sb, w) ==
    LET mag(x, neg) == IF neg THEN mw_mask(mw_neg(x), w) ELSE x
        qr == mw_divmod(mag(a, sa), mag(b, sb))
    IN  IF op = "/" THEN mag(qr[1], sa # sb) ELSE mag(qr[2], sa)

\* arith_wide: sg = [lhs, rhs, res], how to read the operands and the result.
arith_wide(op, l, r, w, sg) ==
    LET le == resize_keep_sign(l, w, sg.lhs)
        re == resize_keep_sign(r, w, sg.rhs)
        a  == Digits(le)
        b  == Digits(re)
        sa == sg.lhs /\ Negative(le)
        sb == sg.rhs /\ Negative(re)
        Out(x) == OfDigits(mw_mask(x, w), w, sg.res)
    IN  IF w > WideCap /\ op \in {"*", "/", "%", "**"} THEN xs(w, sg.res)
        ELSE CASE op = "+"  -> Out(mw_add(a, b))
               [] op = "-"  -> Out(mw_add(a, mw_neg(b)))
               [] op = "*"  -> Out(mw_mul(a, b, NWords(w)))
               [] op \in {"/", "%"} -> IF mw_is_zero(b) THEN xs(w, sg.res)
                                       ELSE Out(wide_divmod(op, a, b, sa, sb, w))
               [] op = "**" -> IF sb THEN wide_pow_negative(a, b, w, sg.lhs, sg.res)
                               ELSE Out(mw_pow(a, b, w))

SignedLane   == WordBits
UnsignedLane == 2 * WordBits

\* arith: ** reads each operand under its own sign and is signed as its base.
arith(op, l, r) ==
    LET w    == Mx(l.width, r.width)
        both == l.signed /\ r.signed
        sg   == IF op = "**" THEN [lhs |-> l.signed, rhs |-> r.signed, res |-> l.signed]
                ELSE [lhs |-> both, rhs |-> both, res |-> both]
        use_signed == IF op = "**" THEN l.signed \/ (r.signed /\ Negative(r)) ELSE both
        lane == IF use_signed THEN SignedLane ELSE UnsignedLane
    IN  IF has_xz(l) \/ has_xz(r) THEN xs(w, sg.res)
        ELSE IF w > lane THEN arith_wide(op, l, r, w, sg)
        ELSE LET Read(v, s) == IF use_signed THEN ReadInt(resize_keep_sign(v, w, s), s)
                               ELSE ReadInt(v, FALSE)
             IN  native(op, Read(l, sg.lhs), Read(r, sg.rhs), w, sg.res)

\* negate
negate(a) == IF has_xz(a) THEN xs(a.width, a.signed)
             ELSE OfDigits(mw_neg(Digits(a)), a.width, a.signed)
=============================================================================
