------------------------------ MODULE Evaluate ------------------------------
(***************************************************************************)
(* Expressions, evaluated in a context                                     *)
(* (crates/sim-engine/src/eval/eval_core.rs: eval_ctx, eval_binary_ctx;    *)
(* crates/sim-ir/src/selfwidth.rs).  Every node has a width and a sign of  *)
(* its own; the context lends a width and may take the sign away, and both *)
(* reach the operands the operator does not size by itself.  l, r and arg  *)
(* are the operands of one operator, or arg is a tree of two; out is what  *)
(* the evaluator answers.  The properties compare it with IEEE 1800-2017,  *)
(* stated on integers and on single bits.                                  *)
(***************************************************************************)
EXTENDS WideArith, Sequences

CONSTANTS
    Operands,    \* canonical values
    Contexts,    \* contexts [width, signed]
    Conditions,  \* the conditions of ?: and the third drivers of a net
    PartWidths,  \* the constant widths of part selects
    Leaves,      \* the operands of trees of two operators
    IntBits      \* 32: the width of an integer

\* A width and a sign: what a node has of itself, and what its context lends.
Context == [width : Nat, signed : BOOLEAN]
Ctx(w, s) == [width |-> w, signed |-> s]

Supplied == Operands \cup Conditions \cup Leaves

ASSUME EvaluateAssumption ==
    /\ \A v \in Supplied :
          v \in [val : PlanesOf(v.width), unk : PlanesOf(v.width), width : Nat, signed : BOOLEAN]
    /\ Contexts \subseteq Context
    /\ PartWidths \subseteq Nat \ {0}
    /\ IntBits \in Nat \ {0}

\* Widths are u32 and end at WIDTH_MAX, 2^24: an index that does not fit a word,
\* or is past MaxIndex, is past every value, and a count of bits is an integer.
ASSUME WidthAssumption ==
    /\ \A v \in Supplied \cup Contexts : v.width < 2 ^ WordBits
    /\ \A v \in Supplied : v.width < 2 ^ (IntBits - 1)
    /\ \A v \in Supplied, w \in PartWidths : v.width + w <= MaxIndex

VARIABLES l, r, ctx, op, arg, out

vars == <<l, r, ctx, op, arg, out>>

Arith      == {"+", "-", "*", "/", "%"}
Bitwise    == {"&", "|", "^", "^~"}
Relational == {"<", "<=", ">", ">="}
Equality   == {"==", "!="}
CaseEq     == {"===", "!=="}
CaseZ      == {"casez", "casex"}
Compares   == Relational \cup Equality \cup CaseEq \cup CaseZ
Logical    == {"&&", "||"}
Reductions == {"r&", "r~&", "r|", "r~|", "r^", "r~^"}
Signing    == {"$signed", "$unsigned"}
Predicates == {"$onehot", "$onehot0", "$isunknown"}
Shifts     == {"<<", ">>", ">>>"}
Selects    == {"[i]", "+:", "-:"}
Wired      == {"wire", "wand", "wor"}
Unary      == {"neg", "~", "!", "$clog2", "$countones"} \cup Reductions \cup Signing \cup Predicates
Binary     == Arith \cup {"**", "{}"} \cup Bitwise \cup Compares \cup Logical \cup Shifts

-----------------------------------------------------------------------------
(* An expression is an arena of nodes in post-order: a node names its       *)
(* operands by their places, which are lower than its own, and the last    *)
(* node is the expression.  k is the count of a replication or the width   *)
(* of a select.                                                            *)
Leaf(v)       == [op |-> "leaf", args |-> <<>>, k |-> 0, v |-> v]
Node(o, k, s) == [op |-> o, args |-> s, k |-> k]

\* What the table f holds of the operands of a node.
child(f, node) == [j \in DOMAIN node.args |-> f[node.args[j]]]

\* The operators that size their two operands together.
Sizing == Arith \cup Bitwise

\* A: the widths and signs of the operands.
self_width_of(node, A) ==
    LET o == node.op
        Max2(i, j) == Ctx(Mx(A[i].width, A[j].width), A[i].signed /\ A[j].signed)
        Bits(n) == Ctx(n, FALSE)
    IN  CASE o = "leaf" -> Ctx(node.v.width, node.v.signed)
          [] o \in Sizing -> Max2(1, 2)
          [] o \in Shifts \cup {"**", "neg", "~"} -> A[1]
          [] o \in Signing -> Ctx(A[1].width, o = "$signed")
          [] o = "?:" -> Max2(2, 3)
          [] o = "{}" -> Bits(A[1].width + A[2].width)
          [] o = "{n{}}" -> Bits(node.k * A[1].width)
          [] o \in {"+:", "-:"} -> Bits(node.k)
          [] o \in {"$clog2", "$countones"} -> Ctx(IntBits, TRUE)
          [] OTHER -> Bits(1)

\* The width and the sign of every node, each from those before it.
WidthTable(e) == LET sw[i \in DOMAIN e] == self_width_of(e[i], child(sw, e[i]))
                 IN  sw

-----------------------------------------------------------------------------
\* The base has the width and the sign of the region; the exponent has its own.
power(base, exponent, w) ==
    LET exp == resize(exponent, Mx(exponent.width, w))
        \* to_i128_signed answers up to two words
        negative == exp.signed /\ Negative(exp) /\ exp.width <= 2 * WordBits
    IN  IF ~has_xz(base) /\ ~has_xz(exp) /\ ones(base) = 0 /\ negative
        THEN xs(w, base.signed)
        ELSE resize(arith("**", base, exp), w)

compare(o, a, b) == CASE o \in Relational -> relational(o, a, b)
                      [] o \in Equality   -> log_eq(o, a, b)
                      [] o \in CaseEq     -> case_eq(o, a, b)
                      [] o \in CaseZ      -> casez_eq(o, a, b)

\* unary_self_of
unary_self_of(o, v) ==
    Tri(CASE o = "r&"  -> reduce_word(v, "and") [] o = "r~&" -> NotBit(reduce_word(v, "and"))
          [] o = "r|"  -> reduce_word(v, "or")  [] o = "r~|" -> NotBit(reduce_word(v, "or"))
          [] o = "r^"  -> reduce_word(v, "xor") [] o = "r~^" -> NotBit(reduce_word(v, "xor"))
          [] o = "!"   -> NotBit(truthiness(v)))

\* A number in a value of the width of an integer.
Integer(n, s) == Value([k \in Index(IntBits) |-> BitsOf(n \div 2 ^ (k * WordBits))], <<>>, IntBits, s)

\* The highest bit of n - 1, plus one.
clog2(v) == IF has_xz(v) THEN xs(IntBits, FALSE)
            ELSE LET n == ReadInt(v, FALSE)
                     set == {i \in 0 .. v.width : ((n - 1) \div 2 ^ i) % 2 = 1}
                 IN  Integer(IF n <= 1 THEN 0 ELSE Max(set) + 1, FALSE)

eval_sysfunc(o, v) == CASE o = "$clog2"     -> clog2(v)
                        [] o = "$countones" -> Integer(ones(v), TRUE)
                        [] o = "$onehot"    -> logic(ones(v) = 1)
                        [] o = "$onehot0"   -> logic(ones(v) <= 1)
                        [] o = "$isunknown" -> logic(AnyUnknown(v))

(* A node at width w and sign s.  X: the operands, each as a function from *)
(* contexts to values.  An operand is sized by the region it is in, or by  *)
(* itself.                                                                 *)
eval_binary_ctx(node, A, X, w, s) ==
    LET o == node.op
        In(i)  == X[i][Ctx(w, s)]
        Own(i) == X[i][A[i]]
        \* The operands of a comparison size each other, without the context.
        Mutual(i) == X[i][Ctx(Mx(A[1].width, A[2].width), A[1].signed /\ A[2].signed)]
        \* The right operand is read only when the left one leaves it open.
        lt == truthiness(Own(1))
        rt == IF lt = (IF o = "&&" THEN "0" ELSE "1") THEN lt ELSE truthiness(Own(2))
    IN  CASE o \in Arith    -> arith(o, In(1), In(2))
          [] o = "**"       -> power(In(1), Own(2), w)
          [] o \in Bitwise  -> bitwise(In(1), In(2), o)
          [] o \in Compares -> resize_keep_sign(compare(o, Mutual(1), Mutual(2)), w, FALSE)
          [] o \in Logical  -> resize_keep_sign(Tri(log_bin_tri(o, lt, rt)), w, FALSE)
          [] o = "<<"       -> resize_keep_sign(shift_left(In(1), Own(2)), w, s)
          [] o = ">>"       -> shift_right(In(1), Own(2), FALSE)
          [] o = ">>>"      -> resize_keep_sign(shift_right(In(1), Own(2), s), w, s)

eval_ternary(A, X, w, s) ==
    LET c == truthiness(X[1][A[1]])
        Arm(i) == X[i][Ctx(w, s)]
    IN  CASE c = "1" -> Arm(2) [] c = "0" -> Arm(3) [] OTHER -> merge_x(Arm(2), Arm(3), w, s)

eval_ctx(node, A, X, c) ==
    LET o == node.op
        own == self_width_of(node, A)
        w == Mx(own.width, c.width)
        s == own.signed /\ c.signed
        In(i)  == X[i][Ctx(w, s)]
        Own(i) == X[i][A[i]]
        Extended(v) == resize_keep_sign(v, w, FALSE)
    IN  CASE o = "leaf" -> resize_keep_sign(node.v, w, s)
          [] o = "neg"  -> negate(In(1))
          [] o = "~"    -> bit_not(In(1), s)
          [] o = "{}"   -> Extended(eval_concat(Own(1), Own(2)))
          [] o = "{n{}}" -> Extended(eval_replicate(node.k, Own(1)))
          [] o \in Selects -> Extended(eval_select(Own(1), Own(2), node.k, o))
          [] o = "?:" -> eval_ternary(A, X, w, s)
          [] o \in Reductions \cup {"!"} -> Extended(unary_self_of(o, Own(1)))
          [] o \in Signing -> resize_keep_sign([Own(1) EXCEPT !.signed = s], w, s)
          [] o \in Predicates \cup {"$clog2", "$countones"} ->
                resize_keep_sign(eval_sysfunc(o, Own(1)), w, s)
          [] OTHER -> eval_binary_ctx(node, A, X, w, s)

\* Every node as a function from contexts to values.
Evaluated(e) ==
    LET sw == WidthTable(e)
        ev[i \in DOMAIN e] ==
            [c \in Context |-> eval_ctx(e[i], child(sw, e[i]), child(ev, e[i]), c)]
    IN  ev

\* The expression in a context.
eval(e, c) == Evaluated(e)[Len(e)][c]

-----------------------------------------------------------------------------
Answer(o, a, v) == op = "none" /\ op' = o /\ arg' = a /\ out' = v /\ UNCHANGED <<l, r, ctx>>

Init == /\ l \in Operands /\ r \in Operands /\ ctx \in Contexts
        /\ op = "none" /\ arg = 0 /\ out = l

\* The expression of one operator.
Source(o, a) ==
    CASE o \in Unary   -> <<Leaf(l), Node(o, 0, <<1>>)>>
      [] o \in Binary  -> <<Leaf(l), Leaf(r), Node(o, 0, <<1, 2>>)>>
      [] o = "?:"      -> <<Leaf(a), Leaf(l), Leaf(r), Node(o, 0, <<1, 2, 3>>)>>
      [] o = "{n{}}"   -> <<Leaf(l), Node(o, a, <<1>>)>>
      [] o \in Selects -> <<Leaf(l), Leaf(r), Node(o, IF o = "[i]" THEN 1 ELSE a, <<1, 2>>)>>

Operator(o, a) == Answer(o, a, eval(Source(o, a), ctx))

\* Bound: an offset past a word is past every value, as it is with 64 bits.
Select(o, w) == l.width + w <= 2 ^ WordBits + 1 /\ Operator(o, w)

\* A part-select write of r into l, inside l.
Deposit(lsb) ==
    /\ window_in_range(lsb, r.width, l.width)
    /\ Answer("=[]", lsb, replace_bits(l, lsb, r, 0, r.width))

\* A net with three drivers.
Resolution(o, c) ==
    LET w == Mx(l.width, r.width)
        drivers == <<resize(l, w), resize(r, w), resize(c, w)>>
    IN  Answer(o, c, resolve_md_group(o, w, drivers))

\* Two operators on l, r and c, as the right-hand side of an assignment: the
\* target lends its width and no sign.
Trees(c) ==
    LET Pair(o) == <<Leaf(l), Leaf(r), Node(o, 0, <<1, 2>>)>>
        Over(p, k, o, args) == Pair(o) \o <<Leaf(c), Node(p, k, args)>>
    IN  {Pair(o) \o <<Node(u, 0, <<3>>)>> : u \in Unary, o \in Binary}
        \cup {<<Leaf(l), Node(u, 0, <<1>>), Leaf(r), Node(o, 0, <<2, 3>>)>> : u \in Unary, o \in Binary}
        \cup {Over(p, 0, o, <<3, 4>>) : p \in Binary, o \in Binary}
        \cup {Over(p, 0, o, <<4, 3>>) : p \in Shifts \cup {"**", "-"}, o \in Binary}
        \cup {Over("?:", 0, o, <<4, 3, 2>>) : o \in Binary}
        \cup {Over(o, 2, p, <<3, 4>>) : o \in {"+:", "-:"}, p \in Binary}

Assigned(e) == Answer("tree", e, eval(e, Ctx(ctx.width, WidthTable(e)[Len(e)].signed)))

Next ==
    \/ \E o \in Unary \cup Binary : Operator(o, 0)
    \/ \E c \in Conditions : Operator("?:", c)
    \/ \E n \in 1 .. 3 : Operator("{n{}}", n)
    \/ \E o \in Selects, w \in PartWidths : Select(o, w)
    \/ \E lsb \in 0 .. l.width - 1 : Deposit(lsb)
    \/ \E o \in Wired, c \in Conditions : Resolution(o, c)
    \/ /\ op = "none" /\ {l, r} \subseteq Leaves /\ ctx.signed
       /\ \E e \in UNION {Trees(c) : c \in Leaves} : Assigned(e)

Spec == Init /\ [][Next]_vars

-----------------------------------------------------------------------------
(* What IEEE 1800-2017 says, of bits and integers.                         *)
\* The width and the sign of the region.
Width  == Mx(Mx(l.width, r.width), ctx.width)
Signed == l.signed /\ r.signed /\ ctx.signed

\* A region of the left operand alone.
LeftWidth  == Mx(l.width, ctx.width)
LeftSigned == l.signed /\ ctx.signed

BitSet(v)    == {BitOf(v, i) : i \in 0 .. v.width - 1}
Known(v)     == BitSet(v) \subseteq Defined

IntOf(v, s) == SumSet({2 ^ i : i \in {j \in 0 .. v.width - 1 : BitOf(v, j) = "1"}})
               - (IF s /\ BitOf(v, v.width - 1) = "1" THEN 2 ^ v.width ELSE 0)

\* out has width w, sign s and the bits F gives.
Is(w, s, F(_)) == /\ out.width = w /\ out.signed = s
                  /\ \A i \in 0 .. w - 1 : BitOf(out, i) = F(i)
IsUnknown(w, s) == Is(w, s, LAMBDA i : "x")
IsInt(w, s, n)  == Is(w, s, LAMBDA i : IF (n \div 2 ^ i) % 2 = 1 THEN "1" ELSE "0")
IsBit(b)        == LET w == Mx(1, ctx.width)
                   IN  Is(w, FALSE, LAMBDA i : IF i = 0 THEN b ELSE "0")
Truth(b)        == IF b THEN "1" ELSE "0"

\* Every answer is canonical: the planes have the words of the width and
\* nothing above it, which is what a resize to the same width relies on
\* (value.rs: is_canonical, the debug_assert of resize).
Canonical == is_canonical(out)

\* b ^ e modulo 2 ^ w
PowMod(b, e, w) == LET P[k \in 0 .. e] == IF k = 0 THEN 1 ELSE (P[k - 1] * b) % 2 ^ w
                   IN  P[e] % 2 ^ w

\* + - * / % are the integer operations at the width and sign of the region, in
\* whichever lane they run; x when an operand has an unknown bit, when the
\* divisor is zero, and past the cap on wide operations.  ** takes its base in
\* the context and its exponent as it is; a negative exponent follows the table
\* of 11.4.3.  $clog2 and $countones are integers; the code answers $clog2 of an
\* unknown value as an unsigned one, which grows by zeros (arith, arith_wide,
\* power, eval_sysfunc).
ArithmeticExact ==
    /\ op \in Arith =>
        LET a == IntOf(l, Signed)  b == IntOf(r, Signed)
        IN  IF ~Known(l) \/ ~Known(r) \/ (op \in {"/", "%"} /\ b = 0)
               \/ (op # "+" /\ op # "-" /\ Width > WideCap)
            THEN IsUnknown(Width, Signed)
            ELSE IsInt(Width, Signed, CASE op = "+" -> a + b [] op = "-" -> a - b
                                        [] op = "*" -> a * b [] op = "/" -> Quot(a, b)
                                        [] op = "%" -> Rest(a, b))
    /\ op = "**" =>
        LET b == IntOf(l, LeftSigned)  e == IntOf(r, r.signed)
            w == LeftWidth  s == LeftSigned
        IN  IF ~Known(l) \/ ~Known(r) \/ (b = 0 /\ e < 0) \/ Mx(w, r.width) > WideCap
            THEN IsUnknown(w, s)
            ELSE IsInt(w, s, IF e >= 0 THEN PowMod(b, e, w)
                             ELSE IF b = 1 \/ (b = -1 /\ e % 2 = 0) THEN 1
                             ELSE IF b = -1 THEN -1 ELSE 0)
    /\ op = "neg" => IF Known(l) THEN IsInt(LeftWidth, LeftSigned, -IntOf(l, LeftSigned))
                     ELSE IsUnknown(LeftWidth, LeftSigned)
    /\ op \in {"$clog2", "$countones"} =>
        LET n == IntOf(l, FALSE)
            w == Mx(IntBits, ctx.width)
        IN  IF op = "$clog2" /\ ~Known(l)
            THEN Is(w, ctx.signed, LAMBDA i : IF i < IntBits THEN "x" ELSE "0")
            ELSE IsInt(w, ctx.signed,
                       IF op = "$countones" THEN Cardinality({i \in 0 .. l.width - 1 : BitOf(l, i) = "1"})
                       ELSE Min({k \in 0 .. l.width : 2 ^ k >= n}))

\* The bitwise operators and ?: under an unknown condition are their tables on
\* every bit of the extended operands (bitwise, merge_x, sign fill of resize);
\* and a net takes from its drivers what 6.6 says of the set of their values, in
\* whatever order they are folded: z yields, equal values agree, and a wired
\* and or or is decided by its 0 or its 1 (resolve_md_group).
BitwiseExact ==
    LET D4(i) == {Ext(l, l.signed, i), Ext(r, r.signed, i), Ext(arg, arg.signed, i)} \ {"z"}
        L(i) == Ext(l, Signed, i)  R(i) == Ext(r, Signed, i)
    IN  /\ op = "&"  => Is(Width, Signed, LAMBDA i : AndBit(L(i), R(i)))
        /\ op = "|"  => Is(Width, Signed, LAMBDA i : OrBit(L(i), R(i)))
        /\ op = "^"  => Is(Width, Signed, LAMBDA i : XorBit(L(i), R(i)))
        /\ op = "^~" => Is(Width, Signed, LAMBDA i : NotBit(XorBit(L(i), R(i))))
        /\ op = "~"  => Is(LeftWidth, LeftSigned, LAMBDA i : NotBit(Ext(l, LeftSigned, i)))
        /\ op = "?:" => Is(Width, Signed, LAMBDA i :
              CASE "1" \in BitSet(arg) -> L(i)
                [] BitSet(arg) \subseteq {"0"} -> R(i)
                [] OTHER -> MergeBit(L(i), R(i)))
        /\ op \in Wired => Is(Mx(l.width, r.width), FALSE, LAMBDA i :
              IF D4(i) = {} THEN "z"
              ELSE IF Cardinality(D4(i)) = 1 THEN CHOOSE b \in D4(i) : TRUE
              ELSE IF op = "wand" /\ "0" \in D4(i) THEN "0"
              ELSE IF op = "wor" /\ "1" \in D4(i) THEN "1" ELSE "x")

\* Comparisons size and sign their operands by each other, not by the context:
\* the order of the integers, a known difference deciding == over unknown bits,
\* === on all four states, casez and casex with their wildcards.  Reductions and
\* logical operators see the bits of the value and no padding: a definite bit
\* decides over unknown ones, and && and || leave their right operand unread
\* when the left one decides (relational, case_eq, reduce_word, truthiness).
TruthExact ==
    LET s == l.signed /\ r.signed
        B == 0 .. Mx(l.width, r.width) - 1
        L(i) == Ext(l, s, i)  R(i) == Ext(r, s, i)
        a == IntOf(l, s)  b == IntOf(r, s)
        differ == \E i \in B : {L(i), R(i)} = Defined
        equal  == \A i \in B : L(i) = R(i)
        Wild(p) == p = "z" \/ (p = "x" /\ op = "casex")
        Any(v) == IF "1" \in BitSet(v) THEN "1" ELSE IF Known(v) THEN "0" ELSE "x"
        All(v) == IF "0" \in BitSet(v) THEN "0" ELSE IF Known(v) THEN "1" ELSE "x"
        Odd(v) == IF ~Known(v) THEN "x" ELSE Truth(
                    Cardinality({i \in 0 .. v.width - 1 : BitOf(v, i) = "1"}) % 2 = 1)
    IN  /\ op \in Relational => IsBit(IF ~Known(l) \/ ~Known(r) THEN "x" ELSE Truth(
              CASE op = "<" -> a < b [] op = "<=" -> a <= b
                [] op = ">" -> a > b [] op = ">=" -> a >= b))
        /\ op \in Equality => IsBit(IF differ THEN Truth(op = "!=")
              ELSE IF ~Known(l) \/ ~Known(r) THEN "x" ELSE Truth(op = "=="))
        /\ op \in CaseEq => IsBit(Truth(equal = (op = "===")))
        /\ op \in CaseZ => IsBit(Truth(\A i \in B :
              Wild(L(i)) \/ Wild(R(i)) \/ L(i) = R(i)))
        /\ op = "r&" => IsBit(All(l))
        /\ op = "r~&" => IsBit(NotBit(All(l)))
        /\ op = "r|" => IsBit(Any(l))
        /\ op = "r~|" => IsBit(NotBit(Any(l)))
        /\ op = "r^" => IsBit(Odd(l))
        /\ op = "r~^" => IsBit(NotBit(Odd(l)))
        /\ op = "!"  => IsBit(NotBit(Any(l)))
        /\ op = "$isunknown" => IsBit(Truth(~Known(l)))
        /\ op \in {"$onehot", "$onehot0"} => IsBit(Truth(
              Cardinality({i \in 0 .. l.width - 1 : BitOf(l, i) = "1"}) \in
                  {1} \cup (IF op = "$onehot0" THEN {0} ELSE {})))
        /\ op = "&&" => IsBit(AndBit(Any(l), Any(r)))
        /\ op = "||" => IsBit(OrBit(Any(l), Any(r)))

\* A shift moves the bits of the extended left operand by the whole amount,
\* across words; >>> fills with the sign bit, x and z too, when the region is
\* signed (shl_grow, shr_fill).  Concatenation, replication, selects and
\* part-select writes move every bit to its place: a select is x where it leaves
\* its source and wholly x under an unknown offset, and a write changes nothing
\* outside its window (copy_bits, replace_bits, select).
PlacementExact ==
    LET off == IntOf(r, FALSE)
        lsb == IF op = "-:" THEN off - arg + 1 ELSE off
        w == LeftWidth
        L(i) == Ext(l, LeftSigned, i)
        nat(n, F(_)) == Is(Mx(n, ctx.width), FALSE, LAMBDA i : IF i < n THEN F(i) ELSE "0")
        relabelled == (op = "$signed") /\ ctx.signed
    IN  /\ op \in Signing => Is(w, relabelled, LAMBDA i : Ext(l, relabelled, i))
        /\ op \in Shifts =>
              IF ~Known(r) THEN IsUnknown(w, LeftSigned)
              ELSE Is(w, LeftSigned, LAMBDA i :
                     CASE op = "<<" -> IF i < off THEN "0" ELSE L(i - off)
                       [] OTHER -> IF i + off < w THEN L(i + off)
                                   ELSE IF op = ">>>" /\ LeftSigned THEN L(w - 1) ELSE "0")
        /\ op = "{}" => nat(l.width + r.width, LAMBDA i :
              IF i < r.width THEN BitOf(r, i) ELSE BitOf(l, i - r.width))
        /\ op = "{n{}}" => nat(arg * l.width, LAMBDA i : BitOf(l, i % l.width))
        /\ op \in Selects => nat(IF op = "[i]" THEN 1 ELSE arg, LAMBDA i :
              IF Known(r) /\ lsb + i \in 0 .. l.width - 1 THEN BitOf(l, lsb + i) ELSE "x")
        /\ op = "=[]" => Is(l.width, l.signed, LAMBDA i :
              IF i - arg \in 0 .. r.width - 1 THEN BitOf(r, i - arg) ELSE BitOf(l, i))
=============================================================================
