--------------------------- MODULE EvaluateProofs ---------------------------
(***************************************************************************)
(* Every expression of the evaluator answers with a canonical value of the *)
(* width and the sign of its region, and its answers are exact: the bitwise*)
(* operators and nets, the comparisons, reductions and logical operators,  *)
(* the shifts, selects and copies, and the arithmetic on integers, powers  *)
(* and counts included.  WordBits and all widths are arbitrary.            *)
(***************************************************************************)
EXTENDS Evaluate, WideArithProofs

-----------------------------------------------------------------------------
(* Arenas.                                                                 *)
\* The operators, and how many operands each has.
Operators == {"leaf", "?:", "{n{}}"} \cup Selects \cup Unary \cup Binary

Arity(o) == CASE o = "leaf" -> 0 [] o = "?:" -> 3
              [] o \in {"{n{}}"} \cup Unary -> 1 [] OTHER -> 2

\* An arena: operands come before the nodes that use them, and leaves are canonical.
Arena(e) ==
    /\ Len(e) \in Nat \ {0} /\ DOMAIN e = 1 .. Len(e)
    /\ \A i \in DOMAIN e :
          /\ e[i].op \in Operators /\ e[i].k \in Nat
          /\ DOMAIN e[i].args = 1 .. Arity(e[i].op)
          /\ \A j \in DOMAIN e[i].args : e[i].args[j] \in 1 .. i - 1
          /\ e[i].op = "leaf" => e[i].v \in Values

\* f is the table of e up to place m.
Tables(f, e, m) ==
    /\ f = [i \in DOMAIN e |-> f[i]]
    /\ \A i \in DOMAIN e : i <= m => f[i] = self_width_of(e[i], child(f, e[i]))

\* The operands of a node have the answers of two functions that agree on all before it.
LEMMA SameChildren ==
    ASSUME NEW e, Arena(e), NEW i \in DOMAIN e, NEW f, NEW g, \A j \in DOMAIN e : j < i => f[j] = g[j]
    PROVE  child(f, e[i]) = child(g, e[i])
<1>1. \A j \in DOMAIN e[i].args : e[i].args[j] \in DOMAIN e /\ e[i].args[j] < i
  BY DEF Arena
<1>2. \A j \in DOMAIN e[i].args : f[e[i].args[j]] = g[e[i].args[j]]
  BY <1>1
<1> QED BY <1>2 DEF child

\* The table exists, and its equation holds at every node.
LEMMA TableEquation ==
    ASSUME NEW e, Arena(e), NEW i \in DOMAIN e
    PROVE  WidthTable(e)[i] = self_width_of(e[i], child(WidthTable(e), e[i]))
<1> DEFINE P == {m \in Nat : \E f : Tables(f, e, m)}
<1>1. Len(e) \in Nat /\ DOMAIN e = 1 .. Len(e)
  BY DEF Arena
<1>2. 0 \in P
  <2> DEFINE f == [j \in DOMAIN e |-> 0]
  <2>1. Tables(f, e, 0)
    BY <1>1 DEF Tables
  <2> HIDE DEF f
  <2> QED BY <2>1
<1>3. ASSUME NEW m \in Nat, m \in P
      PROVE  m + 1 \in P
  <2>1. PICK f : Tables(f, e, m)
    BY <1>3
  <2> DEFINE g == [j \in DOMAIN e |-> IF j = m + 1 THEN self_width_of(e[j], child(f, e[j])) ELSE f[j]]
  <2>2. \A j \in DOMAIN e : j <= m => g[j] = f[j]
    BY <1>1
  <2>3. g = [j \in DOMAIN e |-> g[j]]
    OBVIOUS
  <2>4. ASSUME NEW j \in DOMAIN e, j <= m + 1
        PROVE  g[j] = self_width_of(e[j], child(g, e[j]))
    <3>1. \A n \in DOMAIN e : n < j => f[n] = g[n]
      BY <1>1, <2>2, <2>4
    <3>2. child(f, e[j]) = child(g, e[j])
      <4> HIDE DEF g
      <4> QED BY <3>1, SameChildren
    <3>3. g[j] = self_width_of(e[j], child(f, e[j]))
      <4>1. CASE j = m + 1
        BY <4>1
      <4>2. CASE j # m + 1
        BY <1>1, <2>1, <2>4, <4>2 DEF Tables
      <4> QED BY <4>1, <4>2
    <3> HIDE DEF g
    <3> QED BY <3>2, <3>3
  <2>5. Tables(g, e, m + 1)
    <3> HIDE DEF g
    <3> QED BY <2>3, <2>4 DEF Tables
  <2> HIDE DEF g
  <2> QED BY <2>5
<1>4. Len(e) \in P
  <2> HIDE DEF P
  <2> QED BY <1>1, <1>2, <1>3, SetInduction
<1>5. PICK f : Tables(f, e, Len(e))
  BY <1>4
<1>6. f = [j \in DOMAIN e |-> self_width_of(e[j], child(f, e[j]))]
  BY <1>1, <1>5 DEF Tables
<1>7. WidthTable(e) = [j \in DOMAIN e |-> self_width_of(e[j], child(WidthTable(e), e[j]))]
  BY <1>6 DEF WidthTable
<1> QED BY <1>7

\* What a node answers in every context.
Answers(node, A, X) == [c \in Context |-> eval_ctx(node, A, X, c)]

\* f evaluates the nodes of e up to place m.
Evaluates(f, e, m) ==
    /\ f = [i \in DOMAIN e |-> f[i]]
    /\ \A i \in DOMAIN e : i <= m =>
          f[i] = Answers(e[i], child(WidthTable(e), e[i]), child(f, e[i]))

\* So does the evaluation of every node.
LEMMA EvaluatedEquation ==
    ASSUME NEW e, Arena(e), NEW i \in DOMAIN e
    PROVE  Evaluated(e)[i] = Answers(e[i], child(WidthTable(e), e[i]), child(Evaluated(e), e[i]))
<1> DEFINE W(j) == child(WidthTable(e), e[j])
           P == {m \in Nat : \E f : Evaluates(f, e, m)}
<1>1. Len(e) \in Nat /\ DOMAIN e = 1 .. Len(e)
  BY DEF Arena
<1>2. 0 \in P
  <2> DEFINE f == [j \in DOMAIN e |-> 0]
  <2>1. Evaluates(f, e, 0)
    BY <1>1 DEF Evaluates
  <2> HIDE DEF f
  <2> QED BY <2>1
<1>3. ASSUME NEW m \in Nat, m \in P
      PROVE  m + 1 \in P
  <2>1. PICK f : Evaluates(f, e, m)
    BY <1>3
  <2> DEFINE g == [j \in DOMAIN e |-> IF j = m + 1 THEN Answers(e[j], W(j), child(f, e[j])) ELSE f[j]]
  <2>2. \A j \in DOMAIN e : j <= m => g[j] = f[j]
    BY <1>1
  <2>3. g = [j \in DOMAIN e |-> g[j]]
    OBVIOUS
  <2>4. ASSUME NEW j \in DOMAIN e, j <= m + 1
        PROVE  g[j] = Answers(e[j], W(j), child(g, e[j]))
    <3>1. \A n \in DOMAIN e : n < j => f[n] = g[n]
      BY <1>1, <2>2, <2>4
    <3>2. child(f, e[j]) = child(g, e[j])
      <4> HIDE DEF g
      <4> QED BY <3>1, SameChildren
    <3>3. g[j] = Answers(e[j], W(j), child(f, e[j]))
      <4>1. CASE j = m + 1
        BY <4>1
      <4>2. CASE j # m + 1
        BY <1>1, <2>1, <2>4, <4>2 DEF Evaluates
      <4> QED BY <4>1, <4>2
    <3> HIDE DEF g, W
    <3> QED BY <3>2, <3>3
  <2>5. Evaluates(g, e, m + 1)
    <3> HIDE DEF g
    <3> QED BY <2>3, <2>4 DEF Evaluates
  <2> HIDE DEF g
  <2> QED BY <2>5
<1>4. Len(e) \in P
  <2> HIDE DEF P
  <2> QED BY <1>1, <1>2, <1>3, SetInduction
<1>5. PICK f : Evaluates(f, e, Len(e))
  BY <1>4
<1>6. f = [j \in DOMAIN e |-> Answers(e[j], W(j), child(f, e[j]))]
  BY <1>1, <1>5 DEF Evaluates
<1>7. Evaluated(e) = [j \in DOMAIN e |-> Answers(e[j], W(j), child(Evaluated(e), e[j]))]
  BY <1>6 DEF Evaluated, Answers
<1> QED BY <1>7

\* The width and the sign of the region of a node in the context c.
RegionWidth(node, A, c)  == Mx(self_width_of(node, A).width, c.width)

RegionSigned(node, A, c) == self_width_of(node, A).signed /\ c.signed

\* res is what a node answers at width w and sign s, one operator at a time.
Evals(node, A, X, w, s, res) ==
    LET o == node.op
        In(i)  == X[i][Ctx(w, s)]
        Own(i) == X[i][A[i]]
        Mutual(i) == X[i][Ctx(Mx(A[1].width, A[2].width), A[1].signed /\ A[2].signed)]
        Extended(v) == resize_keep_sign(v, w, FALSE)
        lt == truthiness(Own(1))
        rt == IF lt = (IF o = "&&" THEN "0" ELSE "1") THEN lt ELSE truthiness(Own(2))
    IN  /\ o = "leaf" => res = resize_keep_sign(node.v, w, s)
        /\ o = "neg" => res = negate(In(1))
        /\ o = "~" => res = bit_not(In(1), s)
        /\ o = "{}" => res = Extended(eval_concat(Own(1), Own(2)))
        /\ o = "{n{}}" => res = Extended(eval_replicate(node.k, Own(1)))
        /\ o \in Selects => res = Extended(eval_select(Own(1), Own(2), node.k, o))
        /\ o = "?:" => res = eval_ternary(A, X, w, s)
        /\ o \in Reductions \cup {"!"} => res = Extended(unary_self_of(o, Own(1)))
        /\ o \in Signing => res = resize_keep_sign([Own(1) EXCEPT !.signed = s], w, s)
        /\ o \in Predicates \cup {"$clog2", "$countones"} =>
              res = resize_keep_sign(eval_sysfunc(o, Own(1)), w, s)
        /\ o \in Arith => res = arith(o, In(1), In(2))
        /\ o = "**" => res = power(In(1), Own(2), w)
        /\ o \in Bitwise => res = bitwise(In(1), In(2), o)
        /\ o \in Compares => res = Extended(compare(o, Mutual(1), Mutual(2)))
        /\ o = "<<" => res = resize_keep_sign(shift_left(In(1), Own(2)), w, s)
        /\ o = ">>" => res = shift_right(In(1), Own(2), FALSE)
        /\ o = ">>>" => res = resize_keep_sign(shift_right(In(1), Own(2), s), w, s)
        /\ o \in Logical => res = Extended(Tri(log_bin_tri(o, lt, rt)))

\* Each operator is evaluated by its own arm.
LEMMA EvalCases ==
    ASSUME NEW node, NEW A, NEW X, NEW c
    PROVE  Evals(node, A, X, RegionWidth(node, A, c), RegionSigned(node, A, c), eval_ctx(node, A, X, c))
<1> DEFINE o == node.op
           w == RegionWidth(node, A, c)
           s == RegionSigned(node, A, c)
           res == eval_ctx(node, A, X, c)
<1> USE DEF Arith, Bitwise, Relational, Equality, CaseEq, CaseZ, Compares, Logical, Reductions,
            Signing, Predicates, Selects
<1>1. o \in Arith \cup {"**"} \cup Bitwise \cup Compares \cup Logical \cup {"<<", ">>", ">>>"} =>
         res = eval_binary_ctx(node, A, X, w, s)
  BY DEF eval_ctx, RegionWidth, RegionSigned
<1>2. o \in Arith => res = arith(o, X[1][Ctx(w, s)], X[2][Ctx(w, s)])
  BY <1>1 DEF eval_binary_ctx
<1>3. o = "**" => res = power(X[1][Ctx(w, s)], X[2][A[2]], w)
  BY <1>1 DEF eval_binary_ctx
<1>4. o \in Bitwise => res = bitwise(X[1][Ctx(w, s)], X[2][Ctx(w, s)], o)
  BY <1>1 DEF eval_binary_ctx
<1>5. o \in Compares =>
         res = resize_keep_sign(compare(o,
                   X[1][Ctx(Mx(A[1].width, A[2].width), A[1].signed /\ A[2].signed)],
                   X[2][Ctx(Mx(A[1].width, A[2].width), A[1].signed /\ A[2].signed)]), w, FALSE)
  BY <1>1 DEF eval_binary_ctx
<1>6. o = "<<" => res = resize_keep_sign(shift_left(X[1][Ctx(w, s)], X[2][A[2]]), w, s)
  BY <1>1 DEF eval_binary_ctx
<1>7. o = ">>" => res = shift_right(X[1][Ctx(w, s)], X[2][A[2]], FALSE)
  BY <1>1 DEF eval_binary_ctx
<1>8. o = ">>>" => res = resize_keep_sign(shift_right(X[1][Ctx(w, s)], X[2][A[2]], s), w, s)
  BY <1>1 DEF eval_binary_ctx
<1>9. o \in Logical =>
         LET lt == truthiness(X[1][A[1]])
             rt == IF lt = (IF o = "&&" THEN "0" ELSE "1") THEN lt ELSE truthiness(X[2][A[2]])
         IN  res = resize_keep_sign(Tri(log_bin_tri(o, lt, rt)), w, FALSE)
  BY <1>1 DEF eval_binary_ctx
<1>10. /\ o = "leaf" => res = resize_keep_sign(node.v, w, s)
       /\ o = "neg" => res = negate(X[1][Ctx(w, s)])
       /\ o = "~" => res = bit_not(X[1][Ctx(w, s)], s)
       /\ o = "{}" => res = resize_keep_sign(eval_concat(X[1][A[1]], X[2][A[2]]), w, FALSE)
       /\ o = "{n{}}" => res = resize_keep_sign(eval_replicate(node.k, X[1][A[1]]), w, FALSE)
  BY DEF eval_ctx, RegionWidth, RegionSigned
<1>11. /\ o \in Selects =>
             res = resize_keep_sign(eval_select(X[1][A[1]], X[2][A[2]], node.k, o), w, FALSE)
       /\ o = "?:" => res = eval_ternary(A, X, w, s)
  BY DEF eval_ctx, RegionWidth, RegionSigned
<1>12. o \in Reductions \cup {"!"} => res = resize_keep_sign(unary_self_of(o, X[1][A[1]]), w, FALSE)
  BY DEF eval_ctx, RegionWidth, RegionSigned
<1>13. o \in Signing => res = resize_keep_sign([X[1][A[1]] EXCEPT !.signed = s], w, s)
  BY DEF eval_ctx, RegionWidth, RegionSigned
<1>14. o \in Predicates \cup {"$clog2", "$countones"} =>
          res = resize_keep_sign(eval_sysfunc(o, X[1][A[1]]), w, s)
  BY DEF eval_ctx, RegionWidth, RegionSigned
<1> HIDE DEF o, w, s, res
<1>15. QED
  BY <1>2, <1>3, <1>4, <1>5, <1>6, <1>7, <1>8, <1>9, <1>10, <1>11, <1>12, <1>13, <1>14 DEF o, w, s, res, Evals

\* + - * / % and ** answer at the wider width (arith, arith_wide).
LEMMA WideType ==
    ASSUME NEW o \in Arith \cup {"**"}, NEW a, NEW b, NEW w \in Nat,
           NEW sg \in [lhs : BOOLEAN, rhs : BOOLEAN, res : BOOLEAN]
    PROVE  Region(arith_wide(o, a, b, w, sg), w, sg.res)
<1> DEFINE R(x) == Region(x, w, sg.res)
<1>1. sg.res \in BOOLEAN
  OBVIOUS
<1>2. R(xs(w, sg.res)) /\ R(zeros(w, sg.res)) /\ \A x : R(OfDigits(x, w, sg.res))
  BY <1>1, FillType, DigitsType
<1> HIDE DEF R
<1>3. \A x, y : R(wide_pow_negative(x, y, w, sg.lhs, sg.res))
  BY <1>2 DEF wide_pow_negative
<1>4. R(arith_wide(o, a, b, w, sg))
  <2>1. CASE w > WideCap /\ o \in {"*", "/", "%", "**"}
    BY <1>2, <2>1 DEF arith_wide
  <2>2. CASE o = "+" /\ ~(w > WideCap /\ o \in {"*", "/", "%", "**"})
    BY <1>2, <2>2 DEF arith_wide
  <2>3. CASE o = "-" /\ ~(w > WideCap /\ o \in {"*", "/", "%", "**"})
    BY <1>2, <2>3 DEF arith_wide
  <2>4. CASE o = "*" /\ ~(w > WideCap /\ o \in {"*", "/", "%", "**"})
    BY <1>2, <2>4 DEF arith_wide
  <2>5. CASE o \in {"/", "%"} /\ ~(w > WideCap /\ o \in {"*", "/", "%", "**"})
    BY <1>2, <2>5 DEF arith_wide
  <2>6. CASE o = "**" /\ ~(w > WideCap /\ o \in {"*", "/", "%", "**"})
    BY <1>2, <1>3, <2>6 DEF arith_wide
  <2> QED BY <2>1, <2>2, <2>3, <2>4, <2>5, <2>6 DEF Arith
<1> QED BY <1>4 DEF R

\* The native lanes answer at the width and the sign asked for.
LEMMA NativeType ==
    ASSUME NEW o \in Arith \cup {"**"}, NEW a, NEW b, NEW w \in Nat, NEW s \in BOOLEAN
    PROVE  Region(native(o, a, b, w, s), w, s)
<1> DEFINE R(x) == Region(x, w, s)
<1>1. R(xs(w, s)) /\ \A n : R(OfLane(n, w, s))
  BY FillType, DigitsType DEF OfLane
<1> HIDE DEF R
<1>2. R(native(o, a, b, w, s))
  BY <1>1 DEF native, Arith
<1> QED BY <1>2 DEF R

\* Arithmetic answers at the wider width.
LEMMA ArithType ==
    ASSUME NEW o \in Arith \cup {"**"}, NEW a \in Values, NEW b \in Values
    PROVE  Region(arith(o, a, b), Mx(a.width, b.width),
                  IF o = "**" THEN a.signed ELSE a.signed /\ b.signed)
<1> DEFINE w == Mx(a.width, b.width)
           both == a.signed /\ b.signed
           sg == IF o = "**" THEN [lhs |-> a.signed, rhs |-> b.signed, res |-> a.signed]
                 ELSE [lhs |-> both, rhs |-> both, res |-> both]
           s == IF o = "**" THEN a.signed ELSE a.signed /\ b.signed
           R(x) == Region(x, w, s)
<1>1. w \in Nat /\ s \in BOOLEAN /\ sg.res = s /\ sg \in [lhs : BOOLEAN, rhs : BOOLEAN, res : BOOLEAN]
  BY ValueParts, Wider
<1>2. R(xs(w, sg.res)) /\ R(arith_wide(o, a, b, w, sg)) /\ \A x, y : R(native(o, x, y, w, sg.res))
  BY <1>1, FillType, WideType, NativeType, ZenonT(40)
<1>3. R(arith(o, a, b))
  <2> HIDE DEF R
  <2> QED BY <1>2 DEF arith
<1> QED BY <1>3

\* So does **, at the width of its region.
LEMMA PowerType ==
    ASSUME NEW base \in Values, NEW e \in Values, NEW w \in Nat
    PROVE  Region(power(base, e, w), w, base.signed)
<1> DEFINE x == resize(e, Mx(e.width, w))
<1>1. x \in Values /\ base.signed \in BOOLEAN
  BY ValueParts, Wider, ResizeExtends
<1>2. Region(xs(w, base.signed), w, base.signed)
  BY <1>1, FillType
<1>3. Region(resize(arith("**", base, x), w), w, base.signed)
  <2>1. arith("**", base, x) \in Values /\ arith("**", base, x).signed = base.signed
    <3> HIDE DEF x
    <3> QED BY <1>1, ArithType DEF Region
  <2> HIDE DEF x
  <2> QED BY <2>1, ResizeExtends DEF Region
<1> QED BY <1>2, <1>3 DEF power

\* Comparisons and system functions answer a bit or an integer.
LEMMA CompareType ==
    ASSUME NEW o \in Compares, NEW a, NEW b
    PROVE  Region(compare(o, a, b), 1, FALSE)
<1>1. Region(relational(o, a, b), 1, FALSE)
  BY TruthType DEF relational
<1>2. Region(log_eq(o, a, b), 1, FALSE)
  BY TruthType DEF log_eq
<1>3. Region(case_eq(o, a, b), 1, FALSE)
  BY TruthType DEF case_eq
<1>4. Region(casez_eq(o, a, b), 1, FALSE)
  BY TruthType DEF casez_eq
<1> QED BY <1>1, <1>2, <1>3, <1>4 DEF compare, Compares, Relational, Equality, CaseEq, CaseZ

\* The system functions answer with canonical values.
LEMMA SysfuncType ==
    ASSUME NEW o \in Predicates \cup {"$clog2", "$countones"}, NEW v
    PROVE  /\ eval_sysfunc(o, v) \in Values
           /\ eval_sysfunc(o, v).width = IF o \in Predicates THEN 1 ELSE IntBits
<1>0. IntBits \in Nat
  BY EvaluateAssumption
<1>1. \A n : \A s \in BOOLEAN : Region(Integer(n, s), IntBits, s)
  <2> TAKE n
  <2> TAKE s \in BOOLEAN
  <2> DEFINE p == [k \in Index(IntBits) |-> BitsOf(n \div 2 ^ (k * WordBits))]
  <2>1. \A k \in DOMAIN p : p[k] \in Word
    BY Bits
  <2>2. Region(Value(p, <<>>, IntBits, s), IntBits, s)
    <3> HIDE DEF p
    <3> QED BY <1>0, <2>1, PlaneOfWords
  <2> QED BY <2>2 DEF Integer
<1>2. Region(clog2(v), IntBits, FALSE)
  BY <1>0, <1>1, FillType DEF clog2
<1>3. CASE o \in Predicates
  BY <1>3, TruthType DEF eval_sysfunc, Predicates, Region
<1>4. CASE o = "$clog2"
  BY <1>0, <1>2, <1>4 DEF eval_sysfunc, Predicates, Region
<1>5. CASE o = "$countones"
  BY <1>0, <1>1, <1>5 DEF eval_sysfunc, Predicates, Region
<1> QED BY <1>3, <1>4, <1>5

\* A select answers at its width, without a sign.
LEMMA SelectType ==
    ASSUME NEW v \in Values, NEW off \in Values, NEW w \in Nat, NEW kind \in Selects
    PROVE  eval_select(v, off, w, kind) \in Values /\ eval_select(v, off, w, kind).width = w
<1>1. to_u64(off) \in Nat \/ to_u64(off) = -1
  BY AmountType
<1>2. CASE to_u64(off) = -1 \/ to_u64(off) > MaxIndex
  BY <1>2, FilledBits DEF eval_select
<1>3. CASE to_u64(off) \in Nat /\ ~(to_u64(off) > MaxIndex)
  BY <1>3, SelectReads DEF Selects
<1> QED BY <1>1, <1>2, <1>3

\* An operand answers in every context with the width and the sign of the region.
Operand(x, a) == \A c \in Context : Region(x[c], Mx(a.width, c.width), a.signed /\ c.signed)

\* The operands of a node.
OperandsOf(node, A, X) ==
    \A j \in 1 .. Arity(node.op) : A[j] \in Context /\ Operand(X[j], A[j])

\* In the region of a node an operand has the width of the region when it is no
\* wider than the node, and by itself it has its own.
LEMMA OperandIn ==
    ASSUME NEW x, NEW a \in Context, Operand(x, a), NEW w \in Nat, NEW s \in BOOLEAN,
           a.width <= w, s => a.signed
    PROVE  Region(x[Ctx(w, s)], w, s)
<1>1. Ctx(w, s) \in Context /\ Ctx(w, s).width = w /\ Ctx(w, s).signed = s
  BY DEF Ctx, Context
<1>2. Mx(a.width, w) = w
  BY DEF Mx, Context
<1>3. (a.signed /\ s) = s
  BY DEF Context
<1> QED BY <1>1, <1>2, <1>3 DEF Operand

\* An operand in its own context.
LEMMA OperandOwn ==
    ASSUME NEW x, NEW a \in Context, Operand(x, a)
    PROVE  Region(x[a], a.width, a.signed)
<1>1. Mx(a.width, a.width) = a.width /\ (a.signed /\ a.signed) = a.signed
  BY DEF Context, Mx
<1> QED BY <1>1 DEF Operand

\* How many operands the operators have.
LEMMA Arities ==
    ASSUME NEW o \in Operators
    PROVE  /\ o \in Unary \cup {"{n{}}"} => Arity(o) = 1
           /\ o \in Binary \cup Selects => Arity(o) = 2
           /\ o = "?:" => Arity(o) = 3
           /\ o = "leaf" => Arity(o) = 0
<1> USE DEF Arith, Bitwise, Shifts, Signing, Compares, Relational, Equality, CaseEq, CaseZ,
            Logical, Reductions, Predicates, Selects, Unary, Binary
<1>1. o \in Unary \cup {"{n{}}"} => Arity(o) = 1
  BY DEF Arity
<1>2. o \in Binary \cup Selects => Arity(o) = 2
  BY DEF Arity
<1>3. (o = "?:" => Arity(o) = 3) /\ (o = "leaf" => Arity(o) = 0)
  BY DEF Arity
<1> HIDE DEF Unary, Binary, Selects
<1> QED BY <1>1, <1>2, <1>3

\* The operands a node has.
LEMMA Places ==
    ASSUME NEW o \in Operators, NEW P, 1 .. Arity(o) \subseteq P
    PROVE  /\ o \in Unary \cup Binary \cup Selects \cup {"{n{}}", "?:"} => 1 \in P
           /\ o \in Binary \cup Selects \cup {"?:"} => 2 \in P
           /\ o = "?:" => 3 \in P
<1>0. 1 \in 1 .. 1 /\ 1 \in 1 .. 2 /\ 2 \in 1 .. 2 /\ 1 \in 1 .. 3 /\ 2 \in 1 .. 3 /\ 3 \in 1 .. 3
  OBVIOUS
<1>1. o \in Unary \cup {"{n{}}"} => 1 \in P
  BY <1>0, Arities, Zenon
<1>2. o \in Binary \cup Selects => 1 \in P /\ 2 \in P
  BY <1>0, Arities, Zenon
<1>3. o = "?:" => 1 \in P /\ 2 \in P /\ 3 \in P
  BY <1>0, Arities, Zenon
<1> QED BY <1>1, <1>2, <1>3

\* The width and the sign a node has of itself.
LEMMA SelfWidth ==
    ASSUME NEW node, node.op \in Operators, node.k \in Nat, NEW A,
           node.op = "leaf" => node.v \in Values,
           \A j \in 1 .. Arity(node.op) : A[j] \in Context
    PROVE  LET own == self_width_of(node, A)
               o == node.op
           IN  /\ own \in Context
               /\ o \in Sizing => own = Ctx(Mx(A[1].width, A[2].width), A[1].signed /\ A[2].signed)
               /\ o \in Shifts \cup {"**", "neg", "~"} => own = A[1]
               /\ o = "?:" => own = Ctx(Mx(A[2].width, A[3].width), A[2].signed /\ A[3].signed)
               /\ o \in Signing => own = Ctx(A[1].width, o = "$signed")
               /\ o = "leaf" => own = Ctx(node.v.width, node.v.signed)
               /\ o = "{}" => own = Ctx(A[1].width + A[2].width, FALSE)
               /\ o = "{n{}}" => own = Ctx(node.k * A[1].width, FALSE)
               /\ o \in {"+:", "-:"} => own = Ctx(node.k, FALSE)
               /\ o \in {"$clog2", "$countones"} => own = Ctx(IntBits, TRUE)
               /\ o \in {"[i]", "!"} \cup Compares \cup Logical \cup Reductions \cup Predicates =>
                     own = Ctx(1, FALSE)
<1> DEFINE own == self_width_of(node, A)
           o == node.op
<1>0. LET all == Unary \cup Binary \cup Selects \cup {"{n{}}", "?:"}
      IN  /\ o \in all => A[1] \in Context
          /\ o \in Binary \cup Selects \cup {"?:"} => A[2] \in Context
          /\ o = "?:" => A[3] \in Context
  <2> DEFINE P == {j \in 1 .. Arity(o) : A[j] \in Context}
  <2>1. 1 .. Arity(o) \subseteq P
    OBVIOUS
  <2>2. \A j \in P : A[j] \in Context
    OBVIOUS
  <2> HIDE DEF P
  <2> QED BY <2>1, <2>2, Places
<1> USE DEF Sizing, Arith, Bitwise, Shifts, Signing, Compares, Relational, Equality, CaseEq, CaseZ,
            Logical, Reductions, Predicates
<1>1. /\ o \in Sizing => own = Ctx(Mx(A[1].width, A[2].width), A[1].signed /\ A[2].signed)
      /\ o \in Shifts \cup {"**", "neg", "~"} => own = A[1]
      /\ o = "?:" => own = Ctx(Mx(A[2].width, A[3].width), A[2].signed /\ A[3].signed)
  BY DEF self_width_of
<1>2. /\ o \in Signing => own = Ctx(A[1].width, o = "$signed")
      /\ o = "leaf" => own = Ctx(node.v.width, node.v.signed)
  BY DEF self_width_of
<1>3. /\ o = "{}" => own = Ctx(A[1].width + A[2].width, FALSE)
      /\ o = "{n{}}" => own = Ctx(node.k * A[1].width, FALSE)
      /\ o \in {"+:", "-:"} => own = Ctx(node.k, FALSE)
  BY DEF self_width_of
<1>4. /\ o \in {"$clog2", "$countones"} => own = Ctx(IntBits, TRUE)
      /\ o \in {"[i]", "!"} \cup Compares \cup Logical \cup Reductions \cup Predicates =>
                     own = Ctx(1, FALSE)
  BY DEF self_width_of
<1>5. own \in Context
  <2>1. \A w \in Nat, s \in BOOLEAN : Ctx(w, s) \in Context
    BY DEF Ctx, Context
  <2>2. \A a, b \in Context : Mx(a.width, b.width) \in Nat /\ (a.signed /\ b.signed) \in BOOLEAN
    BY Wider DEF Context
  <2>3. \A a \in Context : a.width \in Nat
    BY DEF Context
  <2>4. CASE o \in Sizing
    <3>1. A[1] \in Context /\ A[2] \in Context
      BY <1>0, <2>4 DEF Binary
    <3> QED BY <1>1, <2>1, <2>2, <2>4, <3>1
  <2>5. CASE o \in Shifts \cup {"**", "neg", "~"}
    <3>1. A[1] \in Context
      BY <1>0, <2>5 DEF Unary, Binary
    <3> QED BY <1>1, <2>5, <3>1
  <2>6. CASE o = "?:"
    <3>1. A[2] \in Context /\ A[3] \in Context
      BY <1>0, <2>6
    <3> QED BY <1>1, <2>1, <2>2, <2>6, <3>1
  <2>7. CASE o \in Signing
    <3>1. A[1] \in Context /\ (o = "$signed") \in BOOLEAN
      BY <1>0, <2>7 DEF Unary
    <3> QED BY <1>2, <2>1, <2>3, <2>7, <3>1
  <2>8. CASE o = "leaf"
    <3>1. node.v.width \in Nat /\ node.v.signed \in BOOLEAN
      BY <2>8, ValueParts
    <3> QED BY <1>2, <2>1, <2>8, <3>1
  <2>9. CASE o = "{}"
    <3>1. A[1].width \in Nat /\ A[2].width \in Nat
      BY <1>0, <2>3, <2>9 DEF Binary
    <3>2. A[1].width + A[2].width \in Nat /\ FALSE \in BOOLEAN
      BY <3>1
    <3>3. own = Ctx(A[1].width + A[2].width, FALSE)
      BY <1>3, <2>9
    <3> HIDE DEF own
    <3> QED BY <2>1, <3>2, <3>3
  <2>10. CASE o = "{n{}}"
    <3>1. A[1].width \in Nat
      BY <1>0, <2>3, <2>10
    <3>2. node.k * A[1].width \in Nat
      BY <3>1
    <3> QED BY <1>3, <2>1, <2>10, <3>2
  <2>11. CASE o \in {"+:", "-:"}
    BY <1>3, <2>1, <2>11
  <2>12. CASE o \in {"$clog2", "$countones"}
    <3>1. IntBits \in Nat
      BY EvaluateAssumption
    <3> QED BY <1>4, <2>1, <2>12, <3>1
  <2>13. CASE o \in {"[i]", "!"} \cup Compares \cup Logical \cup Reductions \cup Predicates
    <3>1. 1 \in Nat /\ FALSE \in BOOLEAN
      OBVIOUS
    <3> HIDE DEF own, o
    <3> QED BY <1>4, <2>1, <2>13, <3>1
  <2>14. o \in Sizing \cup Shifts \cup {"**", "neg", "~", "?:", "leaf", "{}", "{n{}}", "+:", "-:", "$clog2",
               "$countones", "[i]", "!"} \cup Signing \cup Compares \cup Logical \cup Reductions \cup Predicates
    BY DEF Operators, Unary, Binary, Selects
  <2> QED BY <2>4, <2>5, <2>6, <2>7, <2>8, <2>9, <2>10, <2>11, <2>12, <2>13, <2>14
<1> HIDE DEF own, o
<1> QED BY <1>1, <1>2, <1>3, <1>4, <1>5 DEF own, o

\* A bitwise operator answers at the wider width.
LEMMA BitwiseType ==
    ASSUME NEW a \in Values, NEW b \in Values, NEW o \in Bitwise
    PROVE  Region(bitwise(a, b, o), Mx(a.width, b.width), a.signed /\ b.signed)
BY BitwiseIsTable DEF Bitwise, Region

\* A node answers in every context with a canonical value that has the width and
\* the sign of its region, when its operands do: no operator leaves a bit beyond
\* the width, and none answers at a width or a sign of its own (eval_ctx).
THEOREM NodeAnswers ==
    ASSUME NEW node, node.op \in Operators, node.k \in Nat, NEW A, NEW X, NEW c \in Context,
           node.op = "leaf" => node.v \in Values, OperandsOf(node, A, X)
    PROVE  Region(eval_ctx(node, A, X, c), RegionWidth(node, A, c), RegionSigned(node, A, c))
<1> DEFINE o == node.op
           own == self_width_of(node, A)
           w == RegionWidth(node, A, c)
           s == RegionSigned(node, A, c)
           res == eval_ctx(node, A, X, c)
           In(i)  == X[i][Ctx(w, s)]
           Own(i) == X[i][A[i]]
           P == {j \in 1 .. Arity(o) : A[j] \in Context /\ Operand(X[j], A[j])}
<1>1. /\ o \in Unary \cup Binary \cup Selects \cup {"{n{}}", "?:"} => A[1] \in Context /\ Operand(X[1], A[1])
      /\ o \in Binary \cup Selects \cup {"?:"} => A[2] \in Context /\ Operand(X[2], A[2])
      /\ o = "?:" => A[3] \in Context /\ Operand(X[3], A[3])
  <2>1. 1 .. Arity(o) \subseteq P
    BY DEF OperandsOf
  <2>2. \A j \in P : A[j] \in Context /\ Operand(X[j], A[j])
    OBVIOUS
  <2> HIDE DEF P
  <2> QED BY <2>1, <2>2, Places
<1>2. \A j \in 1 .. Arity(o) : A[j] \in Context
  BY DEF OperandsOf
<1>3. own \in Context /\ c.width \in Nat /\ c.signed \in BOOLEAN
  BY <1>2, SelfWidth DEF Context
<1>4. /\ w \in Nat /\ s \in BOOLEAN /\ own.width <= w /\ c.width <= w
      /\ s => own.signed
  BY <1>3, Wider DEF RegionWidth, RegionSigned, Context
<1>5. \A a \in Context : a.width \in Nat /\ a.signed \in BOOLEAN
  BY DEF Context
<1>6. \A n, b : Ctx(n, b).width = n /\ Ctx(n, b).signed = b
  BY DEF Ctx
<1>7. \A v \in Values, b \in BOOLEAN : Region(resize_keep_sign(v, w, b), w, b)
  <2> TAKE v \in Values, b \in BOOLEAN
  <2>1. w \in Nat
    BY <1>4
  <2> HIDE DEF w
  <2> QED BY <2>1, ContextExtends DEF Region
<1>8. own.signed = FALSE => s = FALSE
  BY <1>3 DEF RegionSigned
\* the operands the region sizes
<1>9. o \in Sizing => Region(In(1), w, s) /\ Region(In(2), w, s)
  <2> SUFFICES ASSUME o \in Sizing PROVE Region(In(1), w, s) /\ Region(In(2), w, s)
    OBVIOUS
  <2>1. /\ A[1] \in Context /\ Operand(X[1], A[1])
        /\ A[2] \in Context /\ Operand(X[2], A[2])
    BY <1>1 DEF Sizing, Binary
  <2>2. own = Ctx(Mx(A[1].width, A[2].width), A[1].signed /\ A[2].signed)
    BY <1>2, SelfWidth
  <2>3. /\ A[1].width <= own.width /\ A[2].width <= own.width
        /\ own.signed => A[1].signed /\ A[2].signed
    <3>1. A[1].width \in Nat /\ A[2].width \in Nat
      BY <1>5, <2>1
    <3>2. own.width = Mx(A[1].width, A[2].width) /\ own.signed = (A[1].signed /\ A[2].signed)
      BY <1>6, <2>2
    <3> HIDE DEF own
    <3> QED BY <3>1, <3>2, Wider
  <2>4. /\ A[1].width <= w /\ A[2].width <= w
        /\ (s => A[1].signed) /\ (s => A[2].signed)
    BY <1>3, <1>4, <1>5, <2>1, <2>3
  <2> HIDE DEF w, s, own
  <2> QED BY <1>4, <2>1, <2>3, <2>4, OperandIn
<1>10. o \in Shifts \cup {"**", "neg", "~"} => Region(In(1), w, s)
  <2> SUFFICES ASSUME o \in Shifts \cup {"**", "neg", "~"} PROVE Region(In(1), w, s)
    OBVIOUS
  <2>1. A[1] \in Context /\ Operand(X[1], A[1])
    BY <1>1 DEF Shifts, Unary, Binary
  <2>2. own = A[1]
    BY <1>2, SelfWidth
  <2> HIDE DEF w, s, own
  <2> QED BY <1>4, <2>1, <2>2, OperandIn
\* and those that size themselves
<1>11. o \in Unary \cup Binary \cup Selects \cup {"{n{}}", "?:"} => Own(1) \in Values /\ Own(1).width = A[1].width
  BY <1>1, OperandOwn DEF Region
<1>12. o \in Binary \cup Selects \cup {"?:"} => Own(2) \in Values /\ Own(2).width = A[2].width
  BY <1>1, OperandOwn DEF Region
<1>13. Evals(node, A, X, w, s, res)
  BY EvalCases
<1>14. o \in {"{}", "{n{}}", "!"} \cup Selects \cup Reductions \cup Compares \cup Logical => s = FALSE
  <2>1. o \in {"{}", "{n{}}", "!"} \cup Selects \cup Reductions \cup Compares \cup Logical =>
           \E n : own = Ctx(n, FALSE)
    BY <1>2, SelfWidth, ZenonT(40) DEF Selects
  <2> HIDE DEF own, s
  <2> QED BY <1>6, <1>8, <2>1, ZenonT(40)
<1> SUFFICES Region(res, w, s)
  OBVIOUS
<1> HIDE DEF In, Own, P, w, s, own, res
<1>15. CASE o = "leaf"
  BY <1>4, <1>7, <1>13, <1>15 DEF Evals, In, Own
<1>16. CASE o = "neg"
  BY <1>10, <1>13, <1>16, NegateType DEF Region, Evals, In, Own
<1>17. CASE o = "~"
  <2>1. Region(In(1), w, s)
    BY <1>10, <1>17
  <2>2. bit_not(In(1), s) \in Values
    BY <1>4, <2>1, NotAndMergeAreTables DEF Region
  <2>3. Region(bit_not(In(1), s), w, s)
    BY <2>1, <2>2 DEF Region, bit_not, FromWords, Value
  <2> QED BY <1>13, <1>17, <2>3 DEF Evals, In, Own
<1>18. CASE o \in Arith
  <2>1. Region(In(1), w, s) /\ Region(In(2), w, s) /\ o # "**"
    BY <1>9, <1>18 DEF Sizing, Arith
  <2>2. Mx(w, w) = w /\ (s /\ s) = s
    BY <1>4 DEF Mx
  <2>3. Region(arith(o, In(1), In(2)), w, s)
    BY <1>18, <2>1, <2>2, ArithType, SMTT(30) DEF Region
  <2> QED BY <1>13, <1>18, <2>3 DEF Evals, In, Own
<1>19. CASE o \in Bitwise
  <2>1. Region(In(1), w, s) /\ Region(In(2), w, s)
    BY <1>9, <1>19 DEF Sizing
  <2>2. Mx(w, w) = w /\ (s /\ s) = s
    BY <1>4 DEF Mx
  <2>4. /\ In(1) \in Values /\ In(1).width = w /\ In(1).signed = s
        /\ In(2) \in Values /\ In(2).width = w /\ In(2).signed = s
    BY <2>1 DEF Region
  <2>5. Region(bitwise(In(1), In(2), o), Mx(In(1).width, In(2).width), In(1).signed /\ In(2).signed)
    <3> HIDE DEF o
    <3> QED BY <1>19, <2>4, BitwiseType
  <2>3. Region(bitwise(In(1), In(2), o), w, s)
    <3> HIDE DEF o
    <3> QED BY <2>2, <2>4, <2>5, Zenon
  <2> QED BY <1>13, <1>19, <2>3 DEF Evals, In, Own
<1>20. CASE o = "**"
  <2>1. Region(In(1), w, s) /\ Own(2) \in Values
    BY <1>10, <1>12, <1>20 DEF Binary
  <2>2. In(1) \in Values /\ In(1).signed = s
    BY <2>1 DEF Region
  <2>3. Region(power(In(1), Own(2), w), w, In(1).signed)
    BY <1>4, <2>1, <2>2, PowerType
  <2> QED BY <1>13, <1>20, <2>2, <2>3 DEF Evals, In, Own
<1>21. CASE o \in Shifts
  <2>1. Region(In(1), w, s) /\ Own(2) \in Values
    BY <1>10, <1>12, <1>21 DEF Binary
  <2>2. shift_left(In(1), Own(2)) \in Values /\ \A b : Region(shift_right(In(1), Own(2), b), w, s)
    BY <2>1, ShiftType DEF Region
  <2>3. \A b : shift_right(In(1), Own(2), b) \in Values
    BY <2>2 DEF Region
  <2> QED BY <1>4, <1>7, <1>13, <1>21, <2>2, <2>3 DEF Shifts, Evals, In, Own
<1>22. CASE o = "?:"
  <2>1. /\ A[2] \in Context /\ Operand(X[2], A[2])
        /\ A[3] \in Context /\ Operand(X[3], A[3])
    BY <1>1, <1>22
  <2>2. own = Ctx(Mx(A[2].width, A[3].width), A[2].signed /\ A[3].signed)
    BY <1>2, <1>22, SelfWidth DEF own
  <2>3. A[2].width \in Nat /\ A[3].width \in Nat
    BY <1>5, <2>1
  <2>4. own.width = Mx(A[2].width, A[3].width) /\ own.signed = (A[2].signed /\ A[3].signed)
    BY <1>6, <2>2
  <2>5. /\ A[2].width <= w /\ A[3].width <= w
        /\ (s => A[2].signed) /\ (s => A[3].signed)
    <3>1. A[2].width <= own.width /\ A[3].width <= own.width
      BY <2>3, <2>4, Wider
    <3>2. own.width \in Nat
      BY <1>3, <1>5
    <3>3. A[2].width <= w /\ A[3].width <= w
      BY <1>4, <2>3, <3>1, <3>2
    <3> QED BY <1>4, <2>4, <3>3
  <2>6. Region(X[2][Ctx(w, s)], w, s) /\ Region(X[3][Ctx(w, s)], w, s)
    BY <1>4, <2>1, <2>5, OperandIn
  <2>7. Region(merge_x(X[2][Ctx(w, s)], X[3][Ctx(w, s)], w, s), w, s)
    BY <1>4, <2>6, MergeType
  <2>8. Region(eval_ternary(A, X, w, s), w, s)
    BY <2>6, <2>7 DEF eval_ternary
  <2> QED BY <1>13, <1>22, <2>8 DEF Evals, In, Own
<1>23. CASE o = "{}"
  <2>1. eval_concat(Own(1), Own(2)) \in Values
    BY <1>11, <1>12, <1>23, ConcatMoves DEF Binary
  <2> QED BY <1>7, <1>13, <1>14, <1>23, <2>1 DEF Evals, In, Own
<1>24. CASE o = "{n{}}"
  <2>1. eval_replicate(node.k, Own(1)) \in Values
    BY <1>11, <1>24, ReplicateMoves DEF Region
  <2> QED BY <1>7, <1>13, <1>14, <1>24, <2>1 DEF Evals, In, Own
<1>25. CASE o \in Selects
  <2>1. eval_select(Own(1), Own(2), node.k, o) \in Values
    BY <1>11, <1>12, <1>25, SelectType
  <2> QED BY <1>7, <1>13, <1>14, <1>25, <2>1 DEF Evals, In, Own
<1>26. CASE o \in Reductions \cup {"!"}
  <2>1. unary_self_of(o, Own(1)) \in Values
    BY TruthType DEF unary_self_of, Region
  <2> QED BY <1>7, <1>13, <1>14, <1>26, <2>1 DEF Evals, In, Own
<1>27. CASE o \in Signing
  <2>1. [Own(1) EXCEPT !.signed = s] \in Values
    BY <1>4, <1>11, <1>27, Resigned DEF Unary
  <2> QED BY <1>4, <1>7, <1>13, <1>27, <2>1 DEF Evals, In, Own
<1>28. CASE o \in Predicates \cup {"$clog2", "$countones"}
  <2>1. eval_sysfunc(o, Own(1)) \in Values
    BY <1>28, SysfuncType
  <2> QED BY <1>4, <1>7, <1>13, <1>28, <2>1 DEF Evals, In, Own
<1>29. CASE o \in Compares
  <2>1. \A x, y : compare(o, x, y) \in Values
    BY <1>29, CompareType DEF Region
  <2> QED BY <1>7, <1>13, <1>14, <1>29, <2>1 DEF Evals, In, Own
<1>30. CASE o \in Logical
  <2>1. \A b : Tri(b) \in Values
    BY TruthType DEF Region
  <2> QED BY <1>7, <1>13, <1>14, <1>30, <2>1 DEF Evals, In, Own
<1>31. o \in {"leaf", "neg", "~", "**", "?:", "{}", "{n{}}", "!", "$clog2", "$countones"} \cup Arith
             \cup Bitwise \cup Shifts \cup Selects \cup Reductions \cup Signing \cup Predicates
             \cup Compares \cup Logical
  BY DEF Operators, Unary, Binary
<1> HIDE DEF o
<1> QED
  BY <1>15, <1>16, <1>17, <1>18, <1>19, <1>20, <1>21, <1>22, <1>23, <1>24, <1>25, <1>26, <1>27, <1>28, <1>29,
     <1>30, <1>31

\* Every node of every expression has a width and a sign, and answers in every
\* context with a canonical value that has the width and the sign of its region
\* (the contract of eval_ctx).
THEOREM EveryNodeAnswers ==
    ASSUME NEW e, Arena(e), NEW n \in DOMAIN e
    PROVE  WidthTable(e)[n] \in Context /\ Operand(Evaluated(e)[n], WidthTable(e)[n])
<1> DEFINE W == WidthTable(e)
           E == Evaluated(e)
           Done(i) == W[i] \in Context /\ Operand(E[i], W[i])
           P == {m \in Nat : \A i \in DOMAIN e : i <= m => Done(i)}
<1>1. Len(e) \in Nat /\ DOMAIN e = 1 .. Len(e)
  BY DEF Arena
<1>2. 0 \in P
  BY <1>1
<1>3. ASSUME NEW m \in Nat, m \in P
      PROVE  m + 1 \in P
  <2>1. ASSUME NEW i \in DOMAIN e, i = m + 1
        PROVE  Done(i)
    <3> DEFINE node == e[i]
               A == child(W, node)
               X == child(E, node)
    <3>1. /\ node.op \in Operators /\ node.k \in Nat
          /\ DOMAIN node.args = 1 .. Arity(node.op)
          /\ \A j \in DOMAIN node.args : node.args[j] \in 1 .. i - 1
          /\ node.op = "leaf" => node.v \in Values
      BY DEF Arena
    <3>2. \A j \in 1 .. Arity(node.op) : Done(node.args[j])
      <4> SUFFICES ASSUME NEW j \in 1 .. Arity(node.op) PROVE Done(node.args[j])
        OBVIOUS
      <4>1. node.args[j] \in 1 .. i - 1
        BY <3>1
      <4>2. node.args[j] \in DOMAIN e /\ node.args[j] <= m
        BY <1>1, <2>1, <4>1
      <4> HIDE DEF Done
      <4> QED BY <1>3, <4>2
    <3>3. \A j \in 1 .. Arity(node.op) : A[j] = W[node.args[j]] /\ X[j] = E[node.args[j]]
      BY <3>1 DEF child
    <3>4. OperandsOf(node, A, X)
      BY <3>2, <3>3 DEF OperandsOf
    <3>5. W[i] = self_width_of(node, A) /\ E[i] = Answers(node, A, X)
      BY TableEquation, EvaluatedEquation
    <3>6. W[i] \in Context
      <4>1. \A j \in 1 .. Arity(node.op) : A[j] \in Context
        BY <3>4 DEF OperandsOf
      <4> HIDE DEF A, X, node
      <4> QED BY <3>1, <3>5, <4>1, SelfWidth
    <3>7. ASSUME NEW c \in Context
          PROVE  Region(E[i][c], Mx(W[i].width, c.width), W[i].signed /\ c.signed)
      <4>1. E[i][c] = eval_ctx(node, A, X, c)
        BY <3>5 DEF Answers
      <4>2. Region(eval_ctx(node, A, X, c), RegionWidth(node, A, c), RegionSigned(node, A, c))
        <5> HIDE DEF A, X, node
        <5> QED BY <3>1, <3>4, NodeAnswers
      <4>3. RegionWidth(node, A, c) = Mx(W[i].width, c.width)
            /\ RegionSigned(node, A, c) = (W[i].signed /\ c.signed)
        BY <3>5 DEF RegionWidth, RegionSigned
      <4> HIDE DEF A, X, node, E, W
      <4> QED BY <4>1, <4>2, <4>3
    <3> HIDE DEF E, W
    <3> QED BY <3>6, <3>7 DEF Operand
  <2>2. \A i \in DOMAIN e : i <= m + 1 => i <= m \/ i = m + 1
    BY <1>1
  <2> HIDE DEF Done
  <2> QED BY <1>3, <2>1, <2>2
<1>4. Len(e) \in P
  <2> HIDE DEF P
  <2> QED BY <1>1, <1>2, <1>3, SetInduction
<1>5. Done(n)
  <2> HIDE DEF Done
  <2> QED BY <1>1, <1>4
<1> QED BY <1>5

\* So does the expression.
LEMMA ExpressionAnswers ==
    ASSUME NEW e, Arena(e), NEW c \in Context
    PROVE  LET sw == WidthTable(e)[Len(e)]
           IN  sw \in Context /\ Region(eval(e, c), Mx(sw.width, c.width), sw.signed /\ c.signed)
<1>1. Len(e) \in DOMAIN e
  BY DEF Arena
<1> QED BY <1>1, EveryNodeAnswers DEF eval, Operand

\* One more driver.
LEMMA OneMore ==
    ASSUME NEW kind \in Wired, NEW Drives \in SUBSET Four, NEW p \in Four
    PROVE  NetBit(kind, Drives \cup {p}) = PairBit(kind, NetBit(kind, Drives), p)
<1> DEFINE B == Drives \ {"z"}
           n == NetBit(kind, Drives)
           m == NetBit(kind, Drives \cup {p})
<1>1. \A b : NetBit(kind, {b}) = b
  <2> TAKE b
  <2>1. CASE b = "z"
    BY <2>1 DEF NetBit
  <2>2. CASE b # "z"
    <3>1. {b} \ {"z"} = {b} /\ Cardinality({b}) = 1 /\ (CHOOSE c \in {b} : TRUE) = b
      BY <2>2, FS_Singleton
    <3> QED BY <3>1 DEF NetBit
  <2> QED BY <2>1, <2>2
<1>2. \A X, Y : X \ {"z"} = Y \ {"z"} => NetBit(kind, X) = NetBit(kind, Y)
  <2> DEFINE Of(E) == IF E = {} THEN "z"
                      ELSE IF Cardinality(E) = 1 THEN CHOOSE b \in E : TRUE
                      ELSE IF kind = "wand" /\ "0" \in E THEN "0"
                      ELSE IF kind = "wor" /\ "1" \in E THEN "1" ELSE "x"
  <2>1. \A X : NetBit(kind, X) = Of(X \ {"z"})
    BY DEF NetBit
  <2> HIDE DEF Of
  <2> QED BY <2>1, Zenon
<1>3. NetBit(kind, {}) = "z"
  BY DEF NetBit
<1>9. \A X \in SUBSET Four : IsFiniteSet(X \ {"z"})
  <2>1. IsFiniteSet({"0"} \cup {"1"} \cup {"x"} \cup {"z"})
    BY FS_Singleton, FS_Union
  <2>2. Four = {"0"} \cup {"1"} \cup {"x"} \cup {"z"}
    BY DEF Four
  <2> QED BY <2>1, <2>2, FS_Subset
<1>4. \A X \in SUBSET Four : X \ {"z"} # {} /\ (\A b : X \ {"z"} # {b}) =>
         NetBit(kind, X) = IF kind = "wand" /\ "0" \in X THEN "0"
                           ELSE IF kind = "wor" /\ "1" \in X THEN "1" ELSE "x"
  <2> TAKE X \in SUBSET Four
  <2> HAVE X \ {"z"} # {} /\ \A b : X \ {"z"} # {b}
  <2>1. Cardinality(X \ {"z"}) # 1
    <3> DEFINE E == X \ {"z"}
    <3>1. (\A b : E # {b}) /\ IsFiniteSet(E)
      BY <1>9
    <3>2. Cardinality(E) # 1
      <4> HIDE DEF E
      <4> QED BY <3>1, FS_Singleton
    <3> QED BY <3>2
  <2>2. ("0" \in X \ {"z"} <=> "0" \in X) /\ ("1" \in X \ {"z"} <=> "1" \in X)
    OBVIOUS
  <2> QED BY <2>1, <2>2 DEF NetBit
<1> SUFFICES m = PairBit(kind, n, p)
  OBVIOUS
<1> USE DEF Wired, PairBit, WireBit, WandBit, WorBit, AndBit, OrBit, Four
<1>5. CASE p = "z"
  <2>1. m = n
    BY <1>2, <1>5
  <2> QED BY <1>5, <2>1
<1>6. CASE p # "z" /\ B = {}
  <2>1. m = p /\ n = "z"
    BY <1>1, <1>2, <1>3, <1>6
  <2> QED BY <1>6, <2>1
<1>7. ASSUME p # "z", NEW b, B = {b} PROVE m = PairBit(kind, n, p)
  <2>1. n = b /\ b \in {"0", "1", "x"}
    BY <1>1, <1>2, <1>7
  <2>2. CASE b = p
    <3>1. m = p
      BY <1>1, <1>2, <1>7, <2>2
    <3> QED BY <1>7, <2>1, <2>2, <3>1
  <2>3. CASE b # p
    <3>1. b \in Drives /\ \A c \in Drives : c \in {b, "z"}
      BY <1>7
    <3>2. m = IF kind = "wand" /\ "0" \in Drives \cup {p} THEN "0"
              ELSE IF kind = "wor" /\ "1" \in Drives \cup {p} THEN "1" ELSE "x"
      <4>1. (Drives \cup {p}) \ {"z"} = {b, p}
        BY <1>7
      <4>2. {b, p} # {} /\ \A c : {b, p} # {c}
        BY <2>3
      <4> QED BY <1>4, <4>1, <4>2
    <3> HIDE DEF m, n, B
    <3> QED BY <1>7, <2>1, <2>3, <3>1, <3>2
  <2> QED BY <2>2, <2>3
<1>8. CASE p # "z" /\ B # {} /\ \A b : B # {b}
  <2>1. n = IF kind = "wand" /\ "0" \in Drives THEN "0"
            ELSE IF kind = "wor" /\ "1" \in Drives THEN "1" ELSE "x"
    BY <1>4, <1>8
  <2>2. m = IF kind = "wand" /\ "0" \in Drives \cup {p} THEN "0"
            ELSE IF kind = "wor" /\ "1" \in Drives \cup {p} THEN "1" ELSE "x"
    <3>1. PICK b, c : b \in B /\ c \in B /\ b # c
      BY <1>8
    <3>2. (Drives \cup {p}) \ {"z"} # {} /\ \A d : (Drives \cup {p}) \ {"z"} # {d}
      BY <3>1
    <3> QED BY <1>4, <3>2
  <2>3. \E b, c \in Drives \ {"z"} : b # c
    <3> HIDE DEF Wired, PairBit, WireBit, WandBit, WorBit, AndBit, OrBit, Four, m, n
    <3>1. PICK b : b \in B
      BY <1>8
    <3>2. PICK c : c \in B /\ c # b
      BY <1>8, <3>1
    <3> QED BY <3>1, <3>2
  <2> HIDE DEF m, n
  <2> QED BY <1>8, <2>1, <2>2, <2>3
<1> HIDE DEF Wired, PairBit, WireBit, WandBit, WorBit, AndBit, OrBit, Four, m, n, B
<1> QED BY <1>5, <1>6, <1>7, <1>8

\* A net takes from any number of drivers what 6.6 says of the set of their bits,
\* in whatever order they are folded (resolve_md_group).
THEOREM NetTakes ==
    ASSUME NEW kind \in Wired, NEW w \in Nat, NEW drivers, IsFiniteSet(DOMAIN drivers),
           \A k \in DOMAIN drivers : drivers[k] \in Values
    PROVE  LET net == resolve_md_group(kind, w, drivers)
           IN  /\ Region(net, w, FALSE)
               /\ \A i \in Nat : i < w =>
                     BitOf(net, i) = NetBit(kind, DriverBits(drivers, i))
<1> DEFINE S == DOMAIN drivers
           off == FALSE
           zq == [k \in Index(w) |-> [val |-> Bit, unk |-> Bit]]
           sq(d, acc) == [k \in Index(w) |-> resolve_into(kind, Quads(acc, k), Quads(d, k))]
           z == FromWords(zq, w, off)
           Step(d, acc) == FromWords(sq(d, acc), w, off)
           Lib(f) == [s \in SUBSET S |-> IF s = {} THEN z
                        ELSE Step(drivers[CHOOSE x \in s : TRUE], f[s \ {CHOOSE x \in s : TRUE}])]
           H == [p \in S \X Values |-> Step(drivers[p[1]], p[2])]
           F == CHOOSE f : f = Lib(f)
           Takes(v, s) == /\ Region(v, w, off)
                        /\ \A i \in Nat : i < w => BitOf(v, i) = NetBit(kind, {BitOf(drivers[k], i) : k \in s})
<1>0. off = FALSE /\ off \in BOOLEAN
  OBVIOUS
<1>1. resolve_md_group(kind, w, drivers) = F[S]
  BY DEF resolve_md_group, FoldFunction, FoldFunctionOnSet, MapThenFoldSet
<1>2. \A i \in Nat : i < w => i \div WordBits \in Index(w) /\ i % WordBits \in Bit
  BY BelowIsIn, PlaceOf
<1>3. Takes(z, {})
  <2>1. zq \in [Index(w) -> Quad] /\ \A k \in Index(w), i \in Bit : State(zq[k], i) = "z"
    BY DEF Quad, Word, State
  <2>2. \A i : NetBit(kind, {BitOf(drivers[k], i) : k \in {}}) = "z"
    BY DEF NetBit
  <2> HIDE DEF zq, off
  <2> QED BY <1>0, <1>2, <2>1, <2>2, FromWordsBits DEF Region
<1>4. ASSUME NEW d \in Values, NEW acc \in Values
      PROVE  /\ Region(Step(d, acc), w, off)
             /\ \A i \in Nat : i < w => BitOf(Step(d, acc), i) = PairBit(kind, BitOf(acc, i), BitOf(d, i))
  <2>1. \A k \in Index(w) : Quads(acc, k) \in Quad /\ Quads(d, k) \in Quad
    BY QuadsType
  <2>2. sq(d, acc) \in [Index(w) -> Quad]
    BY <2>1, ResolutionType DEF resolve_into, Wired
  <2>3. \A k \in Index(w), i \in Bit :
           State(sq(d, acc)[k], i) = PairBit(kind, State(Quads(acc, k), i), State(Quads(d, k), i))
    <3> TAKE k \in Index(w), i \in Bit
    <3>1. sq(d, acc)[k] = resolve_into(kind, Quads(acc, k), Quads(d, k))
      OBVIOUS
    <3> HIDE DEF sq
    <3> QED BY <2>1, <3>1, ResolutionIsTable DEF resolve_into, PairBit, Wired
  <2> DEFINE quads == sq(d, acc)
  <2> HIDE DEF quads, off
  <2>4. /\ Region(FromWords(quads, w, off), w, off)
        /\ \A i \in Nat : i < w =>
              BitOf(FromWords(quads, w, off), i) = State(quads[i \div WordBits], i % WordBits)
    BY <1>0, <2>2, FromWordsBits DEF Region, quads
  <2>5. \A i \in Nat : i < w =>
           State(quads[i \div WordBits], i % WordBits) = PairBit(kind, BitOf(acc, i), BitOf(d, i))
    BY <1>2, <2>3 DEF quads, BitOf
  <2> QED BY <2>4, <2>5 DEF quads
<1>5. F = Lib(F)
  <2>1. z \in Values
    BY <1>3 DEF Region
  <2>2. H \in [S \X Values -> Values]
    BY <1>4 DEF Region
  <2>3. PICK f : FoldsOver(f, S, Values, z, H)
    <3> HIDE DEF z, H
    <3> QED BY <2>1, <2>2, FoldExists
  <2>4. /\ f \in [SUBSET S -> Values]
        /\ \A s \in SUBSET S : f[s] = IF s = {} THEN z ELSE H[<<Picked(s), f[Others(s)]>>]
    BY <2>3 DEF FoldsOver
  <2>5. \A s \in SUBSET S : s # {} => Picked(s) \in S /\ Others(s) \in SUBSET S
    BY DEF Picked, Others
  <2>6. \A s \in SUBSET S : s # {} => H[<<Picked(s), f[Others(s)]>>] = Step(drivers[Picked(s)], f[Others(s)])
    <3>1. \A x \in S, y \in Values : H[<<x, y>>] = Step(drivers[x], y)
      OBVIOUS
    <3> HIDE DEF H, Step
    <3> QED BY <2>4, <2>5, <3>1
  <2>7. f = Lib(f)
    <3> HIDE DEF H, Step, z
    <3> QED BY <2>4, <2>6 DEF Picked, Others
  <2> HIDE DEF Lib
  <2> QED BY <2>7
<1>6. \A s \in SUBSET S : F[s] = IF s = {} THEN z ELSE Step(drivers[Picked(s)], F[Others(s)])
  <2> DEFINE g == Lib(F)
  <2>1. \A s \in SUBSET S : g[s] = IF s = {} THEN z ELSE Step(drivers[Picked(s)], F[Others(s)])
    <3> HIDE DEF F, z, Step
    <3> QED BY DEF Picked, Others
  <2> HIDE DEF g, F
  <2>2. F = g
    BY <1>5 DEF g
  <2> QED BY <2>1, <2>2
<1> HIDE DEF F, Lib, H
<1> DEFINE P == {s \in SUBSET S : Takes(F[s], s)}
<1>7. {} \in P
  <2>1. F[{}] = z
    BY <1>6
  <2> HIDE DEF Takes, z
  <2> QED BY <1>3, <2>1
<1>8. ASSUME NEW s \in SUBSET S, s # {}, Others(s) \in P
      PROVE  s \in P
  <2> DEFINE x == Picked(s)
             t == Others(s)
  <2>1. x \in S /\ t \in SUBSET S /\ s = t \cup {x}
    BY <1>8 DEF Picked, Others
  <2>2. F[s] = Step(drivers[x], F[t])
    BY <1>6, <1>8
  <2>3. Takes(F[t], t)
    BY <1>8
  <2>6. drivers[x] \in Values /\ F[t] \in Values
    BY <2>1, <2>3 DEF Region
  <2> HIDE DEF x, t, Step
  <2>4. Region(F[s], w, off)
    BY <1>4, <2>2, <2>6, ZenonT(40)
  <2>5. ASSUME NEW i \in Nat, i < w
        PROVE  BitOf(F[s], i) = NetBit(kind, {BitOf(drivers[k], i) : k \in s})
    <3>1. BitOf(F[s], i) = PairBit(kind, BitOf(F[t], i), BitOf(drivers[x], i))
      BY <1>4, <2>2, <2>5, <2>6, ZenonT(40)
    <3>2. BitOf(F[t], i) = NetBit(kind, {BitOf(drivers[k], i) : k \in t})
      BY <2>3, <2>5
    <3>3. {BitOf(drivers[k], i) : k \in s} = {BitOf(drivers[k], i) : k \in t} \cup {BitOf(drivers[x], i)}
      BY <2>1
    <3>4. {BitOf(drivers[k], i) : k \in t} \in SUBSET Four /\ BitOf(drivers[x], i) \in Four
      BY StateType DEF BitOf
    <3> DEFINE Drives == {BitOf(drivers[k], i) : k \in t}
    <3>5. BitOf(F[s], i) = NetBit(kind, Drives \cup {BitOf(drivers[x], i)})
      <4> HIDE DEF F, Drives
      <4> QED BY <3>1, <3>2, <3>4, OneMore DEF Drives
    <3> QED BY <3>3, <3>5
  <2> HIDE DEF F
  <2> QED BY <2>4, <2>5
<1>9. Takes(F[S], S)
  <2>1. SUBSET S \subseteq P
    <3> HIDE DEF P, S
    <3> QED BY <1>7, <1>8, PickInduction DEF S
  <2> HIDE DEF Takes
  <2> QED BY <2>1
<1> QED BY <1>1, <1>9 DEF DriverBits

-----------------------------------------------------------------------------
(* The expressions the actions evaluate.                                   *)
\* A node that may stand at place i of an arena.
FitsAt(node, i) ==
    /\ node.op \in Operators /\ node.k \in Nat
    /\ DOMAIN node.args = 1 .. Arity(node.op)
    /\ \A j \in DOMAIN node.args : node.args[j] \in 1 .. i - 1
    /\ node.op = "leaf" => node.v \in Values

\* A sequence of nodes that fit is an arena.
LEMMA ArenaFits ==
    ASSUME NEW e, NEW n \in Nat \ {0}, Len(e) = n, DOMAIN e = 1 .. n, \A i \in 1 .. n : FitsAt(e[i], i)
    PROVE  Arena(e)
BY DEF Arena, FitsAt

\* Arenas of two nodes.
LEMMA TwoFit ==
    ASSUME NEW a, NEW b, FitsAt(a, 1), FitsAt(b, 2)
    PROVE  Arena(<<a, b>>)
<1> DEFINE e == <<a, b>>
<1>1. Len(e) = 2 /\ DOMAIN e = 1 .. 2 /\ e[1] = a /\ e[2] = b
  OBVIOUS
<1> HIDE DEF e
<1>2. \A i \in 1 .. 2 : i = 1 \/ i = 2
  OBVIOUS
<1>3. \A i \in 1 .. 2 : FitsAt(e[i], i)
  BY <1>1, <1>2
<1>4. Arena(e)
  <2> DEFINE n == 2
  <2>1. n \in Nat \ {0} /\ Len(e) = n /\ DOMAIN e = 1 .. n /\ \A i \in 1 .. n : FitsAt(e[i], i)
    BY <1>1, <1>3
  <2> HIDE DEF n
  <2> QED BY <2>1, ArenaFits
<1> QED BY <1>4 DEF e

\* Arenas of three nodes.
LEMMA ThreeFit ==
    ASSUME NEW a, NEW b, NEW c, FitsAt(a, 1), FitsAt(b, 2), FitsAt(c, 3)
    PROVE  Arena(<<a, b, c>>)
<1> DEFINE e == <<a, b, c>>
<1>1. Len(e) = 3 /\ DOMAIN e = 1 .. 3 /\ e[1] = a /\ e[2] = b /\ e[3] = c
  OBVIOUS
<1> HIDE DEF e
<1>2. \A i \in 1 .. 3 : i = 1 \/ i = 2 \/ i = 3
  OBVIOUS
<1>3. \A i \in 1 .. 3 : FitsAt(e[i], i)
  BY <1>1, <1>2
<1>4. Arena(e)
  <2> DEFINE n == 3
  <2>1. n \in Nat \ {0} /\ Len(e) = n /\ DOMAIN e = 1 .. n /\ \A i \in 1 .. n : FitsAt(e[i], i)
    BY <1>1, <1>3
  <2> HIDE DEF n
  <2> QED BY <2>1, ArenaFits
<1> QED BY <1>4 DEF e

\* Arenas of four nodes.
LEMMA FourFit ==
    ASSUME NEW a, NEW b, NEW c, NEW x, FitsAt(a, 1), FitsAt(b, 2), FitsAt(c, 3), FitsAt(x, 4)
    PROVE  Arena(<<a, b, c, x>>) /\ Arena(<<a, b, c>> \o <<x>>)
<1>1. ASSUME NEW e, Len(e) = 4 /\ DOMAIN e = 1 .. 4 /\ e[1] = a /\ e[2] = b /\ e[3] = c /\ e[4] = x
      PROVE  Arena(e)
  <2>1. \A i \in 1 .. 4 : i = 1 \/ i = 2 \/ i = 3 \/ i = 4
    OBVIOUS
  <2>2. \A i \in 1 .. 4 : FitsAt(e[i], i)
    BY <1>1, <2>1
  <2> DEFINE n == 4
  <2>3. n \in Nat \ {0} /\ Len(e) = n /\ DOMAIN e = 1 .. n /\ \A i \in 1 .. n : FitsAt(e[i], i)
    BY <1>1, <2>2
  <2> HIDE DEF n
  <2> QED BY <2>3, ArenaFits
<1>2. LET e == <<a, b, c>> \o <<x>>
      IN  Len(e) = 4 /\ DOMAIN e = 1 .. 4 /\ e[1] = a /\ e[2] = b /\ e[3] = c /\ e[4] = x
  <2>1. <<a, b, c>> \in Seq({a, b, c, x}) /\ <<x>> \in Seq({a, b, c, x})
    OBVIOUS
  <2> QED BY <2>1
<1>3. LET e == <<a, b, c, x>>
      IN  Len(e) = 4 /\ DOMAIN e = 1 .. 4 /\ e[1] = a /\ e[2] = b /\ e[3] = c /\ e[4] = x
  OBVIOUS
<1> QED BY <1>1, <1>2, <1>3

\* Arenas of five nodes.
LEMMA FiveFit ==
    ASSUME NEW a, NEW b, NEW c, NEW x, NEW y, FitsAt(a, 1), FitsAt(b, 2), FitsAt(c, 3), FitsAt(x, 4), FitsAt(y, 5)
    PROVE  Arena(<<a, b, c>> \o <<x, y>>)
<1> DEFINE e == <<a, b, c>> \o <<x, y>>
<1>1. Len(e) = 5 /\ DOMAIN e = 1 .. 5 /\ e[1] = a /\ e[2] = b /\ e[3] = c /\ e[4] = x /\ e[5] = y
  <2>1. <<a, b, c>> \in Seq({a, b, c, x, y}) /\ <<x, y>> \in Seq({a, b, c, x, y})
    OBVIOUS
  <2> QED BY <2>1
<1> HIDE DEF e
<1>2. \A i \in 1 .. 5 : i = 1 \/ i = 2 \/ i = 3 \/ i = 4 \/ i = 5
  OBVIOUS
<1>3. \A i \in 1 .. 5 : FitsAt(e[i], i)
  BY <1>1, <1>2
<1>4. Arena(e)
  <2> DEFINE n == 5
  <2>1. n \in Nat \ {0} /\ Len(e) = n /\ DOMAIN e = 1 .. n /\ \A i \in 1 .. n : FitsAt(e[i], i)
    BY <1>1, <1>3
  <2> HIDE DEF n
  <2> QED BY <2>1, ArenaFits
<1> QED BY <1>4 DEF e

\* The operators of each kind are none of the others.
LEMMA Kinds ==
    ASSUME NEW o
    PROVE  /\ o \in Unary => o \notin Binary \cup Selects \cup {"?:", "{n{}}", "leaf"}
           /\ o \in Binary => o \notin Unary \cup Selects \cup {"?:", "{n{}}", "leaf"}
           /\ o \in Selects => o \notin Unary \cup Binary \cup {"?:", "{n{}}", "leaf"}
           /\ "?:" \notin Unary \cup Binary \cup Selects
           /\ "{n{}}" \notin Unary \cup Binary \cup Selects
<1> DEFINE U == {"neg", "~", "!", "$clog2", "$countones", "r&", "r~&", "r|", "r~|", "r^", "r~^",
                 "$signed", "$unsigned", "$onehot", "$onehot0", "$isunknown"}
           B == {"+", "-", "*", "/", "%", "**", "{}", "&", "|", "^", "^~", "<", "<=", ">", ">=", "==", "!=",
                 "===", "!==", "casez", "casex", "&&", "||", "<<", ">>", ">>>"}
           S == {"[i]", "+:", "-:"}
<1>1. Unary = U /\ Binary = B /\ Selects = S
  BY DEF Unary, Binary, Selects, Arith, Bitwise, Shifts, Signing, Compares, Relational, Equality,
       CaseEq, CaseZ, Logical, Reductions, Predicates
<1>2. \A x \in U : x \notin B \cup S \cup {"?:", "{n{}}", "leaf"}
  OBVIOUS
<1>3. \A x \in B : x \notin U \cup S \cup {"?:", "{n{}}", "leaf"}
  OBVIOUS
<1>4. \A x \in S : x \notin U \cup B \cup {"?:", "{n{}}", "leaf"}
  OBVIOUS
<1> HIDE DEF U, B, S
<1> QED BY <1>1, <1>2, <1>3, <1>4

\* A leaf fits everywhere.
LEMMA LeafFits ==
    ASSUME NEW v \in Values, NEW i \in Nat
    PROVE  FitsAt(Leaf(v), i)
<1>1. "leaf" \in Operators
  BY DEF Operators
<1>3. Arity("leaf") = 0
  BY <1>1, Arities
<1>2. DOMAIN <<>> = 1 .. 0
  OBVIOUS
<1> QED BY <1>1, <1>2, <1>3 DEF FitsAt, Leaf

\* A node fits where its operands come before it.
LEMMA NodeFits ==
    ASSUME NEW k \in Nat, NEW i \in Nat, NEW o \in Operators, o # "leaf", NEW s,
           DOMAIN s = 1 .. Arity(o), \A j \in DOMAIN s : s[j] \in 1 .. i - 1
    PROVE  FitsAt(Node(o, k, s), i)
BY DEF FitsAt, Node

\* An operator with one operand fits.
LEMMA UnaryFits ==
    ASSUME NEW k \in Nat, NEW i \in Nat, NEW a \in 1 .. i - 1, NEW o \in Unary \cup {"{n{}}"}
    PROVE  FitsAt(Node(o, k, <<a>>), i)
<1>1. o \in Operators /\ o # "leaf" /\ Arity(o) = 1
  BY Kinds, Arities DEF Operators
<1> DEFINE s == <<a>>
<1>2. DOMAIN s = 1 .. 1 /\ \A j \in DOMAIN s : s[j] = a
  BY OneTuple
<1> HIDE DEF s
<1>3. FitsAt(Node(o, k, s), i)
  BY <1>1, <1>2, NodeFits
<1> QED BY <1>3 DEF s

\* An operator with two operands fits.
LEMMA BinaryFits ==
    ASSUME NEW k \in Nat, NEW i \in Nat, NEW a \in 1 .. i - 1, NEW b \in 1 .. i - 1, NEW o \in Binary \cup Selects
    PROVE  FitsAt(Node(o, k, <<a, b>>), i)
<1>1. o \in Operators /\ o # "leaf" /\ Arity(o) = 2
  BY Kinds, Arities DEF Operators
<1>2. DOMAIN <<a, b>> = 1 .. 2
  OBVIOUS
<1>3. \A j \in DOMAIN <<a, b>> : <<a, b>>[j] \in {a, b}
  OBVIOUS
<1> QED BY <1>1, <1>2, <1>3, NodeFits

\* ?: fits.
LEMMA TernaryFits ==
    ASSUME NEW k \in Nat, NEW i \in Nat, NEW a \in 1 .. i - 1, NEW b \in 1 .. i - 1, NEW c \in 1 .. i - 1
    PROVE  FitsAt(Node("?:", k, <<a, b, c>>), i)
<1>0. "?:" \in Operators /\ "?:" # "leaf"
  BY DEF Operators
<1>1. Arity("?:") = 3
  BY <1>0, Arities
<1>2. DOMAIN <<a, b, c>> = 1 .. 3
  OBVIOUS
<1>3. \A j \in DOMAIN <<a, b, c>> : <<a, b, c>>[j] \in {a, b, c}
  OBVIOUS
<1> QED BY <1>0, <1>1, <1>2, <1>3, NodeFits

\* What an action evaluates, and that it is an expression.
LEMMA SourceIs ==
    ASSUME NEW o \in Operators, NEW a
    PROVE  /\ o \in Unary   => Source(o, a) = <<Leaf(l), Node(o, 0, <<1>>)>>
           /\ o \in Binary  => Source(o, a) = <<Leaf(l), Leaf(r), Node(o, 0, <<1, 2>>)>>
           /\ o = "?:"      => Source(o, a) = <<Leaf(a), Leaf(l), Leaf(r), Node(o, 0, <<1, 2, 3>>)>>
           /\ o = "{n{}}"   => Source(o, a) = <<Leaf(l), Node(o, a, <<1>>)>>
           /\ o \in Selects => Source(o, a) = <<Leaf(l), Leaf(r), Node(o, IF o = "[i]" THEN 1 ELSE a, <<1, 2>>)>>
BY Kinds DEF Source

\* The expression of one operator is an arena.
LEMMA SourceIsArena ==
    ASSUME l \in Values, r \in Values, NEW o \in Operators \ {"leaf"}, NEW a,
           o = "?:" => a \in Values, o # "?:" => a \in Nat
    PROVE  Arena(Source(o, a))
<1>0. \A i \in Nat : FitsAt(Leaf(l), i) /\ FitsAt(Leaf(r), i) /\ (o = "?:" => FitsAt(Leaf(a), i))
  BY LeafFits
<1>1. CASE o \in Unary
  <2>1. 1 \in 1 .. 2 - 1 /\ 0 \in Nat /\ 2 \in Nat
    OBVIOUS
  <2>2. FitsAt(Node(o, 0, <<1>>), 2)
    BY <1>1, <2>1, UnaryFits, Zenon
  <2>3. FitsAt(Leaf(l), 1)
    BY <1>0
  <2>4. Arena(<<Leaf(l), Node(o, 0, <<1>>)>>)
    BY <2>2, <2>3, TwoFit
  <2> QED BY <1>1, <2>4, SourceIs
<1>2. CASE o \in Binary
  <2>2. FitsAt(Node(o, 0, <<1, 2>>), 3)
    BY <1>2, BinaryFits
  <2>3. FitsAt(Leaf(l), 1) /\ FitsAt(Leaf(r), 2)
    BY <1>0
  <2>4. Arena(<<Leaf(l), Leaf(r), Node(o, 0, <<1, 2>>)>>)
    BY <2>2, <2>3, ThreeFit
  <2> QED BY <1>2, <2>4, SourceIs
<1>3. CASE o = "?:"
  <2>2. FitsAt(Node(o, 0, <<1, 2, 3>>), 4)
    BY <1>3, TernaryFits
  <2>1. FitsAt(Leaf(a), 1) /\ FitsAt(Leaf(l), 2) /\ FitsAt(Leaf(r), 3)
    BY <1>0, <1>3
  <2>3. Arena(<<Leaf(a), Leaf(l), Leaf(r), Node(o, 0, <<1, 2, 3>>)>>)
    BY <2>1, <2>2, FourFit
  <2> QED BY <1>3, <2>3, SourceIs
<1>4. CASE o = "{n{}}"
  <2>1. 1 \in 1 .. 2 - 1 /\ 2 \in Nat
    OBVIOUS
  <2>3. a \in Nat
    BY <1>4
  <2>2. FitsAt(Node(o, a, <<1>>), 2)
    BY <1>4, <2>1, <2>3, UnaryFits, Zenon
  <2>4. Arena(<<Leaf(l), Node(o, a, <<1>>)>>)
    <3>1. FitsAt(Leaf(l), 1)
      BY <1>0
    <3> QED BY <2>2, <3>1, TwoFit
  <2> QED BY <1>4, <2>4, SourceIs
<1>5. CASE o \in Selects
  <2> DEFINE k == IF o = "[i]" THEN 1 ELSE a
  <2>1. Source(o, a) = <<Leaf(l), Leaf(r), Node(o, k, <<1, 2>>)>>
    BY <1>5, SourceIs
  <2>2. k \in Nat
    BY <1>5 DEF Selects
  <2>3. FitsAt(Node(o, k, <<1, 2>>), 3)
    <3> HIDE DEF k
    <3> QED BY <1>5, <2>2, BinaryFits
  <2> HIDE DEF k
  <2>4. FitsAt(Leaf(l), 1) /\ FitsAt(Leaf(r), 2)
    BY <1>0
  <2> QED BY <2>1, <2>3, <2>4, ThreeFit
<1> QED BY <1>1, <1>2, <1>3, <1>4, <1>5 DEF Operators

\* A tree of two operators is an arena.
LEMMA TreeIsArena ==
    ASSUME l \in Values, r \in Values, NEW c \in Values, NEW e \in Trees(c)
    PROVE  Arena(e)
<1> DEFINE Pair(o) == <<Leaf(l), Leaf(r), Node(o, 0, <<1, 2>>)>>
           Over(p, k, o, args) == Pair(o) \o <<Leaf(c), Node(p, k, args)>>
<1>0. \A i \in Nat : FitsAt(Leaf(l), i) /\ FitsAt(Leaf(r), i) /\ FitsAt(Leaf(c), i)
  BY LeafFits
<1>1. \A o \in Binary : FitsAt(Node(o, 0, <<1, 2>>), 3)
  BY BinaryFits
<1>2. ASSUME NEW o \in Binary, NEW y, FitsAt(y, 5)
      PROVE  Arena(Pair(o) \o <<Leaf(c), y>>)
  <2>1. FitsAt(Leaf(l), 1) /\ FitsAt(Leaf(r), 2) /\ FitsAt(Leaf(c), 4) /\ FitsAt(Node(o, 0, <<1, 2>>), 3)
    BY <1>0, <1>1
  <2> QED BY <1>2, <2>1, FiveFit
<1>4. ASSUME NEW u \in Unary, NEW o \in Binary
      PROVE  Arena(Pair(o) \o <<Node(u, 0, <<3>>)>>)
  <2>1. FitsAt(Leaf(l), 1) /\ FitsAt(Leaf(r), 2) /\ FitsAt(Node(o, 0, <<1, 2>>), 3)
    BY <1>0, <1>1
  <2>3. 3 \in 1 .. 4 - 1 /\ 0 \in Nat /\ 4 \in Nat
    OBVIOUS
  <2>2. FitsAt(Node(u, 0, <<3>>), 4)
    BY <2>3, UnaryFits, Zenon
  <2> QED BY <2>1, <2>2, FourFit
<1>5. ASSUME NEW u \in Unary, NEW o \in Binary
      PROVE  Arena(<<Leaf(l), Node(u, 0, <<1>>), Leaf(r), Node(o, 0, <<2, 3>>)>>)
  <2>1. FitsAt(Leaf(l), 1) /\ FitsAt(Leaf(r), 3)
    BY <1>0
  <2>4. 1 \in 1 .. 2 - 1 /\ 0 \in Nat /\ 2 \in Nat
    OBVIOUS
  <2>2. FitsAt(Node(u, 0, <<1>>), 2)
    BY <2>4, UnaryFits, Zenon
  <2>3. FitsAt(Node(o, 0, <<2, 3>>), 4)
    BY BinaryFits
  <2> QED BY <2>1, <2>2, <2>3, FourFit
<1>6. ASSUME NEW o \in Binary, NEW k \in Nat, NEW p \in Binary \cup Selects, NEW i \in 1 .. 4, NEW j \in 1 .. 4
      PROVE  Arena(Over(p, k, o, <<i, j>>))
  <2>1. FitsAt(Node(p, k, <<i, j>>), 5)
    BY BinaryFits
  <2> HIDE DEF Pair
  <2> QED BY <1>2, <2>1
<1>7. ASSUME NEW o \in Binary
      PROVE  Arena(Over("?:", 0, o, <<4, 3, 2>>))
  <2>1. FitsAt(Node("?:", 0, <<4, 3, 2>>), 5)
    BY TernaryFits
  <2> HIDE DEF Pair
  <2> QED BY <1>2, <2>1
<1> HIDE DEF Over, Pair
<1> DEFINE T1 == {Pair(o) \o <<Node(u, 0, <<3>>)>> : u \in Unary, o \in Binary}
           T2 == {<<Leaf(l), Node(u, 0, <<1>>), Leaf(r), Node(o, 0, <<2, 3>>)>> : u \in Unary, o \in Binary}
           T3 == {Over(p, 0, o, <<3, 4>>) : p \in Binary, o \in Binary}
           T4 == {Over(p, 0, o, <<4, 3>>) : p \in Shifts \cup {"**", "-"}, o \in Binary}
           T5 == {Over("?:", 0, o, <<4, 3, 2>>) : o \in Binary}
           T6 == {Over(o, 2, p, <<3, 4>>) : o \in {"+:", "-:"}, p \in Binary}
<1>8. Trees(c) = T1 \cup T2 \cup T3 \cup T4 \cup T5 \cup T6
  BY DEF Trees, Over, Pair
<1>11. e \in T1 => Arena(e)
  <2>1. e \in T1 => \E u \in Unary, o \in Binary : e = Pair(o) \o <<Node(u, 0, <<3>>)>>
    OBVIOUS
  <2> HIDE DEF T1
  <2> QED BY <1>4, <2>1, Zenon
<1>12. e \in T2 => Arena(e)
  <2>1. e \in T2 => \E u \in Unary, o \in Binary : e = <<Leaf(l), Node(u, 0, <<1>>), Leaf(r), Node(o, 0, <<2, 3>>)>>
    OBVIOUS
  <2> HIDE DEF T2
  <2> QED BY <1>5, <2>1, Zenon
<1>9. Shifts \cup {"**", "-"} \subseteq Binary /\ {"+:", "-:"} \subseteq Selects
  BY DEF Binary, Arith, Selects
<1>10. 3 \in 1 .. 4 /\ 4 \in 1 .. 4 /\ 0 \in Nat /\ 2 \in Nat
  OBVIOUS
<1>13. e \in T3 => Arena(e)
  <2>1. e \in T3 => \E p \in Binary, o \in Binary : e = Over(p, 0, o, <<3, 4>>)
    OBVIOUS
  <2> QED BY <1>6, <1>10, <2>1
<1>14. e \in T4 => Arena(e)
  <2>1. e \in T4 => \E p \in Shifts \cup {"**", "-"}, o \in Binary : e = Over(p, 0, o, <<4, 3>>)
    OBVIOUS
  <2>2. e \in T4 => \E p \in Binary, o \in Binary : e = Over(p, 0, o, <<4, 3>>)
    BY <1>9, <2>1
  <2> HIDE DEF T4
  <2> QED BY <1>6, <1>10, <2>2
<1>15. e \in T5 => Arena(e)
  BY <1>7
<1>16. e \in T6 => Arena(e)
  <2>1. e \in T6 => \E o \in {"+:", "-:"}, p \in Binary : e = Over(o, 2, p, <<3, 4>>)
    OBVIOUS
  <2>2. e \in T6 => \E o \in Binary \cup Selects, p \in Binary : e = Over(o, 2, p, <<3, 4>>)
    BY <1>9, <2>1
  <2> HIDE DEF T6
  <2> QED BY <1>6, <1>10, <2>2
<1> HIDE DEF T1, T2, T3, T4, T5, T6
<1> QED BY <1>8, <1>11, <1>12, <1>13, <1>14, <1>15, <1>16

\* What the constants supply are canonical values.
LEMMA SuppliedValues ==
    /\ Operands \subseteq Values /\ Conditions \subseteq Values /\ Leaves \subseteq Values
    /\ Contexts \subseteq Context /\ PartWidths \subseteq Nat
<1>1. ASSUME NEW v \in Supplied PROVE v \in Values
  <2>1. v \in [val : PlanesOf(v.width), unk : PlanesOf(v.width), width : Nat, signed : BOOLEAN]
    BY EvaluateAssumption
  <2> DEFINE w == v.width
  <2>2. w \in Nat /\ v \in [val : PlanesOf(w), unk : PlanesOf(w), width : {w}, signed : BOOLEAN]
    BY <2>1
  <2> HIDE DEF w
  <2> QED BY <2>2 DEF Values
<1> QED BY <1>1, EvaluateAssumption DEF Supplied

\* The operands are supplied and the answer is a canonical value.
CanonicalInv == l \in Operands /\ r \in Operands /\ ctx \in Contexts /\ out \in Values

\* An operator answers with a canonical value.
LEMMA OperatorAnswers ==
    ASSUME CanonicalInv, NEW o \in Operators \ {"leaf"}, NEW a,
           o = "?:" => a \in Values, o # "?:" => a \in Nat
    PROVE  eval(Source(o, a), ctx) \in Values
<1>1. l \in Values /\ r \in Values /\ ctx \in Context
  BY SuppliedValues DEF CanonicalInv
<1>2. Arena(Source(o, a))
  BY <1>1, SourceIsArena
<1> QED BY <1>1, <1>2, ExpressionAnswers DEF Region

\* Each step answers with a canonical value.
LEMMA StepAnswers ==
    ASSUME CanonicalInv, Next
    PROVE  out' \in Values /\ UNCHANGED <<l, r, ctx>>
<1>0. l \in Values /\ r \in Values /\ ctx \in Context /\ l.width \in Nat /\ r.width \in Nat
  BY SuppliedValues, ValueParts DEF CanonicalInv
<1>1. ASSUME NEW o \in Unary \cup Binary, Operator(o, 0)
      PROVE  out' \in Values /\ UNCHANGED <<l, r, ctx>>
  <2>1. o \in Operators \ {"leaf"} /\ o # "?:"
    BY Kinds DEF Operators
  <2> QED BY <1>1, <2>1, OperatorAnswers DEF Operator, Answer
<1>2. ASSUME NEW c \in Conditions, Operator("?:", c)
      PROVE  out' \in Values /\ UNCHANGED <<l, r, ctx>>
  <2>1. "?:" \in Operators \ {"leaf"} /\ c \in Values
    BY SuppliedValues DEF Operators
  <2> QED BY <1>2, <2>1, OperatorAnswers DEF Operator, Answer
<1>3. ASSUME NEW n \in 1 .. 3, Operator("{n{}}", n)
      PROVE  out' \in Values /\ UNCHANGED <<l, r, ctx>>
  <2>1. "{n{}}" \in Operators \ {"leaf"} /\ n \in Nat /\ "{n{}}" # "?:"
    BY DEF Operators
  <2> QED BY <1>3, <2>1, OperatorAnswers DEF Operator, Answer
<1>4. ASSUME NEW o \in Selects, NEW w \in PartWidths, Select(o, w)
      PROVE  out' \in Values /\ UNCHANGED <<l, r, ctx>>
  <2>1. o \in Operators \ {"leaf"} /\ w \in Nat /\ o # "?:"
    BY SuppliedValues, Kinds DEF Operators
  <2> QED BY <1>4, <2>1, OperatorAnswers DEF Select, Operator, Answer
<1>5. ASSUME NEW lsb \in 0 .. l.width - 1, Deposit(lsb)
      PROVE  out' \in Values /\ UNCHANGED <<l, r, ctx>>
  <2>1. lsb \in Nat /\ lsb + r.width <= l.width
    BY <1>0, <1>5 DEF Deposit, window_in_range
  <2>2. replace_bits(l, lsb, r, 0, r.width) \in Values
    BY <1>0, <2>1, ReplaceMoves DEF Spliced
  <2> QED BY <1>5, <2>2 DEF Deposit, Answer
<1>6. ASSUME NEW o \in Wired, NEW c \in Conditions, Resolution(o, c)
      PROVE  out' \in Values /\ UNCHANGED <<l, r, ctx>>
  <2> DEFINE w == Mx(l.width, r.width)
             drivers == <<resize(l, w), resize(r, w), resize(c, w)>>
  <2>1. w \in Nat /\ c \in Values
    BY <1>0, Wider, SuppliedValues
  <2>2. resize(l, w) \in Values /\ resize(r, w) \in Values /\ resize(c, w) \in Values
    <3> HIDE DEF w
    <3> QED BY <1>0, <2>1, ResizeExtends
  <2>3. IsFiniteSet(DOMAIN drivers) /\ \A k \in DOMAIN drivers : drivers[k] \in Values
    <3>1. DOMAIN drivers = 1 .. 3
      OBVIOUS
    <3>2. IsFiniteSet(1 .. 3)
      <4>1. \A n \in Int : IsFiniteSet(1 .. n)
        BY FS_Interval
      <4>2. 3 \in Int
        OBVIOUS
      <4> QED BY <4>1, <4>2, Zenon
    <3> QED BY <2>2, <3>1, <3>2
  <2>4. resolve_md_group(o, w, drivers) \in Values
    <3> HIDE DEF drivers, w
    <3> QED BY <2>1, <2>3, NetTakes DEF Region
  <2>5. out' = resolve_md_group(o, w, drivers) /\ UNCHANGED <<l, r, ctx>>
    BY <1>6 DEF Resolution, Answer
  <2> HIDE DEF drivers, w
  <2> QED BY <2>4, <2>5
<1>7. ASSUME NEW c \in Leaves, NEW e \in Trees(c), Assigned(e)
      PROVE  out' \in Values /\ UNCHANGED <<l, r, ctx>>
  <2>1. Arena(e) /\ Len(e) \in DOMAIN e
    <3>1. Arena(e)
      BY <1>0, SuppliedValues, TreeIsArena
    <3> QED BY <3>1 DEF Arena
  <2> DEFINE c2 == Ctx(ctx.width, WidthTable(e)[Len(e)].signed)
  <2>2. c2 \in Context
    BY <1>0, <2>1, EveryNodeAnswers DEF Context, Ctx
  <2>3. eval(e, c2) \in Values
    <3> HIDE DEF c2
    <3> QED BY <2>1, <2>2, ExpressionAnswers DEF Region
  <2> QED BY <1>7, <2>3 DEF Assigned, Answer
<1>8. \/ \E o \in Unary \cup Binary : Operator(o, 0)
      \/ \E c \in Conditions : Operator("?:", c)
      \/ \E n \in 1 .. 3 : Operator("{n{}}", n)
      \/ \E o \in Selects, w \in PartWidths : Select(o, w)
      \/ \E lsb \in 0 .. l.width - 1 : Deposit(lsb)
      \/ \E o \in Wired, c \in Conditions : Resolution(o, c)
      \/ \E c \in Leaves, e \in UNION {Trees(d) : d \in Leaves} : e \in Trees(c) /\ Assigned(e)
  <2>1. \A e \in UNION {Trees(c) : c \in Leaves} : \E c \in Leaves : e \in Trees(c)
    OBVIOUS
  <2> QED BY <2>1 DEF Next
<1> QED BY <1>1, <1>2, <1>3, <1>4, <1>5, <1>6, <1>7, <1>8

\* Every answer is canonical, for operands and contexts of any width: no operator,
\* write, net or expression of two operators leaves a bit beyond the width, which
\* is what a resize to the same width relies on (is_canonical).
THEOREM CanonicalHolds == Spec => []Canonical
<1>1. Init => CanonicalInv
  BY SuppliedValues DEF Init, CanonicalInv
<1>2. CanonicalInv /\ [Next]_vars => CanonicalInv'
  BY StepAnswers DEF CanonicalInv, vars
<1>3. CanonicalInv => Canonical
  <2> SUFFICES ASSUME CanonicalInv PROVE Canonical
    OBVIOUS
  <2>1. out \in Values
    BY DEF CanonicalInv
  <2> DEFINE w == out.width  val == out.val  unk == out.unk  s == out.signed
  <2>2. w \in Nat /\ s \in BOOLEAN /\ val \in [Index(w) -> Word] /\ unk \in [Index(w) -> Word]
        /\ out = [val |-> val, unk |-> unk, width |-> w, signed |-> s]
    BY <2>1, ValueParts DEF PlanesOf
  <2>3. is_canonical(out) <=> out \in Values
    <3> HIDE DEF w, val, unk, s
    <3> QED BY <2>2, CanonicalIsValue
  <2> QED BY <2>1, <2>3 DEF Canonical
<1> QED BY <1>1, <1>2, <1>3, PTL DEF Spec

-----------------------------------------------------------------------------
(* What an expression of one operator reads.                               *)
\* x is what the leaf v answers in every context.
Reads(x, v) == \A c \in Context : x[c] = resize_keep_sign(v, Mx(v.width, c.width), v.signed /\ c.signed)

\* A leaf in a region no narrower is extended with the sign of the region when
\* it has one itself, and by itself it is what it was.
LEMMA ReadsIn ==
    ASSUME NEW x, NEW v \in Values, Reads(x, v), NEW w \in Nat, NEW s \in BOOLEAN, v.width <= w
    PROVE  /\ x[Ctx(w, s)] \in Values /\ x[Ctx(w, s)].width = w /\ x[Ctx(w, s)].signed = (v.signed /\ s)
           /\ \A i \in Nat : i < w => BitOf(x[Ctx(w, s)], i) = Ext(v, v.signed /\ s, i)
<1>1. Ctx(w, s) \in Context /\ Ctx(w, s).width = w /\ Ctx(w, s).signed = s
  BY DEF Ctx, Context
<1>2. v.width \in Nat /\ v.signed \in BOOLEAN
  BY ValueParts
<1>3. Mx(v.width, w) = w
  BY <1>2 DEF Mx
<1> DEFINE t == v.signed /\ s
<1>4. t \in BOOLEAN /\ (v.signed /\ t <=> t)
  BY <1>2
<1>5. x[Ctx(w, s)] = resize_keep_sign(v, w, t)
  BY <1>1, <1>3 DEF Reads
<1>6. (v.signed /\ t) = t
  BY <1>2, <1>4
<1> HIDE DEF t
<1>7. /\ x[Ctx(w, s)] \in Values /\ x[Ctx(w, s)].width = w /\ x[Ctx(w, s)].signed = t
      /\ \A i \in Nat : i < w => BitOf(x[Ctx(w, s)], i) = Ext(v, t, i)
  BY <1>4, <1>5, <1>6, ContextExtends
<1> QED BY <1>7 DEF t

\* A leaf by itself is what it was.
LEMMA ReadsOwn ==
    ASSUME NEW x, NEW v \in Values, Reads(x, v)
    PROVE  x[Ctx(v.width, v.signed)] = v
<1>1. v.width \in Nat /\ v.signed \in BOOLEAN
      /\ v = [val |-> v.val, unk |-> v.unk, width |-> v.width, signed |-> v.signed]
  BY ValueParts
<1>2. LET c == Ctx(v.width, v.signed)
      IN  c \in Context /\ Mx(v.width, c.width) = v.width /\ (v.signed /\ c.signed) = v.signed
  BY <1>1 DEF Ctx, Context, Mx
<1>3. x[Ctx(v.width, v.signed)] = resize_keep_sign(v, v.width, v.signed)
  BY <1>2 DEF Reads
<1>4. [v EXCEPT !.signed = v.signed] = v
  BY <1>1
<1>5. [v EXCEPT !.signed = v.signed /\ (v.signed \/ v.width = v.width)] = v
  <2>1. (v.signed /\ (v.signed \/ v.width = v.width)) = v.signed
    BY <1>1
  <2> QED BY <1>4, <2>1
<1>6. resize_keep_sign(v, v.width, v.signed) = v
  BY <1>4, <1>5 DEF resize_keep_sign, resize
<1> QED BY <1>3, <1>6

\* A leaf of an arena, as its parents read it.
LEMMA LeafReads ==
    ASSUME NEW e, Arena(e), NEW i \in DOMAIN e, NEW v, e[i] = Leaf(v)
    PROVE  WidthTable(e)[i] = Ctx(v.width, v.signed) /\ Reads(Evaluated(e)[i], v)
<1> DEFINE A == child(WidthTable(e), e[i])
           X == child(Evaluated(e), e[i])
<1>1. e[i].op = "leaf" /\ e[i].v = v
  BY DEF Leaf
<1>2. WidthTable(e)[i] = self_width_of(e[i], A) /\ Evaluated(e)[i] = Answers(e[i], A, X)
  BY TableEquation, EvaluatedEquation
<1> HIDE DEF A, X
<1>3. e[i].op \in Operators /\ e[i].k \in Nat /\ v \in Values
  BY <1>1 DEF Arena
<1>6. Arity(e[i].op) = 0
  BY <1>1, <1>3, Arities
<1>4. self_width_of(e[i], A) = Ctx(v.width, v.signed)
  <2>1. \A j \in 1 .. Arity(e[i].op) : A[j] \in Context
    BY <1>6
  <2> DEFINE node == e[i]
  <2>2. node.op = "leaf" /\ node.v = v /\ node.op \in Operators /\ node.k \in Nat /\ v \in Values
    BY <1>1, <1>3
  <2> HIDE DEF node
  <2>3. self_width_of(node, A) = Ctx(v.width, v.signed)
    BY <2>1, <2>2, SelfWidth DEF node
  <2> QED BY <2>3 DEF node
<1>5. ASSUME NEW c \in Context
      PROVE  Evaluated(e)[i][c] = resize_keep_sign(v, Mx(v.width, c.width), v.signed /\ c.signed)
  <2>1. Evaluated(e)[i][c] = eval_ctx(e[i], A, X, c)
    BY <1>2 DEF Answers
  <2>2. Evals(e[i], A, X, RegionWidth(e[i], A, c), RegionSigned(e[i], A, c), eval_ctx(e[i], A, X, c))
    BY EvalCases
  <2>3. RegionWidth(e[i], A, c) = Mx(v.width, c.width) /\ RegionSigned(e[i], A, c) = (v.signed /\ c.signed)
    BY <1>4 DEF RegionWidth, RegionSigned, Ctx
  <2> QED BY <1>1, <2>1, <2>2, <2>3 DEF Evals
<1> QED BY <1>2, <1>4, <1>5 DEF Reads

\* The node at the root, with the widths and the answers of its operands.
LEMMA RootEval ==
    ASSUME NEW e, Arena(e), NEW c \in Context
    PROVE  LET node == e[Len(e)]
               A == child(WidthTable(e), node)
               X == child(Evaluated(e), node)
           IN  /\ Evals(node, A, X, RegionWidth(node, A, c), RegionSigned(node, A, c), eval(e, c))
               /\ \A j \in DOMAIN node.args : A[j] = WidthTable(e)[node.args[j]] /\ X[j] = Evaluated(e)[node.args[j]]
<1> DEFINE node == e[Len(e)]
           A == child(WidthTable(e), node)
           X == child(Evaluated(e), node)
<1>1. Len(e) \in DOMAIN e
  BY DEF Arena
<1>2. eval(e, c) = eval_ctx(node, A, X, c)
  <2>1. Evaluated(e)[Len(e)] = Answers(node, A, X)
    BY <1>1, EvaluatedEquation
  <2>2. Answers(node, A, X)[c] = eval_ctx(node, A, X, c)
    BY DEF Answers
  <2> HIDE DEF A, X, node
  <2> QED BY <2>1, <2>2 DEF eval
<1>3. \A j \in DOMAIN node.args : A[j] = WidthTable(e)[node.args[j]] /\ X[j] = Evaluated(e)[node.args[j]]
  BY DEF child
<1> HIDE DEF A, X, node
<1>4. Evals(node, A, X, RegionWidth(node, A, c), RegionSigned(node, A, c), eval(e, c))
  BY <1>2, EvalCases
<1> QED BY <1>3, <1>4 DEF A, X, node

\* The operands of a node are the values vs, in order.
Given(A, X, j, v) == A[j] = Ctx(v.width, v.signed) /\ Reads(X[j], v)

\* node answers res on the operands A and X, which are those of the action.
OneNode(o, k, a, node, A, X, res) ==
    /\ node.op = o /\ node.k = k
    /\ Evals(node, A, X, RegionWidth(node, A, ctx), RegionSigned(node, A, ctx), res)
    /\ o \in Unary \cup {"{n{}}"} => Given(A, X, 1, l)
    /\ o \in Binary \cup Selects => Given(A, X, 1, l) /\ Given(A, X, 2, r)
    /\ o = "?:" => Given(A, X, 1, a) /\ Given(A, X, 2, l) /\ Given(A, X, 3, r)

\* The expression of one operator is one node on the operands of the action.
LEMMA Operates ==
    ASSUME l \in Values, r \in Values, ctx \in Context, NEW o \in Operators \ {"leaf"}, NEW a,
           o = "?:" => a \in Values, o # "?:" => a \in Nat
    PROVE  \E node, A, X : OneNode(o, IF o \in Selects THEN IF o = "[i]" THEN 1 ELSE a ELSE IF o = "{n{}}" THEN a ELSE 0,
                                   a, node, A, X, eval(Source(o, a), ctx))
<1> DEFINE e == Source(o, a)
           node == e[Len(e)]
           A == child(WidthTable(e), node)
           X == child(Evaluated(e), node)
           k == IF o \in Selects THEN IF o = "[i]" THEN 1 ELSE a ELSE IF o = "{n{}}" THEN a ELSE 0
<1>1. Arena(e)
  BY SourceIsArena
<1>2. /\ Evals(node, A, X, RegionWidth(node, A, ctx), RegionSigned(node, A, ctx), eval(e, ctx))
      /\ \A j \in DOMAIN node.args : A[j] = WidthTable(e)[node.args[j]] /\ X[j] = Evaluated(e)[node.args[j]]
  <2> HIDE DEF e
  <2> QED BY <1>1, RootEval
<1>3. ASSUME NEW i \in DOMAIN e, NEW v, e[i] = Leaf(v), NEW j \in DOMAIN node.args, node.args[j] = i
      PROVE  Given(A, X, j, v)
  <2> HIDE DEF e, A, X, node
  <2>1. WidthTable(e)[i] = Ctx(v.width, v.signed) /\ Reads(Evaluated(e)[i], v)
    BY <1>1, <1>3, LeafReads
  <2> QED BY <1>2, <1>3, <2>1 DEF Given
<1> HIDE DEF A, X, k
<1>4. CASE o \in Unary \cup {"{n{}}"}
  <2>0. o \notin Binary \cup Selects \cup {"?:"} /\ (o = "{n{}}" => o \notin Unary)
    BY <1>4, Kinds
  <2>1. e = <<Leaf(l), Node(o, k, <<1>>)>>
    BY <1>4, <2>0, Kinds, SourceIs DEF k
  <2> HIDE DEF e
  <2>2. node = Node(o, k, <<1>>) /\ DOMAIN e = 1 .. 2 /\ e[1] = Leaf(l)
    BY <2>1
  <2>3. node.args = <<1>> /\ node.op = o /\ node.k = k
    BY <2>2 DEF Node
  <2> HIDE DEF node
  <2>4. 1 \in DOMAIN node.args /\ node.args[1] = 1 /\ 1 \in DOMAIN e
    <3>1. DOMAIN node.args = 1 .. 1 /\ \A j \in 1 .. 1 : node.args[j] = 1
      BY <2>3, OneTuple
    <3> QED BY <2>2, <3>1
  <2>5. Given(A, X, 1, l)
    BY <1>3, <2>2, <2>4
  <2>6. OneNode(o, k, a, node, A, X, eval(e, ctx))
    BY <1>2, <2>0, <2>3, <2>5 DEF OneNode
  <2> QED BY <2>6 DEF k, e
<1>5. CASE o \in Binary \cup Selects
  <2>0. o \notin Unary \cup {"?:", "{n{}}"} /\ (o \in Binary => o \notin Selects)
    BY <1>5, Kinds
  <2>1. e = <<Leaf(l), Leaf(r), Node(o, k, <<1, 2>>)>>
    BY <1>5, <2>0, SourceIs DEF k
  <2> HIDE DEF e
  <2>2. node = Node(o, k, <<1, 2>>) /\ DOMAIN e = 1 .. 3 /\ e[1] = Leaf(l) /\ e[2] = Leaf(r)
    BY <2>1
  <2>3. node.args = <<1, 2>> /\ node.op = o /\ node.k = k
    BY <2>2 DEF Node
  <2> HIDE DEF node
  <2>4. DOMAIN node.args = 1 .. 2 /\ node.args[1] = 1 /\ node.args[2] = 2
    BY <2>3
  <2>5. 1 \in DOMAIN node.args /\ 2 \in DOMAIN node.args /\ 1 \in DOMAIN e /\ 2 \in DOMAIN e
    BY <2>2, <2>4
  <2>6. Given(A, X, 1, l) /\ Given(A, X, 2, r)
    BY <1>3, <2>2, <2>4, <2>5
  <2>7. OneNode(o, k, a, node, A, X, eval(e, ctx))
    BY <1>2, <2>0, <2>3, <2>6 DEF OneNode
  <2> QED BY <2>7 DEF k, e
<1>6. CASE o = "?:"
  <2>0. o \notin Unary \cup Binary \cup Selects \cup {"{n{}}"}
    BY <1>6, Kinds
  <2>1. e = <<Leaf(a), Leaf(l), Leaf(r), Node(o, k, <<1, 2, 3>>)>>
    BY <1>6, <2>0, SourceIs DEF k
  <2> HIDE DEF e
  <2>2. node = Node(o, k, <<1, 2, 3>>) /\ DOMAIN e = 1 .. 4 /\ e[1] = Leaf(a) /\ e[2] = Leaf(l) /\ e[3] = Leaf(r)
    BY <2>1
  <2>3. node.args = <<1, 2, 3>> /\ node.op = o /\ node.k = k
    BY <2>2 DEF Node
  <2> HIDE DEF node
  <2>4. DOMAIN node.args = 1 .. 3 /\ node.args[1] = 1 /\ node.args[2] = 2 /\ node.args[3] = 3
    BY <2>3
  <2>5. /\ 1 \in DOMAIN node.args /\ 2 \in DOMAIN node.args /\ 3 \in DOMAIN node.args
        /\ 1 \in DOMAIN e /\ 2 \in DOMAIN e /\ 3 \in DOMAIN e
    BY <2>2, <2>4
  <2>6. Given(A, X, 1, a) /\ Given(A, X, 2, l) /\ Given(A, X, 3, r)
    BY <1>3, <2>2, <2>4, <2>5
  <2>7. OneNode(o, k, a, node, A, X, eval(e, ctx))
    BY <1>2, <2>0, <2>3, <2>6 DEF OneNode
  <2> QED BY <2>7 DEF k, e
<1> QED BY <1>4, <1>5, <1>6 DEF Operators

\* The width and the sign of the region of an expression of one operator.
LEMMA Regions ==
    ASSUME l \in Values, r \in Values, ctx \in Context, NEW o \in Operators \ {"leaf"}, NEW k \in Nat, NEW a,
           o = "?:" => a \in Values, NEW node, NEW A, NEW X, NEW res, OneNode(o, k, a, node, A, X, res)
    PROVE  LET w == RegionWidth(node, A, ctx)
               s == RegionSigned(node, A, ctx)
           IN  /\ Evals(node, A, X, w, s, res) /\ w \in Nat /\ s \in BOOLEAN
               /\ o \in Sizing \cup {"?:"} => w = Width /\ s = Signed
               /\ o \in Shifts \cup {"**", "neg", "~"} => w = LeftWidth /\ s = LeftSigned
               /\ o \in Signing => w = LeftWidth /\ s = (o = "$signed" /\ ctx.signed)
               /\ o = "{}" => w = Mx(l.width + r.width, ctx.width) /\ ~s
               /\ o = "{n{}}" => w = Mx(k * l.width, ctx.width) /\ ~s
               /\ o \in {"+:", "-:"} => w = Mx(k, ctx.width) /\ ~s
               /\ o \in {"$clog2", "$countones"} => w = Mx(IntBits, ctx.width) /\ s = ctx.signed
               /\ o \in {"[i]", "!"} \cup Compares \cup Logical \cup Reductions \cup Predicates =>
                     w = Mx(1, ctx.width) /\ ~s
<1> DEFINE w == RegionWidth(node, A, ctx)
           s == RegionSigned(node, A, ctx)
           own == self_width_of(node, A)
           cw == ctx.width
           cs == ctx.signed
<1>1. node.op = o /\ node.k = k /\ Evals(node, A, X, w, s, res)
  BY DEF OneNode
<1>2. /\ l.width \in Nat /\ r.width \in Nat /\ l.signed \in BOOLEAN /\ r.signed \in BOOLEAN
      /\ cw \in Nat /\ cs \in BOOLEAN /\ (o = "?:" => a.width \in Nat /\ a.signed \in BOOLEAN)
  BY ValueParts DEF Context
<1>3. /\ o \in Unary \cup {"{n{}}"} => A[1] = Ctx(l.width, l.signed)
      /\ o \in Binary \cup Selects => A[1] = Ctx(l.width, l.signed) /\ A[2] = Ctx(r.width, r.signed)
      /\ o = "?:" => /\ A[1] = Ctx(a.width, a.signed) /\ A[2] = Ctx(l.width, l.signed)
                     /\ A[3] = Ctx(r.width, r.signed)
  BY DEF OneNode, Given
<1>4. \A n \in Nat, b \in BOOLEAN : Ctx(n, b) \in Context /\ Ctx(n, b).width = n /\ Ctx(n, b).signed = b
  <2> TAKE n \in Nat
  <2> TAKE b \in BOOLEAN
  <2> QED BY DEF Ctx, Context
<1>5. \A n, b : Ctx(n, b).width = n /\ Ctx(n, b).signed = b
  BY DEF Ctx
<1>6. \A j \in 1 .. Arity(o) : A[j] \in Context
  <2>1. Ctx(l.width, l.signed) \in Context /\ Ctx(r.width, r.signed) \in Context
        /\ (o = "?:" => Ctx(a.width, a.signed) \in Context)
    BY <1>2 DEF Ctx, Context
  <2>2. CASE o \in Unary \cup {"{n{}}"}
    <3>1. Arity(o) = 1
      BY <2>2, Arities
    <3>2. \A j \in 1 .. 1 : j = 1
      OBVIOUS
    <3> QED BY <1>3, <2>1, <2>2, <3>1, <3>2
  <2>3. CASE o \in Binary \cup Selects
    <3>1. Arity(o) = 2
      BY <2>3, Arities
    <3>2. \A j \in 1 .. 2 : j = 1 \/ j = 2
      OBVIOUS
    <3> QED BY <1>3, <2>1, <2>3, <3>1, <3>2
  <2>4. CASE o = "?:"
    <3>1. Arity(o) = 3
      BY <2>4, Arities
    <3>2. \A j \in 1 .. 3 : j = 1 \/ j = 2 \/ j = 3
      OBVIOUS
    <3> QED BY <1>3, <2>1, <2>4, <3>1, <3>2
  <2> QED BY <2>2, <2>3, <2>4 DEF Operators
<1>7. w = Mx(own.width, cw) /\ s = (own.signed /\ cs)
  BY DEF RegionWidth, RegionSigned
<1>8. /\ own \in Context
      /\ o \in Sizing => own = Ctx(Mx(A[1].width, A[2].width), A[1].signed /\ A[2].signed)
      /\ o \in Shifts \cup {"**", "neg", "~"} => own = A[1]
      /\ o = "?:" => own = Ctx(Mx(A[2].width, A[3].width), A[2].signed /\ A[3].signed)
      /\ o \in Signing => own = Ctx(A[1].width, o = "$signed")
      /\ o = "{}" => own = Ctx(A[1].width + A[2].width, FALSE)
      /\ o = "{n{}}" => own = Ctx(k * A[1].width, FALSE)
      /\ o \in {"+:", "-:"} => own = Ctx(k, FALSE)
      /\ o \in {"$clog2", "$countones"} => own = Ctx(IntBits, TRUE)
      /\ o \in {"[i]", "!"} \cup Compares \cup Logical \cup Reductions \cup Predicates => own = Ctx(1, FALSE)
  <2>1. o # "leaf"
    OBVIOUS
  <2> HIDE DEF own
  <2> QED BY <1>1, <1>6, <2>1, SelfWidth, ZenonT(40) DEF own
<1>9. w \in Nat /\ s \in BOOLEAN
  <2>1. own.width \in Nat /\ own.signed \in BOOLEAN
    BY <1>8 DEF Context
  <2> HIDE DEF w, s, own
  <2> QED BY <1>2, <1>7, <2>1, Wider
<1>18. ASSUME o \in Unary \cup {"{n{}}"}
      PROVE  /\ A[1].width = l.width /\ A[1].signed = l.signed
  <2> HIDE DEF own, w, s
  <2>1. A[1] = Ctx(l.width, l.signed)
    BY <1>3, <1>18
  <2>1a. A[1].width = l.width /\ A[1].signed = l.signed
    BY <1>5, <2>1
  <2> QED BY <2>1a
<1>19. ASSUME o \in Binary \cup Selects
      PROVE  /\ A[1].width = l.width /\ A[1].signed = l.signed
             /\ A[2].width = r.width /\ A[2].signed = r.signed
  <2> HIDE DEF own, w, s
  <2>1. A[1] = Ctx(l.width, l.signed)
    BY <1>3, <1>19
  <2>1a. A[1].width = l.width /\ A[1].signed = l.signed
    BY <1>5, <2>1
  <2>2. A[2] = Ctx(r.width, r.signed)
    BY <1>3, <1>19
  <2>2a. A[2].width = r.width /\ A[2].signed = r.signed
    BY <1>5, <2>2
  <2> QED BY <2>1a, <2>2a
<1>20. ASSUME o = "?:"
      PROVE  /\ A[2].width = l.width /\ A[2].signed = l.signed
             /\ A[3].width = r.width /\ A[3].signed = r.signed
  <2> HIDE DEF own, w, s
  <2>1. A[2] = Ctx(l.width, l.signed)
    BY <1>3, <1>20
  <2>1a. A[2].width = l.width /\ A[2].signed = l.signed
    BY <1>5, <2>1
  <2>2. A[3] = Ctx(r.width, r.signed)
    BY <1>3, <1>20
  <2>2a. A[3].width = r.width /\ A[3].signed = r.signed
    BY <1>5, <2>2
  <2> QED BY <2>1a, <2>2a
<1>15. /\ o \in Unary \cup {"{n{}}"} => A[1].width = l.width /\ A[1].signed = l.signed
       /\ o \in Binary \cup Selects => /\ A[1].width = l.width /\ A[1].signed = l.signed
                                       /\ A[2].width = r.width /\ A[2].signed = r.signed
       /\ o = "?:" => /\ A[2].width = l.width /\ A[2].signed = l.signed
                      /\ A[3].width = r.width /\ A[3].signed = r.signed
  <2> HIDE DEF own, w, s
  <2> QED BY <1>18, <1>19, <1>20
<1>16. ASSUME NEW n, NEW b, own = Ctx(n, b)
       PROVE  w = Mx(n, cw) /\ s = (b /\ cs)
  <2> HIDE DEF own, w, s
  <2> QED BY <1>5, <1>7, <1>16
<1>17. (o \in Sizing => o \in Binary) /\ (o \in Signing => o \in Unary)
       /\ (o \in Shifts \cup {"**", "neg", "~"} => o \in Binary \cup Unary)
       /\ (o = "{}" => o \in Binary)
  BY DEF Sizing, Binary, Unary
<1>10. o \in Sizing \cup {"?:"} => w = Width /\ s = Signed
  <2>1. ASSUME o \in Sizing PROVE own = Ctx(Mx(l.width, r.width), l.signed /\ r.signed)
    <3>1. own = Ctx(Mx(A[1].width, A[2].width), A[1].signed /\ A[2].signed)
      BY <1>8, <2>1
    <3> HIDE DEF own
    <3> QED BY <1>15, <1>17, <2>1, <3>1
  <2>2. ASSUME o = "?:" PROVE own = Ctx(Mx(l.width, r.width), l.signed /\ r.signed)
    <3>1. own = Ctx(Mx(A[2].width, A[3].width), A[2].signed /\ A[3].signed)
      BY <1>8, <2>2
    <3> HIDE DEF own
    <3> QED BY <1>15, <2>2, <3>1
  <2> HIDE DEF own, w, s
  <2>3. o \in Sizing \cup {"?:"} => own = Ctx(Mx(l.width, r.width), l.signed /\ r.signed)
    BY <2>1, <2>2
  <2> QED BY <1>16, <2>3 DEF Width, Signed
<1>11. o \in Shifts \cup {"**", "neg", "~"} => w = LeftWidth /\ s = LeftSigned
  <2> SUFFICES ASSUME o \in Shifts \cup {"**", "neg", "~"} PROVE w = LeftWidth /\ s = LeftSigned
    OBVIOUS
  <2>1. own = A[1]
    BY <1>8
  <2>2. A[1].width = l.width /\ A[1].signed = l.signed
    BY <1>15, <1>17
  <2> HIDE DEF own, w, s
  <2> QED BY <1>7, <2>1, <2>2 DEF LeftWidth, LeftSigned
<1>12. o \in Signing => w = LeftWidth /\ s = (o = "$signed" /\ ctx.signed)
  <2> SUFFICES ASSUME o \in Signing PROVE w = LeftWidth /\ s = (o = "$signed" /\ ctx.signed)
    OBVIOUS
  <2>1. own = Ctx(A[1].width, o = "$signed")
    BY <1>8
  <2>2. A[1].width = l.width
    BY <1>15, <1>17
  <2> HIDE DEF own, w, s
  <2> QED BY <1>16, <2>1, <2>2 DEF LeftWidth
<1>13. /\ o = "{}" => w = Mx(l.width + r.width, ctx.width) /\ s = FALSE
       /\ o = "{n{}}" => w = Mx(k * l.width, ctx.width) /\ s = FALSE
  <2>1. ASSUME o = "{}" PROVE w = Mx(l.width + r.width, ctx.width) /\ s = FALSE
    <3>1. own = Ctx(A[1].width + A[2].width, FALSE)
      BY <1>8, <2>1
    <3>2. A[1].width = l.width /\ A[2].width = r.width
      BY <1>15, <1>17, <2>1
    <3> HIDE DEF own, w, s
    <3> QED BY <1>16, <3>1, <3>2
  <2>2. ASSUME o = "{n{}}" PROVE w = Mx(k * l.width, ctx.width) /\ s = FALSE
    <3>1. own = Ctx(k * A[1].width, FALSE)
      BY <1>8, <2>2
    <3>2. A[1].width = l.width
      BY <1>15, <2>2
    <3> HIDE DEF own, w, s
    <3> QED BY <1>16, <3>1, <3>2
  <2> HIDE DEF w, s
  <2> QED BY <2>1, <2>2
<1>14. /\ o \in {"+:", "-:"} => w = Mx(k, ctx.width) /\ s = FALSE
       /\ o \in {"$clog2", "$countones"} => w = Mx(IntBits, ctx.width) /\ s = ctx.signed
       /\ o \in {"[i]", "!"} \cup Compares \cup Logical \cup Reductions \cup Predicates =>
             w = Mx(1, ctx.width) /\ s = FALSE
  <2>1. ASSUME o \in {"+:", "-:"} PROVE w = Mx(k, ctx.width) /\ s = FALSE
    BY <1>8, <1>16, <2>1
  <2>2. ASSUME o \in {"$clog2", "$countones"} PROVE w = Mx(IntBits, ctx.width) /\ s = ctx.signed
    <3>1. own = Ctx(IntBits, TRUE)
      BY <1>8, <2>2
    <3>2. s = (TRUE /\ cs) /\ w = Mx(IntBits, cw)
      BY <1>16, <3>1
    <3> HIDE DEF w, s
    <3> QED BY <1>2, <3>2
  <2>3. ASSUME o \in {"[i]", "!"} \cup Compares \cup Logical \cup Reductions \cup Predicates
        PROVE  w = Mx(1, ctx.width) /\ s = FALSE
    <3>1. own = Ctx(1, FALSE)
      BY <1>8, <2>3
    <3>2. s = (FALSE /\ cs) /\ w = Mx(1, cw)
      BY <1>16, <3>1
    <3> HIDE DEF w, s
    <3> QED BY <3>2
  <2> HIDE DEF w, s
  <2> QED BY <2>1, <2>2, <2>3
<1> QED BY <1>1, <1>9, <1>10, <1>11, <1>12, <1>13, <1>14

\* The widths of the regions.
LEMMA RegionSizes ==
    ASSUME l \in Values, r \in Values, ctx \in Context
    PROVE  /\ Width \in Nat /\ Signed \in BOOLEAN /\ LeftWidth \in Nat /\ LeftSigned \in BOOLEAN
           /\ l.width <= Width /\ r.width <= Width /\ l.width <= LeftWidth
           /\ (l.signed /\ Signed) = Signed /\ (r.signed /\ Signed) = Signed
           /\ (l.signed /\ LeftSigned) = LeftSigned
<1>1. /\ l.width \in Nat /\ r.width \in Nat /\ l.signed \in BOOLEAN /\ r.signed \in BOOLEAN
      /\ ctx.width \in Nat /\ ctx.signed \in BOOLEAN
  BY ValueParts DEF Context
<1> QED BY <1>1 DEF Width, Signed, LeftWidth, LeftSigned, Mx

-----------------------------------------------------------------------------
(* Bitwise operators, ?: and nets.                                         *)

\* An operand of a region: its width, its sign and its bits.
LEMMA InRegion ==
    ASSUME NEW x, NEW v \in Values, Reads(x, v), NEW w \in Nat, NEW s \in BOOLEAN, v.width <= w,
           (v.signed /\ s) = s
    PROVE  /\ Region(x[Ctx(w, s)], w, s)
           /\ \A i \in Nat : i < w => BitOf(x[Ctx(w, s)], i) = Ext(v, s, i)
BY ReadsIn DEF Region

\* A bitwise operator on operands of one region.
LEMMA BitwiseBits ==
    ASSUME NEW p \in Values, NEW q \in Values, NEW o \in Bitwise, NEW w \in Nat, NEW s \in BOOLEAN,
           Region(p, w, s), Region(q, w, s)
    PROVE  /\ Region(bitwise(p, q, o), w, s)
           /\ \A i \in Nat : i < w =>
                 BitOf(bitwise(p, q, o), i) = TableOf(o, Ext(p, s, i), Ext(q, s, i))
<1>1. p.width = w /\ q.width = w /\ p.signed = s /\ q.signed = s
  BY DEF Region
<1>2. Mx(p.width, q.width) = w /\ (p.signed /\ q.signed) = s
  BY <1>1 DEF Mx
<1>3. \A i \in Nat : i < Mx(p.width, q.width) =>
         BitOf(bitwise(p, q, o), i) = TableOf(o, Ext(p, p.signed /\ q.signed, i), Ext(q, p.signed /\ q.signed, i))
  BY BitwiseIsTable DEF Bitwise
<1> QED BY <1>2, <1>3, BitwiseType

\* & | ^ ^~ in a context.
LEMMA BitwiseAnswer ==
    ASSUME l \in Values, r \in Values, ctx \in Context, NEW o \in Bitwise
    PROVE  LET v == eval(Source(o, 0), ctx)
           IN  /\ Region(v, Width, Signed)
               /\ \A i \in Nat : i < Width => BitOf(v, i) = TableOf(o, Ext(l, Signed, i), Ext(r, Signed, i))
<1> DEFINE v == eval(Source(o, 0), ctx)
           w == Width
           s == Signed
<1>1. /\ w \in Nat /\ s \in BOOLEAN /\ l.width <= w /\ r.width <= w
      /\ (l.signed /\ s) = s /\ (r.signed /\ s) = s
  BY RegionSizes
<1>2. o \in Binary /\ o \in Sizing /\ o \in Operators \ {"leaf"} /\ o # "?:" /\ o \notin Selects /\ o # "{n{}}"
      /\ o \in {"&", "|", "^", "^~"}
  BY DEF Bitwise, Binary, Sizing, Operators, Selects
<1>3. PICK node, A, X : OneNode(o, 0, 0, node, A, X, v)
  BY <1>2, Operates
<1> HIDE DEF v
<1>4. Evals(node, A, X, w, s, v)
  <2>1. RegionWidth(node, A, ctx) = w /\ RegionSigned(node, A, ctx) = s
    BY <1>2, <1>3, Regions
  <2> QED BY <1>3, <2>1 DEF OneNode
<1>5. node.op = o /\ Given(A, X, 1, l) /\ Given(A, X, 2, r)
  BY <1>2, <1>3 DEF OneNode
<1> DEFINE p == X[1][Ctx(w, s)]
           q == X[2][Ctx(w, s)]
<1>6. v = bitwise(p, q, o)
  BY <1>4, <1>5 DEF Evals
<1> HIDE DEF w, s
<1>7. /\ Region(p, w, s) /\ \A i \in Nat : i < w => BitOf(p, i) = Ext(l, s, i)
      /\ Region(q, w, s) /\ \A i \in Nat : i < w => BitOf(q, i) = Ext(r, s, i)
  BY <1>1, <1>5, InRegion DEF Given
<1> HIDE DEF p, q
<1>8. /\ p \in Values /\ q \in Values /\ p.width = w /\ q.width = w /\ p.signed = s /\ q.signed = s
      /\ Mx(w, w) = w /\ (s /\ s) = s
  BY <1>1, <1>7 DEF Region, Mx
<1>9. /\ Region(v, w, s)
      /\ \A i \in Nat : i < w => BitOf(v, i) = TableOf(o, Ext(p, s, i), Ext(q, s, i))
  BY <1>1, <1>6, <1>7, <1>8, BitwiseBits
<1>10. \A i \in Nat : i < w => Ext(p, s, i) = Ext(l, s, i) /\ Ext(q, s, i) = Ext(r, s, i)
  BY <1>7, <1>8 DEF Ext
<1> QED BY <1>9, <1>10 DEF v, w, s

\* ~ in a context.
LEMMA NotAnswer ==
    ASSUME l \in Values, r \in Values, ctx \in Context
    PROVE  LET v == eval(Source("~", 0), ctx)
           IN  /\ Region(v, LeftWidth, LeftSigned)
               /\ \A i \in Nat : i < LeftWidth => BitOf(v, i) = NotBit(Ext(l, LeftSigned, i))
<1> DEFINE v == eval(Source("~", 0), ctx)
           w == LeftWidth
           s == LeftSigned
<1>1. w \in Nat /\ s \in BOOLEAN /\ l.width <= w /\ (l.signed /\ s) = s
  BY RegionSizes
<1>2. "~" \in Unary /\ "~" \in Operators \ {"leaf"} /\ "~" \notin Selects
  BY DEF Unary, Operators, Selects
<1>3. PICK node, A, X : OneNode("~", 0, 0, node, A, X, v)
  BY <1>2, Operates
<1> HIDE DEF v
<1>4. Evals(node, A, X, w, s, v)
  <2>1. RegionWidth(node, A, ctx) = w /\ RegionSigned(node, A, ctx) = s
    BY <1>2, <1>3, Regions
  <2> QED BY <1>3, <2>1 DEF OneNode
<1>5. node.op = "~" /\ Given(A, X, 1, l)
  BY <1>2, <1>3 DEF OneNode
<1> DEFINE p == X[1][Ctx(w, s)]
<1>6. v = bit_not(p, s)
  BY <1>4, <1>5 DEF Evals
<1> HIDE DEF w, s
<1>7. Region(p, w, s) /\ \A i \in Nat : i < w => BitOf(p, i) = Ext(l, s, i)
  BY <1>1, <1>5, InRegion DEF Given
<1> HIDE DEF p
<1>8. p \in Values /\ p.width = w /\ p.signed = s
  BY <1>7 DEF Region
<1>9. bit_not(p, s) \in Values /\ \A i \in Nat : i < w => BitOf(bit_not(p, s), i) = NotBit(BitOf(p, i))
  BY <1>1, <1>8, NotAndMergeAreTables
<1>10. bit_not(p, s).width = w /\ bit_not(p, s).signed = s
  BY <1>8 DEF bit_not, FromWords, Value
<1> QED BY <1>6, <1>7, <1>9, <1>10 DEF v, w, s, Region

\* What a condition is.
LEMMA ConditionIs ==
    ASSUME NEW v \in Values
    PROVE  /\ truthiness(v) = "1" <=> "1" \in BitSet(v)
           /\ truthiness(v) = "0" <=> BitSet(v) \subseteq {"0"}
<1>1. v.width \in Nat
  BY ValueParts
<1>2. "1" \in BitSet(v) <=> OnesOf(v) # {}
  BY DEF BitSet, OnesOf
<1>3. \A i : BitOf(v, i) \in Four
  BY StateType DEF BitOf
<1>4. HasUnknown(v) <=> ~(BitSet(v) \subseteq Defined)
  <2>1. HasUnknown(v) <=> \E i \in 0 .. v.width - 1 : BitOf(v, i) \notin Defined
    BY <1>1, <1>3 DEF HasUnknown, Defined, Four
  <2> QED BY <2>1 DEF BitSet
<1>5. BitSet(v) \subseteq {"0"} <=> ("1" \notin BitSet(v) /\ BitSet(v) \subseteq Defined)
  BY DEF Defined
<1> QED BY <1>2, <1>4, <1>5, TruthOfBits

\* ?: in a context.
LEMMA ConditionalAnswer ==
    ASSUME l \in Values, r \in Values, ctx \in Context, NEW a \in Values
    PROVE  LET v == eval(Source("?:", a), ctx)
           IN  /\ Region(v, Width, Signed)
               /\ \A i \in Nat : i < Width =>
                     BitOf(v, i) = IF "1" \in BitSet(a) THEN Ext(l, Signed, i)
                                   ELSE IF BitSet(a) \subseteq {"0"} THEN Ext(r, Signed, i)
                                   ELSE MergeBit(Ext(l, Signed, i), Ext(r, Signed, i))
<1> DEFINE v == eval(Source("?:", a), ctx)
           w == Width
           s == Signed
           c == truthiness(a)
<1>1. /\ w \in Nat /\ s \in BOOLEAN /\ l.width <= w /\ r.width <= w
      /\ (l.signed /\ s) = s /\ (r.signed /\ s) = s
  BY RegionSizes
<1>2. "?:" \in Operators \ {"leaf"} /\ "?:" \notin Selects
  BY DEF Operators, Selects
<1>3. PICK node, A, X : OneNode("?:", 0, a, node, A, X, v)
  BY <1>2, Operates
<1> HIDE DEF v
<1>4. Evals(node, A, X, w, s, v)
  <2>1. RegionWidth(node, A, ctx) = w /\ RegionSigned(node, A, ctx) = s
    BY <1>2, <1>3, Regions
  <2> QED BY <1>3, <2>1 DEF OneNode
<1>5. node.op = "?:" /\ Given(A, X, 1, a) /\ Given(A, X, 2, l) /\ Given(A, X, 3, r)
  BY <1>2, <1>3 DEF OneNode
<1> DEFINE p == X[2][Ctx(w, s)]
           q == X[3][Ctx(w, s)]
<1>6. v = eval_ternary(A, X, w, s)
  BY <1>4, <1>5 DEF Evals
<1>11. X[1][A[1]] = a
  BY <1>5, ReadsOwn DEF Given
<1> HIDE DEF w, s
<1>7. /\ Region(p, w, s) /\ \A i \in Nat : i < w => BitOf(p, i) = Ext(l, s, i)
      /\ Region(q, w, s) /\ \A i \in Nat : i < w => BitOf(q, i) = Ext(r, s, i)
  BY <1>1, <1>5, InRegion DEF Given
<1>12. /\ c = "1" => v = p
       /\ c = "0" => v = q
       /\ c # "1" /\ c # "0" => v = merge_x(p, q, w, s)
  <2> HIDE DEF c
  <2>1. eval_ternary(A, X, w, s) = CASE c = "1" -> p [] c = "0" -> q [] OTHER -> merge_x(p, q, w, s)
    BY <1>11 DEF eval_ternary, c
  <2> HIDE DEF p, q
  <2> QED BY <1>6, <2>1
<1> HIDE DEF p, q
<1>8. p \in Values /\ q \in Values /\ p.width = w /\ q.width = w
  BY <1>7 DEF Region
<1>9. /\ Region(merge_x(p, q, w, s), w, s)
      /\ \A i \in Nat : i < w => BitOf(merge_x(p, q, w, s), i) = MergeBit(BitOf(p, i), BitOf(q, i))
  BY <1>1, <1>7, <1>8, NotAndMergeAreTables, MergeType
<1>10. (c = "1" <=> "1" \in BitSet(a)) /\ (c = "0" <=> BitSet(a) \subseteq {"0"})
  BY ConditionIs
<1> SUFFICES /\ Region(v, w, s)
             /\ \A i \in Nat : i < w =>
                     BitOf(v, i) = IF "1" \in BitSet(a) THEN Ext(l, s, i)
                                   ELSE IF BitSet(a) \subseteq {"0"} THEN Ext(r, s, i)
                                   ELSE MergeBit(Ext(l, s, i), Ext(r, s, i))
  BY DEF v, w, s
<1> HIDE DEF c
<1>13. CASE c = "1"
  BY <1>7, <1>10, <1>12, <1>13
<1>14. CASE c = "0"
  BY <1>7, <1>10, <1>12, <1>14
<1>15. CASE c # "1" /\ c # "0"
  BY <1>7, <1>9, <1>10, <1>12, <1>15
<1> QED BY <1>13, <1>14, <1>15

\* The drivers of a net are read at the wider width.
LEMMA NetAnswer ==
    ASSUME l \in Values, r \in Values, NEW c \in Values, NEW o \in Wired
    PROVE  LET w == Mx(l.width, r.width)
               v == resolve_md_group(o, w, <<resize(l, w), resize(r, w), resize(c, w)>>)
           IN  /\ Region(v, w, FALSE)
               /\ \A i \in Nat : i < w =>
                     BitOf(v, i) = NetBit(o, {Ext(l, l.signed, i), Ext(r, r.signed, i), Ext(c, c.signed, i)})
<1> DEFINE w == Mx(l.width, r.width)
           p == resize(l, w)
           q == resize(r, w)
           t == resize(c, w)
           v == resolve_md_group(o, w, <<p, q, t>>)
<1>1. w \in Nat
  BY ValueParts, Wider
<1> HIDE DEF w
<1>2. /\ \A i \in Nat : i < w => BitOf(p, i) = Ext(l, l.signed, i)
      /\ \A i \in Nat : i < w => BitOf(q, i) = Ext(r, r.signed, i)
      /\ \A i \in Nat : i < w => BitOf(t, i) = Ext(c, c.signed, i)
      /\ p \in Values /\ q \in Values /\ t \in Values
  BY <1>1, ResizeExtends
<1> HIDE DEF p, q, t
<1> DEFINE d == <<p, q, t>>
<1>6. DOMAIN d = 1 .. 3 /\ d[1] = p /\ d[2] = q /\ d[3] = t
  OBVIOUS
<1>7. IsFiniteSet(1 .. 3)
  <2>1. (\A n \in Int : IsFiniteSet(1 .. n)) /\ 3 \in Int
    BY FS_Interval
  <2> QED BY <2>1, Zenon
<1>8. \A k \in 1 .. 3 : k = 1 \/ k = 2 \/ k = 3
  OBVIOUS
<1>9. v = resolve_md_group(o, w, d)
  OBVIOUS
<1> HIDE DEF d, v
<1>10. \A i : DriverBits(d, i) = {BitOf(p, i), BitOf(q, i), BitOf(t, i)}
  BY <1>6, <1>8 DEF DriverBits
<1>11. IsFiniteSet(DOMAIN d) /\ \A k \in DOMAIN d : d[k] \in Values
  BY <1>2, <1>6, <1>7, <1>8
<1>12. Region(v, w, FALSE) /\ \A i \in Nat : i < w => BitOf(v, i) = NetBit(o, DriverBits(d, i))
  BY <1>1, <1>9, <1>11, NetTakes
<1>3. /\ Region(v, w, FALSE)
      /\ \A i \in Nat : i < w => BitOf(v, i) = NetBit(o, {BitOf(p, i), BitOf(q, i), BitOf(t, i)})
  BY <1>10, <1>12
<1> HIDE DEF v
<1>4. ASSUME NEW i \in Nat, i < w
      PROVE  BitOf(v, i) = NetBit(o, {Ext(l, l.signed, i), Ext(r, r.signed, i), Ext(c, c.signed, i)})
  BY <1>2, <1>3, <1>4
<1>5. Region(v, w, FALSE) /\ \A i \in Nat : i < w =>
         BitOf(v, i) = NetBit(o, {Ext(l, l.signed, i), Ext(r, r.signed, i), Ext(c, c.signed, i)})
  BY <1>3, <1>4
<1> QED BY <1>5 DEF v, w, p, q, t

\* What a step answers.
LEMMA StepIs ==
    ASSUME Next
    PROVE  /\ UNCHANGED <<l, r, ctx>>
           /\ \/ \E o \in Unary \cup Binary : op' = o /\ arg' = 0 /\ out' = eval(Source(o, 0), ctx)
              \/ \E c \in Conditions : op' = "?:" /\ arg' = c /\ out' = eval(Source("?:", c), ctx)
              \/ \E n \in 1 .. 3 : op' = "{n{}}" /\ arg' = n /\ out' = eval(Source("{n{}}", n), ctx)
              \/ \E o \in Selects, w \in PartWidths :
                    op' = o /\ arg' = w /\ l.width + w <= 2 ^ WordBits + 1 /\ out' = eval(Source(o, w), ctx)
              \/ \E lsb \in 0 .. l.width - 1 :
                    /\ op' = "=[]" /\ arg' = lsb /\ window_in_range(lsb, r.width, l.width)
                    /\ out' = replace_bits(l, lsb, r, 0, r.width)
              \/ \E o \in Wired, c \in Conditions :
                    LET w == Mx(l.width, r.width)
                    IN  /\ op' = o /\ arg' = c
                        /\ out' = resolve_md_group(o, w, <<resize(l, w), resize(r, w), resize(c, w)>>)
              \/ op' = "tree"
<1>1. CASE \E o \in Unary \cup Binary : Operator(o, 0)
  BY <1>1 DEF Operator, Answer
<1>2. CASE \E c \in Conditions : Operator("?:", c)
  BY <1>2 DEF Operator, Answer
<1>3. CASE \E n \in 1 .. 3 : Operator("{n{}}", n)
  BY <1>3 DEF Operator, Answer
<1>4. CASE \E o \in Selects, w \in PartWidths : Select(o, w)
  BY <1>4 DEF Select, Operator, Answer
<1>5. CASE \E lsb \in 0 .. l.width - 1 : Deposit(lsb)
  BY <1>5 DEF Deposit, Answer
<1>6. CASE \E o \in Wired, c \in Conditions : Resolution(o, c)
  BY <1>6 DEF Resolution, Answer
<1>7. CASE \E e \in UNION {Trees(c) : c \in Leaves} : Assigned(e)
  <2>1. PICK e : Assigned(e)
    BY <1>7
  <2> QED BY <2>1 DEF Assigned, Answer
<1> QED BY <1>1, <1>2, <1>3, <1>4, <1>5, <1>6, <1>7 DEF Next

\* What the operators of BitwiseExact answer.
BitsAnswered(o, a, v) ==
    /\ o \in Bitwise => /\ Region(v, Width, Signed)
                        /\ \A i \in Nat : i < Width => BitOf(v, i) = TableOf(o, Ext(l, Signed, i), Ext(r, Signed, i))
    /\ o = "~" => /\ Region(v, LeftWidth, LeftSigned)
                  /\ \A i \in Nat : i < LeftWidth => BitOf(v, i) = NotBit(Ext(l, LeftSigned, i))
    /\ o = "?:" => /\ Region(v, Width, Signed)
                   /\ \A i \in Nat : i < Width =>
                         BitOf(v, i) = IF "1" \in BitSet(a) THEN Ext(l, Signed, i)
                                       ELSE IF BitSet(a) \subseteq {"0"} THEN Ext(r, Signed, i)
                                       ELSE MergeBit(Ext(l, Signed, i), Ext(r, Signed, i))
    /\ o \in Wired => /\ Region(v, Mx(l.width, r.width), FALSE)
                      /\ \A i \in Nat : i < Mx(l.width, r.width) =>
                            BitOf(v, i) = NetBit(o, {Ext(l, l.signed, i), Ext(r, r.signed, i), Ext(a, a.signed, i)})

BitsInv == CanonicalInv /\ BitsAnswered(op, arg, out)

\* The operators of BitwiseExact, apart.
LEMMA NoBits ==
    /\ Wired \cap (Unary \cup Binary \cup Selects \cup {"?:", "{n{}}", "=[]", "tree", "none"}) = {}
    /\ Bitwise \cap (Unary \cup Selects \cup Wired \cup {"?:", "{n{}}", "=[]", "tree", "none"}) = {}
    /\ Bitwise \subseteq Binary /\ "~" \in Unary
    /\ {"~", "?:"} \cap (Selects \cup Wired \cup Binary \cup {"{n{}}", "=[]", "tree", "none"}) = {}
    /\ "?:" \notin Unary
BY DEF Wired, Unary, Binary, Selects, Bitwise, Arith, Compares, Relational, Equality, CaseEq, CaseZ, Logical,
       Reductions, Signing, Predicates, Shifts

\* A step answers what the bits ask for.
LEMMA StepBits ==
    ASSUME CanonicalInv, Next
    PROVE  BitsAnswered(op', arg', out')
<1>0. l \in Values /\ r \in Values /\ ctx \in Context
  BY SuppliedValues DEF CanonicalInv
<1>1. ASSUME NEW o \in Unary \cup Binary, op' = o, out' = eval(Source(o, 0), ctx)
      PROVE  BitsAnswered(op', arg', out')
  <2>1. o # "?:" /\ o \notin Wired
    BY NoBits
  <2>2. CASE o \in Bitwise
    <3>1. o # "~"
      BY <2>2, NoBits
    <3> QED BY <1>0, <1>1, <2>1, <2>2, <3>1, BitwiseAnswer DEF BitsAnswered
  <2>3. CASE o = "~"
    <3>1. o \notin Bitwise
      BY <2>3, NoBits
    <3> QED BY <1>0, <1>1, <2>1, <2>3, <3>1, NotAnswer DEF BitsAnswered
  <2>4. CASE o \notin Bitwise /\ o # "~"
    BY <1>1, <2>1, <2>4 DEF BitsAnswered
  <2> QED BY <2>2, <2>3, <2>4
<1>2. ASSUME NEW c \in Conditions, op' = "?:", arg' = c, out' = eval(Source("?:", c), ctx)
      PROVE  BitsAnswered(op', arg', out')
  <2>1. c \in Values /\ "?:" \notin Bitwise /\ "?:" \notin Wired
    BY SuppliedValues, NoBits
  <2> QED BY <1>0, <1>2, <2>1, ConditionalAnswer DEF BitsAnswered
<1>3. ASSUME op' \in Selects \cup {"{n{}}", "=[]", "tree"} PROVE BitsAnswered(op', arg', out')
  <2>1. op' \notin Bitwise /\ op' # "~" /\ op' # "?:" /\ op' \notin Wired
    BY <1>3, NoBits
  <2> QED BY <2>1 DEF BitsAnswered
<1>4. ASSUME NEW o \in Wired, NEW c \in Conditions, op' = o, arg' = c,
             out' = LET w == Mx(l.width, r.width)
                    IN  resolve_md_group(o, w, <<resize(l, w), resize(r, w), resize(c, w)>>)
      PROVE  BitsAnswered(op', arg', out')
  <2>1. c \in Values /\ o \notin Bitwise /\ o # "~" /\ o # "?:"
    BY SuppliedValues, NoBits
  <2> QED BY <1>0, <1>4, <2>1, NetAnswer DEF BitsAnswered
<1> QED BY <1>1, <1>2, <1>3, <1>4, StepIs

\* The predicate is about the bits the property speaks of.
LEMMA BitsAnsweredIs ==
    ASSUME BitsInv
    PROVE  BitwiseExact
<1>0. l \in Values /\ r \in Values /\ ctx \in Context
  BY SuppliedValues DEF CanonicalInv, BitsInv
<1>1. Width \in Nat /\ LeftWidth \in Nat /\ Mx(l.width, r.width) \in Nat
  BY <1>0, RegionSizes, ValueParts, Wider
<1>2. \A n \in Nat : \A i : i \in 0 .. n - 1 <=> i \in Nat /\ i < n
  OBVIOUS
<1>3. \A v, w, s : Region(v, w, s) => v.width = w /\ v.signed = s
  BY DEF Region
<1>9. BitsAnswered(op, arg, out)
  BY DEF BitsInv
<1>4. op = "&" => Is(Width, Signed, LAMBDA i : AndBit(Ext(l, Signed, i), Ext(r, Signed, i)))
  BY <1>1, <1>2, <1>3, <1>9 DEF BitsAnswered, Is, TableOf, Bitwise
<1>5. op = "|" => Is(Width, Signed, LAMBDA i : OrBit(Ext(l, Signed, i), Ext(r, Signed, i)))
  BY <1>1, <1>2, <1>3, <1>9 DEF BitsAnswered, Is, TableOf, Bitwise
<1>6. op = "^" => Is(Width, Signed, LAMBDA i : XorBit(Ext(l, Signed, i), Ext(r, Signed, i)))
  BY <1>1, <1>2, <1>3, <1>9 DEF BitsAnswered, Is, TableOf, Bitwise
<1>7. op = "^~" => Is(Width, Signed, LAMBDA i : NotBit(XorBit(Ext(l, Signed, i), Ext(r, Signed, i))))
  BY <1>1, <1>2, <1>3, <1>9 DEF BitsAnswered, Is, TableOf, Bitwise
<1>8. op = "~" => Is(LeftWidth, LeftSigned, LAMBDA i : NotBit(Ext(l, LeftSigned, i)))
  BY <1>1, <1>2, <1>3, <1>9 DEF BitsAnswered, Is
<1>10. op = "?:" => Is(Width, Signed, LAMBDA i :
              CASE "1" \in BitSet(arg) -> Ext(l, Signed, i)
                [] BitSet(arg) \subseteq {"0"} -> Ext(r, Signed, i)
                [] OTHER -> MergeBit(Ext(l, Signed, i), Ext(r, Signed, i)))
  <2> SUFFICES ASSUME op = "?:"
               PROVE  Is(Width, Signed, LAMBDA i :
              CASE "1" \in BitSet(arg) -> Ext(l, Signed, i)
                [] BitSet(arg) \subseteq {"0"} -> Ext(r, Signed, i)
                [] OTHER -> MergeBit(Ext(l, Signed, i), Ext(r, Signed, i)))
    OBVIOUS
  <2>0. ~("1" \in BitSet(arg) /\ BitSet(arg) \subseteq {"0"})
    OBVIOUS
  <2>1. out.width = Width /\ out.signed = Signed
    BY <1>3, <1>9 DEF BitsAnswered
  <2>2. \A i \in Nat : i < Width =>
           BitOf(out, i) = IF "1" \in BitSet(arg) THEN Ext(l, Signed, i)
                           ELSE IF BitSet(arg) \subseteq {"0"} THEN Ext(r, Signed, i)
                           ELSE MergeBit(Ext(l, Signed, i), Ext(r, Signed, i))
    BY <1>9 DEF BitsAnswered
  <2>3. CASE "1" \in BitSet(arg)
    BY <1>1, <1>2, <2>0, <2>1, <2>2, <2>3 DEF Is
  <2>4. CASE BitSet(arg) \subseteq {"0"}
    BY <1>1, <1>2, <2>0, <2>1, <2>2, <2>4 DEF Is
  <2>5. CASE "1" \notin BitSet(arg) /\ ~(BitSet(arg) \subseteq {"0"})
    BY <1>1, <1>2, <2>0, <2>1, <2>2, <2>5 DEF Is
  <2> QED BY <2>3, <2>4, <2>5
<1>11. op \in Wired => Is(Mx(l.width, r.width), FALSE, LAMBDA i :
              NetBit(op, {Ext(l, l.signed, i), Ext(r, r.signed, i), Ext(arg, arg.signed, i)}))
  BY <1>1, <1>2, <1>3, <1>9 DEF BitsAnswered, Is
<1> QED BY <1>4, <1>5, <1>6, <1>7, <1>8, <1>10, <1>11 DEF BitwiseExact, NetBit, Is

\* The bitwise operators, ?: and the resolution of nets are exact at every width
\* (bitwise, bit_not, merge_x, resolve_md_group).
THEOREM BitwiseExactHolds == Spec => []BitwiseExact
<1>1. Init => BitsInv
  <2> SUFFICES ASSUME Init PROVE BitsInv
    OBVIOUS
  <2>1. CanonicalInv
    BY SuppliedValues DEF Init, CanonicalInv
  <2>2. op \notin Bitwise /\ op # "~" /\ op # "?:" /\ op \notin Wired
    BY NoBits DEF Init
  <2> QED BY <2>1, <2>2 DEF BitsInv, BitsAnswered
<1>2. BitsInv /\ [Next]_vars => BitsInv'
  <2> SUFFICES ASSUME BitsInv, [Next]_vars PROVE BitsInv'
    OBVIOUS
  <2>1. CASE Next
    <3>1. CanonicalInv' /\ UNCHANGED <<l, r, ctx>>
      BY <2>1, StepAnswers DEF BitsInv, CanonicalInv
    <3>2. BitsAnswered(op', arg', out')
      BY <2>1, StepBits DEF BitsInv
    <3>3. BitsAnswered(op, arg, out)'
      BY <3>1, <3>2 DEF BitsAnswered, Width, Signed, LeftWidth, LeftSigned
    <3> QED BY <3>1, <3>3 DEF BitsInv
  <2>2. CASE UNCHANGED vars
    BY <2>2 DEF vars, BitsInv, CanonicalInv, BitsAnswered, Width, Signed, LeftWidth, LeftSigned
  <2> QED BY <2>1, <2>2
<1> QED BY <1>1, <1>2, BitsAnsweredIs, PTL DEF Spec

\* The unsigned number of a value is the sum of the powers of its ones.
LEMMA UnsignedIs ==
    ASSUME NEW v \in Values
    PROVE  /\ IntOf(v, FALSE) = SumSet(Powers(OnesOf(v))) /\ IntOf(v, FALSE) \in Nat
           /\ \A i \in OnesOf(v) : 2 ^ i <= IntOf(v, FALSE)
<1> DEFINE B == OnesOf(v)
<1>1. B \in SUBSET Nat /\ IsFiniteSet(B)
  BY CountsOnes DEF OnesOf
<1>2. IntOf(v, FALSE) = SumSet(Powers(B)) - 0
  BY DEF IntOf, Powers, OnesOf
<1> HIDE DEF B
<1>3. SumSet(Powers(B)) \in Nat /\ \A b \in B : 2 ^ b <= SumSet(Powers(B))
  BY <1>1, PowerSum
<1>4. IntOf(v, FALSE) = SumSet(Powers(B))
  <2> DEFINE n == SumSet(Powers(B))
  <2>1. n \in Nat
    BY <1>3
  <2> HIDE DEF n
  <2>2. n - 0 = n
    BY <2>1
  <2> QED BY <1>2, <2>2 DEF n
<1> QED BY <1>3, <1>4 DEF B

\* A known value is its word 0 when the others are empty, and past every number
\* of a word when they are not (to_u64).
LEMMA OffsetIs ==
    ASSUME NEW v \in Values
    PROVE  /\ IntOf(v, FALSE) \in Nat /\ (has_xz(v) <=> ~Known(v))
           /\ has_xz(v) => to_u64(v) = -1
           /\ ~has_xz(v) /\ to_u64(v) = -1 => IntOf(v, FALSE) >= 2 ^ WordBits
           /\ ~has_xz(v) /\ to_u64(v) # -1 => to_u64(v) \in Nat /\ IntOf(v, FALSE) = to_u64(v)
<1> DEFINE off == IntOf(v, FALSE)
<1>1. /\ v.width \in Nat /\ v.val \in PlanesOf(v.width)
      /\ v.val \in [Index(v.width) -> Word] /\ Index(v.width) \subseteq Nat /\ 0 \in Index(v.width)
  <2>1. v.width \in Nat
    BY ValueParts
  <2>2. Index(v.width) \subseteq Nat /\ 0 \in Index(v.width)
    BY <2>1, LastWord DEF Index
  <2> QED BY <2>1, <2>2, ValueParts DEF PlanesOf
<1>2. has_xz(v) <=> ~Known(v)
  <2>1. \A i : BitOf(v, i) \in Four
    BY StateType DEF BitOf
  <2>2. HasUnknown(v) <=> \E i \in 0 .. v.width - 1 : BitOf(v, i) \notin Defined
    BY <1>1 DEF HasUnknown
  <2>3. HasUnknown(v) <=> ~Known(v)
    BY <2>2 DEF Known, BitSet
  <2> QED BY <2>3, UnknownIsUnknown
<1>3. off \in Nat /\ off = SumSet(Powers(OnesOf(v))) /\ \A i \in OnesOf(v) : 2 ^ i <= off
  BY UnsignedIs
<1>4. ~has_xz(v) => \A k \in Index(v.width), b \in Bit :
         b \in v.val[k] <=> k * WordBits + b \in OnesOf(v)
  <2> SUFFICES ASSUME ~has_xz(v), NEW k \in Index(v.width), NEW b \in Bit
               PROVE  b \in v.val[k] <=> k * WordBits + b \in OnesOf(v)
    OBVIOUS
  <2> DEFINE i == k * WordBits + b
  <2>1. k \in Nat /\ i \in Nat /\ BitOf(v, i) = State(Quads(v, k), b)
    BY <1>1, PlaceIs, BitAtPlace
  <2>2. b \in v.val[k] <=> b \in Quads(v, k).val
    BY <1>1 DEF Quads, At
  <2>3. i < v.width \/ ~Has(v.val, i)
    <3> HIDE DEF i
    <3> QED BY <2>1, BitBeyond
  <2>4. Has(v.val, i) <=> b \in v.val[k]
    <3>1. i \div WordBits = k /\ i % WordBits = b
      BY <2>1, PlaceIs
    <3> HIDE DEF i
    <3> QED BY <1>1, <3>1 DEF Has, At
  <2>5. i < v.width => BitOf(v, i) \in Defined
    <3> HIDE DEF i
    <3> QED BY <2>1, UnknownIsUnknown DEF HasUnknown
  <2>6. i < v.width => (b \in v.val[k] <=> BitOf(v, i) = "1")
    <3> HIDE DEF i
    <3> QED BY <2>1, <2>2, <2>5 DEF State, Defined
  <2>7. i \in OnesOf(v) <=> i < v.width /\ BitOf(v, i) = "1"
    <3> HIDE DEF i
    <3> QED BY <1>1, <2>1 DEF OnesOf
  <2> HIDE DEF i
  <2>8. b \in v.val[k] <=> i \in OnesOf(v)
    BY <2>3, <2>4, <2>6, <2>7
  <2> QED BY <2>8 DEF i
<1>5. DOMAIN v.val = Index(v.width)
  BY <1>1
<1> HIDE DEF off
<1>6. CASE has_xz(v)
  BY <1>2, <1>3, <1>6 DEF to_u64, off
<1>7. CASE ~has_xz(v) /\ \E k \in DOMAIN v.val : k > 0 /\ v.val[k] # {}
  <2>0. PICK k \in Index(v.width) : k > 0 /\ v.val[k] # {}
    BY <1>5, <1>7
  <2>1. PICK b : b \in v.val[k]
    BY <2>0
  <2>2. b \in Bit /\ k \in Nat /\ k * WordBits + b \in OnesOf(v)
    BY <1>1, <1>4, <1>7, <2>0, <2>1 DEF Word
  <2>3. k * WordBits + b \in Nat /\ WordBits \in Nat /\ WordBits <= k * WordBits + b
    <3>1. 0 * WordBits + WordBits <= k * WordBits
      BY <2>0, <2>2, WordOrder
    <3>2. k * WordBits \in Nat /\ b \in Nat
      BY <2>2, WordOrder DEF Bit
    <3> QED BY <3>1, <3>2, WordBitsAssumption
  <2> DEFINE i == k * WordBits + b
  <2> HIDE DEF i
  <2>4. i \in Nat /\ WordBits \in Nat /\ WordBits <= i /\ i \in OnesOf(v)
    BY <2>2, <2>3 DEF i
  <2>5. 2 ^ WordBits <= 2 ^ i /\ 2 ^ i <= off /\ 2 ^ i \in Nat /\ 2 ^ WordBits \in Nat
    BY <1>3, <2>4, PowerOrder, PowerOfTwo
  <2>6. off >= 2 ^ WordBits
    BY <1>3, <2>5
  <2>7. to_u64(v) = -1
    BY <1>7 DEF to_u64
  <2> QED BY <1>2, <1>3, <1>7, <2>6, <2>7 DEF off
<1>8. CASE ~has_xz(v) /\ ~ \E k \in DOMAIN v.val : k > 0 /\ v.val[k] # {}
  <2>1. to_u64(v) = Num(v.val[0])
    BY <1>1, <1>5, <1>8 DEF to_u64, At
  <2>2. v.val[0] = OnesOf(v)
    <3>1. ASSUME NEW b, b \in v.val[0] PROVE b \in OnesOf(v)
      <4>1. b \in Bit /\ 0 * WordBits + b \in OnesOf(v)
        BY <1>1, <1>4, <1>8, <3>1 DEF Word
      <4>2. 0 * WordBits + b = b
        BY <4>1, WordBitsAssumption DEF Bit
      <4> QED BY <4>1, <4>2
    <3>2. ASSUME NEW i, i \in OnesOf(v) PROVE i \in v.val[0]
      <4> DEFINE k == i \div WordBits  b == i % WordBits
      <4>1. i \in Nat /\ i < v.width
        BY <1>1, <3>2 DEF OnesOf
      <4>2. k \in Nat /\ b \in Bit /\ i = k * WordBits + b /\ k \in Index(v.width)
        BY <1>1, <4>1, PlaceOf, BelowIsIn
      <4> HIDE DEF k, b
      <4>3. b \in v.val[k]
        BY <1>4, <1>8, <3>2, <4>2
      <4>4. k = 0
        BY <1>5, <1>8, <4>2, <4>3
      <4>5. i = b
        BY <4>2, <4>4, WordBitsAssumption DEF Bit
      <4> QED BY <4>3, <4>4, <4>5
    <3> QED BY <3>1, <3>2
  <2>3. Num(v.val[0]) \in Nat /\ Num(v.val[0]) = SumSet(Powers(v.val[0]))
    BY <1>1, NumType
  <2>4. off = to_u64(v) /\ to_u64(v) \in Nat
    BY <1>3, <2>1, <2>2, <2>3
  <2>5. to_u64(v) # -1
    BY <2>4
  <2> QED BY <1>2, <1>3, <1>8, <2>4, <2>5 DEF off
<1> QED BY <1>6, <1>7, <1>8

\* What a shift reads of its amount: the number itself, or, past a word, one that
\* moves every bit out.
LEMMA AmountIs ==
    ASSUME NEW q \in Values, NEW w \in Nat, w < 2 ^ WordBits, Known(q)
    PROVE  /\ ~has_xz(q) /\ IntOf(q, FALSE) \in Nat /\ Amount(q) \in Nat
           /\ Amount(q) = IntOf(q, FALSE) \/ (w <= Amount(q) /\ w <= IntOf(q, FALSE))
<1> DEFINE top == 2 ^ WordBits
           n == IntOf(q, FALSE)
           u == to_u64(q)
<1>1. top \in Nat \ {0} /\ w < top
  BY PowerOfTwo, WordBitsAssumption
<1>2. /\ n \in Nat /\ ~has_xz(q)
      /\ u = -1 => n >= top
      /\ u # -1 => u \in Nat /\ n = u
  BY OffsetIs
<1>3. Amount(q) = IF u = -1 THEN top - 1 ELSE u
  BY DEF Amount
<1> HIDE DEF top, n, u
<1>4. CASE u = -1
  <2>1. Amount(q) = top - 1 /\ n >= top
    BY <1>2, <1>3, <1>4
  <2>2. Amount(q) \in Nat /\ w <= Amount(q) /\ w <= n
    BY <1>1, <1>2, <2>1
  <2> QED BY <1>2, <2>2 DEF n
<1>5. CASE u # -1
  <2>1. u \in Nat /\ n = u /\ Amount(q) = u
    BY <1>2, <1>3, <1>5
  <2> QED BY <1>2, <2>1 DEF n
<1> QED BY <1>4, <1>5

\* A left shift, in a region no wider than a word can count.
LEMMA LeftShifted ==
    ASSUME NEW p \in Values, NEW q \in Values, NEW w \in Nat, NEW s \in BOOLEAN, Region(p, w, s),
           w < 2 ^ WordBits
    PROVE  LET v == resize_keep_sign(shift_left(p, q), w, s)
           IN  /\ Region(v, w, s)
               /\ \A i \in Nat : i < w =>
                     BitOf(v, i) = IF ~Known(q) THEN "x"
                                   ELSE IF i < IntOf(q, FALSE) THEN "0" ELSE BitOf(p, i - IntOf(q, FALSE))
<1> DEFINE off == IntOf(q, FALSE)
           amt == Amount(q)
           grown == Mx(Mn(w + amt, GrowCap), w)
           u == shift_left(p, q)
           v == resize_keep_sign(u, w, s)
<1>1. p.width = w /\ p.signed = s
  BY DEF Region
<1>2. u \in Values /\ u.width >= w /\ u.width \in Nat
  BY <1>1, ShiftType, ValueParts
<1>3. u = IF has_xz(q) THEN xs(w, s) ELSE shl_grow(p, amt, grown)
  BY <1>1 DEF shift_left
<1>4. amt \in Nat
  BY AmountType
<1>5. grown \in Nat /\ w <= grown
  BY <1>4, BoundsAssumption DEF Mx, Mn
<1> HIDE DEF grown, amt, u
<1>6. /\ Region(v, w, s)
      /\ \A i \in Nat : i < w => BitOf(v, i) = Ext(u, u.signed /\ s, i)
  BY <1>2, ContextExtends DEF Region
<1>7. \A i \in Nat : i < w => BitOf(v, i) = BitOf(u, i)
  <2>1. \A i \in Nat : i < w => i < u.width
    BY <1>2
  <2> HIDE DEF v
  <2> QED BY <1>6, <2>1 DEF Ext
<1> HIDE DEF v
<1>8. CASE ~Known(q)
  <2>1. has_xz(q)
    BY <1>8, OffsetIs
  <2>2. \A i \in Nat : i < w => BitOf(u, i) = "x"
    BY <1>3, <2>1, FilledBits
  <2> QED BY <1>6, <1>7, <1>8, <2>2 DEF v, u
<1>9. CASE Known(q)
  <2>1. ~has_xz(q) /\ off \in Nat /\ (amt = off \/ (w <= amt /\ w <= off))
    BY <1>9, AmountIs DEF amt
  <2>2. \A i \in Nat : i < grown => BitOf(u, i) = IF i < amt THEN "0" ELSE BitOf(p, i - amt)
    <3>1. u = shl_grow(p, amt, grown)
      BY <1>3, <2>1
    <3>2. \A i \in Nat : i < grown =>
             BitOf(shl_grow(p, amt, grown), i) = IF i < amt THEN "0" ELSE BitOf(p, i - amt)
      BY <1>4, <1>5, ShiftLeftMoves
    <3> QED BY <3>1, <3>2
  <2> HIDE DEF off
  <2>3. ASSUME NEW i \in Nat, i < w
        PROVE  BitOf(v, i) = IF i < off THEN "0" ELSE BitOf(p, i - off)
    <3>1. BitOf(v, i) = IF i < amt THEN "0" ELSE BitOf(p, i - amt)
      BY <1>5, <1>7, <2>2, <2>3
    <3>2. CASE amt = off
      BY <3>1, <3>2
    <3>3. CASE w <= amt /\ w <= off
      <4>1. i < amt /\ i < off
        BY <1>4, <2>1, <2>3, <3>3
      <4> QED BY <3>1, <4>1
    <3> QED BY <2>1, <3>2, <3>3
  <2> QED BY <1>6, <1>9, <2>3 DEF v, u, off
<1> QED BY <1>8, <1>9

\* v holds the bits of p, q places down, and fill above them.
MovesRight(v, p, q, w, fill) ==
    \A i \in Nat : i < w =>
        BitOf(v, i) = IF ~Known(q) THEN "x"
                      ELSE IF i + IntOf(q, FALSE) < w THEN BitOf(p, i + IntOf(q, FALSE)) ELSE fill

\* A right shift moves the bits down.
LEMMA RightMoves ==
    ASSUME NEW p \in Values, NEW q \in Values, NEW w \in Nat, NEW s \in BOOLEAN, Region(p, w, s),
           w < 2 ^ WordBits, NEW t \in BOOLEAN,
           NEW fill, fill = IF t THEN BitOf(p, w - 1) ELSE "0"
    PROVE  Region(shift_right(p, q, t), w, s) /\ MovesRight(shift_right(p, q, t), p, q, w, fill)
<1> DEFINE off == IntOf(q, FALSE)
           amt == Amount(q)
           f == IF t THEN get_vu(p, w - 1) ELSE [val |-> FALSE, unk |-> FALSE]
           v == shift_right(p, q, t)
<1>1. p.width = w /\ p.signed = s
  BY DEF Region
<1>2. Region(v, w, s)
  BY <1>1, ShiftType
<1>3. v = IF has_xz(q) THEN xs(w, s) ELSE shr_fill(p, amt, w, f)
  BY <1>1 DEF shift_right
<1>4. amt \in Nat
  BY AmountType
<1>5. f \in [val : BOOLEAN, unk : BOOLEAN]
  BY DEF get_vu
<1>6. fill = Symbol(f.val, f.unk)
  <2>1. CASE t
    BY <2>1, BitOfPlanes
  <2>2. CASE ~t
    BY <2>2 DEF Symbol
  <2> QED BY <2>1, <2>2
<1> HIDE DEF amt, f, v
<1>8. CASE ~Known(q)
  <2>1. has_xz(q)
    BY <1>8, OffsetIs
  <2>2. \A i \in Nat : i < w => BitOf(v, i) = "x"
    BY <1>3, <2>1, FilledBits
  <2> QED BY <1>2, <1>8, <2>2 DEF v, MovesRight
<1>9. CASE Known(q)
  <2>1. ~has_xz(q) /\ off \in Nat /\ (amt = off \/ (w <= amt /\ w <= off))
    BY <1>9, AmountIs DEF amt
  <2>2. \A i \in Nat : i < w => BitOf(v, i) = IF i + amt < w THEN BitOf(p, i + amt) ELSE fill
    <3>1. \A i \in Nat : i < p.width => BitOf(shr_fill(p, amt, p.width, f), i) =
             IF i + amt < p.width THEN BitOf(p, i + amt) ELSE Symbol(f.val, f.unk)
      BY <1>4, <1>5, ShiftRightMoves
    <3> QED BY <1>1, <1>3, <1>6, <2>1, <3>1
  <2> HIDE DEF off
  <2>3. ASSUME NEW i \in Nat, i < w
        PROVE  BitOf(v, i) = IF i + off < w THEN BitOf(p, i + off) ELSE fill
    <3>1. BitOf(v, i) = IF i + amt < w THEN BitOf(p, i + amt) ELSE fill
      BY <2>2, <2>3
    <3>2. CASE amt = off
      BY <3>1, <3>2
    <3>3. CASE w <= amt /\ w <= off
      <4>1. ~(i + amt < w) /\ ~(i + off < w)
        BY <1>4, <2>1, <2>3, <3>3
      <4> QED BY <3>1, <4>1
    <3> QED BY <2>1, <3>2, <3>3
  <2> QED BY <1>2, <1>9, <2>3 DEF v, off, MovesRight
<1> QED BY <1>8, <1>9

\* v is l with another sign.
Relabels(o, v) ==
    LET s == (o = "$signed") /\ ctx.signed
    IN  /\ Region(v, LeftWidth, s)
        /\ \A i \in Nat : i < LeftWidth => BitOf(v, i) = Ext(l, s, i)

\* v is l, shifted by r.
ShiftedBy(o, v) ==
    LET w == LeftWidth
        s == LeftSigned
        off == IntOf(r, FALSE)
    IN  /\ Region(v, w, s)
        /\ \A i \in Nat : i < w =>
              BitOf(v, i) = IF ~Known(r) THEN "x"
                            ELSE IF o = "<<" THEN IF i < off THEN "0" ELSE Ext(l, s, i - off)
                            ELSE IF i + off < w THEN Ext(l, s, i + off)
                            ELSE IF o = ">>>" /\ s THEN Ext(l, s, w - 1) ELSE "0"

\* $signed and $unsigned.
LEMMA SignAnswer ==
    ASSUME l \in Values, r \in Values, ctx \in Context, NEW o \in Signing
    PROVE  Relabels(o, eval(Source(o, 0), ctx))
<1> DEFINE v == eval(Source(o, 0), ctx)
           w == LeftWidth
           s == (o = "$signed") /\ ctx.signed
<1>1. w \in Nat /\ s \in BOOLEAN /\ l.width <= w /\ l.width \in Nat
  BY RegionSizes, ValueParts DEF Context
<1>2. o \in Unary /\ o \in Operators \ {"leaf"} /\ o # "?:" /\ o \notin Selects /\ o # "{n{}}"
  BY DEF Signing, Unary, Operators, Selects
<1>3. PICK node, A, X : OneNode(o, 0, 0, node, A, X, v)
  BY <1>2, Operates
<1> HIDE DEF v
<1>4. Evals(node, A, X, w, s, v)
  <2>1. RegionWidth(node, A, ctx) = w /\ RegionSigned(node, A, ctx) = s
    BY <1>2, <1>3, Regions
  <2> HIDE DEF w, s
  <2> QED BY <1>3, <2>1 DEF OneNode
<1>5. node.op = o /\ Given(A, X, 1, l)
  BY <1>2, <1>3 DEF OneNode
<1> HIDE DEF w, s
<1>6. X[1][A[1]] = l
  BY <1>5, ReadsOwn DEF Given
<1> DEFINE u == [l EXCEPT !.signed = s]
<1>7. v = resize_keep_sign(u, w, s)
  BY <1>4, <1>5, <1>6 DEF Evals
<1>8. u \in Values /\ u.signed = s /\ u.width = l.width /\ \A i : BitOf(u, i) = BitOf(l, i)
  BY <1>1, Resigned, SMTT(30)
<1> HIDE DEF u
<1>9. /\ Region(v, w, s)
      /\ \A i \in Nat : i < w => BitOf(v, i) = Ext(u, u.signed /\ s, i)
  BY <1>1, <1>7, <1>8, ContextExtends DEF Region
<1>10. (u.signed /\ s) = s
  BY <1>1, <1>8
<1>11. \A i : Ext(u, s, i) = Ext(l, s, i)
  BY <1>8 DEF Ext
<1> QED BY <1>9, <1>10, <1>11 DEF v, w, s, Relabels

\* Shifts.
LEMMA ShiftAnswer ==
    ASSUME l \in Values, r \in Values, ctx \in Context, LeftWidth < 2 ^ WordBits, NEW o \in Shifts
    PROVE  ShiftedBy(o, eval(Source(o, 0), ctx))
<1> DEFINE v == eval(Source(o, 0), ctx)
           w == LeftWidth
           s == LeftSigned
           off == IntOf(r, FALSE)
<1>1. w \in Nat /\ s \in BOOLEAN /\ l.width <= w /\ (l.signed /\ s) = s /\ w < 2 ^ WordBits
  BY RegionSizes
<1>2. o \in Binary /\ o \in Operators \ {"leaf"} /\ o # "?:" /\ o \notin Selects /\ o # "{n{}}"
      /\ o \in {"<<", ">>", ">>>"}
  BY DEF Shifts, Binary, Operators, Selects
<1>3. PICK node, A, X : OneNode(o, 0, 0, node, A, X, v)
  BY <1>2, Operates
<1> HIDE DEF v
<1>4. Evals(node, A, X, w, s, v)
  <2>1. RegionWidth(node, A, ctx) = w /\ RegionSigned(node, A, ctx) = s
    BY <1>2, <1>3, Regions
  <2> HIDE DEF w, s
  <2> QED BY <1>3, <2>1 DEF OneNode
<1>5. node.op = o /\ Given(A, X, 1, l) /\ Given(A, X, 2, r)
  BY <1>2, <1>3 DEF OneNode
<1> HIDE DEF w, s
<1>6. X[2][A[2]] = r
  BY <1>5, ReadsOwn DEF Given
<1> DEFINE p == X[1][Ctx(w, s)]
<1>7. /\ o = "<<"  => v = resize_keep_sign(shift_left(p, r), w, s)
      /\ o = ">>"  => v = shift_right(p, r, FALSE)
      /\ o = ">>>" => v = resize_keep_sign(shift_right(p, r, s), w, s)
  BY <1>4, <1>5, <1>6 DEF Evals
<1>8. Region(p, w, s) /\ \A i \in Nat : i < w => BitOf(p, i) = Ext(l, s, i)
  BY <1>1, <1>5, InRegion DEF Given
<1> HIDE DEF p
<1>9. p \in Values /\ off \in Nat
  BY <1>8, OffsetIs DEF Region
<1>14. w \in Nat /\ s \in BOOLEAN /\ w < 2 ^ WordBits
  BY <1>1
<1>16. p \in Values
  BY <1>9
<1>15. Region(p, w, s)
  BY <1>8
<1> HIDE DEF off
<1> SUFFICES /\ Region(v, w, s)
             /\ \A i \in Nat : i < w =>
                     BitOf(v, i) = IF ~Known(r) THEN "x"
                                   ELSE IF o = "<<" THEN IF i < off THEN "0" ELSE Ext(l, s, i - off)
                                   ELSE IF i + off < w THEN Ext(l, s, i + off)
                                   ELSE IF o = ">>>" /\ s THEN Ext(l, s, w - 1) ELSE "0"
  BY DEF v, w, s, off, ShiftedBy
<1>10. CASE o = "<<"
  <2>1. /\ Region(v, w, s)
        /\ \A i \in Nat : i < w => BitOf(v, i) = IF ~Known(r) THEN "x"
                                                 ELSE IF i < off THEN "0" ELSE BitOf(p, i - off)
    <3> DEFINE u == resize_keep_sign(shift_left(p, r), w, s)
    <3>1. Region(u, w, s)
      BY <1>14, <1>15, <1>16, LeftShifted
    <3>3. \A i \in Nat : i < w => BitOf(u, i) = IF ~Known(r) THEN "x"
                                                 ELSE IF i < off THEN "0" ELSE BitOf(p, i - off)
      BY <1>14, <1>15, <1>16, LeftShifted, ZenonT(40) DEF off
    <3>2. v = u
      BY <1>7, <1>10
    <3> HIDE DEF u
    <3> QED BY <3>1, <3>2, <3>3
  <2>2. ASSUME NEW i \in Nat, i < w, ~(i < off) PROVE BitOf(p, i - off) = Ext(l, s, i - off)
    <3>1. i - off \in Nat /\ i - off < w
      BY <1>1, <1>9, <2>2
    <3> QED BY <1>8, <3>1
  <2> QED BY <1>10, <2>1, <2>2
<1>11. ASSUME NEW t \in BOOLEAN
       PROVE  LET u == shift_right(p, r, t)
              IN  /\ Region(u, w, s)
                  /\ \A i \in Nat : i < w =>
                        BitOf(u, i) = IF ~Known(r) THEN "x" ELSE IF i + off < w THEN Ext(l, s, i + off)
                                      ELSE IF t THEN Ext(l, s, w - 1) ELSE "0"
  <2> DEFINE u == shift_right(p, r, t)
             fill == IF t THEN BitOf(p, w - 1) ELSE "0"
  <2>0. /\ Region(u, w, s)
        /\ \A i \in Nat : i < w =>
              BitOf(u, i) = IF ~Known(r) THEN "x" ELSE IF i + IntOf(r, FALSE) < w THEN BitOf(p, i + IntOf(r, FALSE))
                            ELSE fill
    <3>1. fill = IF t THEN BitOf(p, w - 1) ELSE "0"
      OBVIOUS
    <3> HIDE DEF fill
    <3>2. Region(u, w, s)
      BY <1>14, <1>15, <1>16, <3>1, RightMoves
    <3>3. MovesRight(u, p, r, w, fill)
      BY <1>14, <1>15, <1>16, <3>1, RightMoves
    <3> HIDE DEF u
    <3> QED BY <3>2, <3>3 DEF MovesRight
  <2> HIDE DEF u, fill
  <2>1. \A i \in Nat : i < w =>
              BitOf(u, i) = IF ~Known(r) THEN "x" ELSE IF i + off < w THEN BitOf(p, i + off) ELSE fill
    BY <2>0 DEF off
  <2>2. \A i \in Nat : i < w => fill = IF t THEN Ext(l, s, w - 1) ELSE "0"
    <3>1. ASSUME NEW i \in Nat, i < w PROVE BitOf(p, w - 1) = Ext(l, s, w - 1)
      <4>1. w - 1 \in Nat /\ w - 1 < w
        BY <1>14, <3>1
      <4> QED BY <1>8, <4>1
    <3> QED BY <3>1 DEF fill
  <2>3. \A i \in Nat : i + off < w => BitOf(p, i + off) = Ext(l, s, i + off)
    BY <1>8, <1>9
  <2> QED BY <2>0, <2>1, <2>2, <2>3 DEF u
<1>12. CASE o = ">>"
  <2>1. v = shift_right(p, r, FALSE)
    BY <1>7, <1>12
  <2>2. /\ Region(v, w, s)
        /\ \A i \in Nat : i < w =>
              BitOf(v, i) = IF ~Known(r) THEN "x" ELSE IF i + off < w THEN Ext(l, s, i + off) ELSE "0"
    BY <1>11, <2>1
  <2> QED BY <1>12, <2>2
<1>13. CASE o = ">>>"
  <2> DEFINE u == shift_right(p, r, s)
  <2>1. /\ Region(u, w, s)
        /\ \A i \in Nat : i < w =>
              BitOf(u, i) = IF ~Known(r) THEN "x" ELSE IF i + off < w THEN Ext(l, s, i + off)
                            ELSE IF s THEN Ext(l, s, w - 1) ELSE "0"
    BY <1>1, <1>11
  <2>2. v = resize_keep_sign(u, w, s)
    BY <1>7, <1>13
  <2> HIDE DEF u
  <2>3. Region(v, w, s) /\ \A i \in Nat : i < w => BitOf(v, i) = BitOf(u, i)
    <3>1. u \in Values /\ u.width = w
      BY <2>1 DEF Region
    <3> QED BY <1>14, <2>2, <3>1, SameRegion
  <2> QED BY <1>13, <2>1, <2>3
<1> QED BY <1>2, <1>10, <1>12, <1>13

\* What a select reads: the bit at its place, or x where it leaves the value and
\* under an unknown offset.
Reading(v, q, w, kind, i) ==
    LET lsb == select_lsb(kind, IntOf(q, FALSE), w)
    IN  IF Known(q) /\ lsb + i \in 0 .. v.width - 1 THEN BitOf(v, lsb + i) ELSE "x"

\* A select reads the bits at its place, whatever the offset is.
LEMMA SelectedBits ==
    ASSUME NEW v \in Values, NEW q \in Values, NEW w \in Nat \ {0}, NEW kind \in Selects,
           v.width + w <= 2 ^ WordBits + 1, v.width + w <= MaxIndex
    PROVE  LET res == eval_select(v, q, w, kind)
           IN  /\ res \in Values /\ res.width = w
               /\ \A i \in Nat : i < w => BitOf(res, i) = Reading(v, q, w, kind, i)
<1> DEFINE res == eval_select(v, q, w, kind)
           n == IntOf(q, FALSE)
           u == to_u64(q)
           lsb == select_lsb(kind, n, w)
           top == 2 ^ WordBits
<1>1. top \in Nat /\ MaxIndex \in Nat /\ v.width \in Nat
  BY PowerOfTwo, WordBitsAssumption, BoundsAssumption, ValueParts
<1>2. /\ n \in Nat /\ (has_xz(q) <=> ~Known(q))
      /\ has_xz(q) => u = -1
      /\ ~has_xz(q) /\ u = -1 => n >= top
      /\ ~has_xz(q) /\ u # -1 => u \in Nat /\ n = u
  BY OffsetIs
<1>3. u = -1 \/ u > MaxIndex => res = xs(w, FALSE)
  BY DEF eval_select
<1>4. xs(w, FALSE) \in Values /\ xs(w, FALSE).width = w /\ \A i \in Nat : i < w => BitOf(xs(w, FALSE), i) = "x"
  BY FilledBits
<1>5. \A i \in Nat : Reading(v, q, w, kind, i) =
         IF Known(q) /\ lsb + i \in 0 .. v.width - 1 THEN BitOf(v, lsb + i) ELSE "x"
  BY DEF Reading
<1> HIDE DEF top, n, u
<1>6. n - w + 1 <= lsb /\ lsb \in Int
  BY <1>2 DEF select_lsb
<1>8. ASSUME u = -1 \/ u > MaxIndex, NEW i \in Nat, i < w
      PROVE  BitOf(res, i) = Reading(v, q, w, kind, i)
  <2> HIDE DEF lsb, res
  <2>1. ~Known(q) \/ (n >= top \/ n > MaxIndex)
    BY <1>2, <1>8
  <2>2. ~(Known(q) /\ lsb + i \in 0 .. v.width - 1)
    <3>1. CASE ~Known(q)
      BY <3>1
    <3>2. CASE n >= top \/ n > MaxIndex
      <4>1. lsb + i >= v.width
        BY <1>1, <1>2, <1>6, <1>8, <3>2 DEF top
      <4> QED BY <1>1, <1>6, <4>1
    <3> QED BY <2>1, <3>1, <3>2
  <2>3. BitOf(res, i) = "x"
    BY <1>3, <1>4, <1>8
  <2> QED BY <1>5, <2>2, <2>3
<1>9. CASE u = -1 \/ u > MaxIndex
  <2>1. res \in Values /\ res.width = w
    BY <1>3, <1>4, <1>9
  <2>2. \A i \in Nat : i < w => BitOf(res, i) = Reading(v, q, w, kind, i)
    BY <1>8, <1>9
  <2> QED BY <2>1, <2>2
<1>10. CASE ~(u = -1 \/ u > MaxIndex)
  <2>1. Known(q) /\ u \in Nat /\ n = u /\ ~(u > MaxIndex)
    BY <1>2, <1>10
  <2>2. kind \in {"[i]", "+:", "-:"} /\ w \in Nat
    BY DEF Selects
  <2> DEFINE at == select_lsb(kind, to_u64(q), w)
  <2>3. /\ res \in Values /\ res.width = w
        /\ \A i \in Nat : i < w => BitOf(res, i) = IF at + i \in 0 .. v.width - 1 THEN BitOf(v, at + i) ELSE "x"
    BY <2>1, <2>2, SelectReads DEF u
  <2>4. at = lsb
    BY <2>1 DEF u
  <2> HIDE DEF at, lsb, res
  <2>5. \A i \in Nat : i < w => BitOf(res, i) = Reading(v, q, w, kind, i)
    BY <1>5, <2>1, <2>3, <2>4
  <2> QED BY <2>3, <2>5 DEF res
<1> QED BY <1>9, <1>10

\* x at the width n, extended by zeros to the width of the context.
Widens(v, x, n) ==
    /\ Region(v, Mx(n, ctx.width), FALSE)
    /\ \A i \in Nat : i < Mx(n, ctx.width) => BitOf(v, i) = IF i < n THEN BitOf(x, i) ELSE "0"

\* An answer without a sign, taken to the width of the context.
LEMMA WidensIs ==
    ASSUME ctx \in Context, NEW x \in Values, NEW n \in Nat, x.width = n
    PROVE  Widens(resize_keep_sign(x, Mx(n, ctx.width), FALSE), x, n)
<1>1. ctx.width \in Nat
  BY DEF Context
<1> DEFINE c == ctx.width
           u == resize_keep_sign(x, Mx(n, c), FALSE)
<1>2. c \in Nat
  BY <1>1
<1> HIDE DEF c
<1>3. /\ Region(u, Mx(n, c), FALSE)
      /\ \A i \in Nat : i < Mx(n, c) => BitOf(u, i) = IF i < n THEN BitOf(x, i) ELSE "0"
  BY <1>2, Widened
<1> HIDE DEF u
<1> QED BY <1>3 DEF Widens, u, c

\* The region of a concatenation.
LEMMA ConcatWidth ==
    ASSUME l \in Values, r \in Values, ctx \in Context, NEW o \in Operators \ {"leaf"}, NEW k \in Nat, NEW a,
           o # "?:", o = "{}", NEW node, NEW A, NEW X, NEW res, OneNode(o, k, a, node, A, X, res)
    PROVE  RegionWidth(node, A, ctx) = Mx(l.width + r.width, ctx.width)
<1> DEFINE w == RegionWidth(node, A, ctx)
           s == RegionSigned(node, A, ctx)
<1>1. w = Mx(l.width + r.width, ctx.width) /\ ~s
  BY Regions
<1> QED BY <1>1

\* The region of a replication.
LEMMA ReplicateWidth ==
    ASSUME l \in Values, r \in Values, ctx \in Context, NEW o \in Operators \ {"leaf"}, NEW k \in Nat, NEW a,
           o # "?:", o = "{n{}}", NEW node, NEW A, NEW X, NEW res, OneNode(o, k, a, node, A, X, res)
    PROVE  RegionWidth(node, A, ctx) = Mx(k * l.width, ctx.width)
<1> DEFINE w == RegionWidth(node, A, ctx)
           s == RegionSigned(node, A, ctx)
<1>1. w = Mx(k * l.width, ctx.width) /\ ~s
  BY Regions
<1> QED BY <1>1

\* The region of a part select.
LEMMA PartWidth ==
    ASSUME l \in Values, r \in Values, ctx \in Context, NEW o \in Operators \ {"leaf"}, NEW k \in Nat, NEW a,
           o # "?:", o \in {"+:", "-:"}, NEW node, NEW A, NEW X, NEW res, OneNode(o, k, a, node, A, X, res)
    PROVE  RegionWidth(node, A, ctx) = Mx(k, ctx.width)
<1> DEFINE w == RegionWidth(node, A, ctx)
           s == RegionSigned(node, A, ctx)
<1>1. w = Mx(k, ctx.width) /\ ~s
  BY Regions
<1> QED BY <1>1

\* The region of a bit select.
LEMMA BitWidth ==
    ASSUME l \in Values, r \in Values, ctx \in Context, NEW o \in Operators \ {"leaf"}, NEW k \in Nat, NEW a,
           o # "?:", o = "[i]", NEW node, NEW A, NEW X, NEW res, OneNode(o, k, a, node, A, X, res)
    PROVE  RegionWidth(node, A, ctx) = Mx(1, ctx.width)
<1> DEFINE w == RegionWidth(node, A, ctx)
           s == RegionSigned(node, A, ctx)
<1>1. w = Mx(1, ctx.width) /\ ~s
  BY Regions
<1> QED BY <1>1

\* Concatenation in a context.
LEMMA ConcatAnswer ==
    ASSUME l \in Values, r \in Values, ctx \in Context
    PROVE  Widens(eval(Source("{}", 0), ctx), eval_concat(l, r), l.width + r.width)
<1> DEFINE o == "{}"
           v == eval(Source(o, 0), ctx)
           n == l.width + r.width
           w == Mx(n, ctx.width)
<1>2. o \in Binary /\ o \in Operators \ {"leaf"} /\ o # "?:" /\ o \notin Selects /\ o # "{n{}}"
  BY DEF Binary, Operators, Selects
<1>3. PICK node, A, X : OneNode(o, 0, 0, node, A, X, v)
  BY <1>2, Operates
<1> HIDE DEF v
<1>4. PICK s : Evals(node, A, X, w, s, v)
  <2>1. RegionWidth(node, A, ctx) = w
    BY <1>2, <1>3, ConcatWidth
  <2> HIDE DEF w
  <2> QED BY <1>3, <2>1 DEF OneNode
<1>5. node.op = o /\ Given(A, X, 1, l) /\ Given(A, X, 2, r)
  BY <1>2, <1>3 DEF OneNode
<1>6. X[1][A[1]] = l /\ X[2][A[2]] = r
  BY <1>5, ReadsOwn DEF Given
<1> HIDE DEF w
<1>7. v = resize_keep_sign(eval_concat(l, r), w, FALSE)
  BY <1>4, <1>5, <1>6 DEF Evals
<1>8. eval_concat(l, r) \in Values /\ eval_concat(l, r).width = n /\ n \in Nat
  BY ConcatMoves, ValueParts
<1> QED BY <1>7, <1>8, WidensIs DEF v, w

\* Replication in a context.
LEMMA ReplicateAnswer ==
    ASSUME l \in Values, r \in Values, ctx \in Context, NEW k \in Nat
    PROVE  Widens(eval(Source("{n{}}", k), ctx), eval_replicate(k, l), k * l.width)
<1> DEFINE o == "{n{}}"
           v == eval(Source(o, k), ctx)
           n == k * l.width
           w == Mx(n, ctx.width)
<1>2. o \in Operators \ {"leaf"} /\ o # "?:" /\ o \notin Selects /\ o \in Unary \cup {"{n{}}"}
  BY DEF Operators, Selects
<1>3. PICK node, A, X : OneNode(o, k, k, node, A, X, v)
  BY <1>2, Operates
<1> HIDE DEF v
<1>4. PICK s : Evals(node, A, X, w, s, v)
  <2>1. RegionWidth(node, A, ctx) = w
    <3>1. o \in Operators \ {"leaf"} /\ o # "?:" /\ k \in Nat /\ OneNode(o, k, k, node, A, X, v)
      BY <1>2, <1>3
    <3> QED BY <3>1, ReplicateWidth
  <2> HIDE DEF w
  <2> QED BY <1>3, <2>1 DEF OneNode
<1>5. node.op = o /\ node.k = k /\ Given(A, X, 1, l)
  BY <1>2, <1>3 DEF OneNode
<1>6. X[1][A[1]] = l
  BY <1>5, ReadsOwn DEF Given
<1> HIDE DEF w
<1>7. v = resize_keep_sign(eval_replicate(k, l), w, FALSE)
  BY <1>4, <1>5, <1>6 DEF Evals, Selects
<1>9. l.width \in Nat
  BY ValueParts
<1>8. n \in Nat /\ Region(eval_replicate(k, l), n, FALSE)
  <2>1. n \in Nat
    BY <1>9, Copies
  <2> HIDE DEF n
  <2>2. Region(eval_replicate(k, l), k * l.width, FALSE)
    BY ReplicateMoves
  <2> QED BY <2>1, <2>2 DEF n
<1>10. eval_replicate(k, l) \in Values /\ eval_replicate(k, l).width = n
  BY <1>8 DEF Region
<1> QED BY <1>7, <1>8, <1>10, WidensIs DEF v, w

\* Selects in a context.
LEMMA SelectAnswer ==
    ASSUME l \in Values, r \in Values, ctx \in Context, NEW o \in Selects, NEW a \in Nat \ {0},
           l.width + a <= 2 ^ WordBits + 1, l.width + a <= MaxIndex,
           NEW k, k = IF o = "[i]" THEN 1 ELSE a
    PROVE  Widens(eval(Source(o, a), ctx), eval_select(l, r, k, o), k)
<1> DEFINE v == eval(Source(o, a), ctx)
           w == Mx(k, ctx.width)
<1>1. k \in Nat \ {0} /\ k <= a /\ l.width \in Nat
  BY ValueParts
<1>2. o \in Operators \ {"leaf"} /\ o # "?:" /\ o \in {"[i]", "+:", "-:"} /\ o \in Binary \cup Selects
  BY DEF Operators, Selects
<1>3. PICK node, A, X : OneNode(o, k, a, node, A, X, v)
  BY <1>2, Operates
<1> HIDE DEF v
<1>4. PICK s : Evals(node, A, X, w, s, v)
  <2>1. RegionWidth(node, A, ctx) = w
    <3>1. o = "[i]" => RegionWidth(node, A, ctx) = Mx(1, ctx.width)
      BY <1>1, <1>2, <1>3, BitWidth
    <3>2. o \in {"+:", "-:"} => RegionWidth(node, A, ctx) = Mx(k, ctx.width)
      BY <1>1, <1>2, <1>3, PartWidth
    <3> QED BY <1>2, <3>1, <3>2
  <2> HIDE DEF w
  <2> QED BY <1>3, <2>1 DEF OneNode
<1>5. node.op = o /\ node.k = k /\ Given(A, X, 1, l) /\ Given(A, X, 2, r)
  BY <1>2, <1>3 DEF OneNode
<1>6. X[1][A[1]] = l /\ X[2][A[2]] = r
  BY <1>5, ReadsOwn DEF Given
<1> HIDE DEF w
<1>7. v = resize_keep_sign(eval_select(l, r, k, o), w, FALSE)
  BY <1>4, <1>5, <1>6 DEF Evals
<1>8. eval_select(l, r, k, o) \in Values /\ eval_select(l, r, k, o).width = k
  <2>1. l.width + k <= 2 ^ WordBits + 1 /\ l.width + k <= MaxIndex
    BY <1>1, PowerOfTwo, WordBitsAssumption, BoundsAssumption
  <2> QED BY <1>1, <2>1, SelectedBits
<1> QED BY <1>1, <1>7, <1>8, WidensIs DEF v, w

\* The operators of PlacementExact, apart.
LEMMA Placings ==
    /\ Signing \subseteq Unary /\ Shifts \subseteq Binary /\ "{}" \in Binary
    /\ \A o \in Signing : o \notin Shifts \cup Selects \cup {"{}", "{n{}}", "=[]"}
    /\ \A o \in Shifts : o \notin Signing \cup Selects \cup {"{}", "{n{}}", "=[]"}
    /\ \A o \in Selects : o \notin Signing \cup Shifts \cup {"{}", "{n{}}", "=[]"}
    /\ \A o \in {"{}", "{n{}}", "=[]"} : o \notin Signing \cup Shifts \cup Selects
    /\ \A o \in Wired \cup {"?:", "tree", "none"} :
          o \notin Signing \cup Shifts \cup Selects \cup {"{}", "{n{}}", "=[]"}
    /\ \A o \in Unary \cup Binary : o \notin Selects \cup {"{n{}}", "=[]"}
BY DEF Wired, Unary, Binary, Selects, Bitwise, Arith, Compares, Relational, Equality, CaseEq, CaseZ, Logical,
       Reductions, Signing, Predicates, Shifts

\* A select reads l within the bounds on widths.
InBounds(a) == /\ a \in Nat \ {0}
               /\ l.width + a <= 2 ^ WordBits + 1 /\ l.width + a <= MaxIndex

\* What the operators of PlacementExact answer.
PlaceAnswered(o, a, v) ==
    /\ o \in Signing => Relabels(o, v)
    /\ o \in Shifts => ShiftedBy(o, v)
    /\ o = "{}" => Widens(v, eval_concat(l, r), l.width + r.width)
    /\ o = "{n{}}" => a \in Nat /\ Widens(v, eval_replicate(a, l), a * l.width)
    /\ o \in Selects => InBounds(a) /\ Widens(v, eval_select(l, r, PartOf(o, a), o), PartOf(o, a))
    /\ o = "=[]" => a \in Nat /\ Spliced(v, l, a, r, 0, r.width)

PlaceInv == CanonicalInv /\ PlaceAnswered(op, arg, out)

\* A step puts the bits where they belong.
LEMMA StepPlaces ==
    ASSUME CanonicalInv, Next
    PROVE  PlaceAnswered(op', arg', out')
<1>0. l \in Values /\ r \in Values /\ ctx \in Context
  BY SuppliedValues DEF CanonicalInv
<1>1. ASSUME NEW o \in Unary \cup Binary, op' = o, out' = eval(Source(o, 0), ctx)
      PROVE  PlaceAnswered(op', arg', out')
  <2>1. o \notin Selects /\ o # "{n{}}" /\ o # "=[]"
    BY Placings
  <2>2. CASE o \in Signing
    <3>1. o \notin Shifts /\ o # "{}"
      BY <2>2, Placings
    <3>2. Relabels(o, out')
      BY <1>0, <1>1, <2>2, SignAnswer
    <3> QED BY <1>1, <2>1, <3>1, <3>2 DEF PlaceAnswered
  <2>3. CASE o \in Shifts
    <3>1. o \notin Signing /\ o # "{}"
      BY <2>3, Placings
    <3>2. LeftWidth < 2 ^ WordBits
      <4>1. l.width < 2 ^ WordBits /\ ctx.width < 2 ^ WordBits
        BY WidthAssumption DEF CanonicalInv, Supplied
      <4> QED BY <4>1 DEF LeftWidth, Mx
    <3>3. ShiftedBy(o, out')
      BY <1>0, <1>1, <2>3, <3>2, ShiftAnswer
    <3> QED BY <1>1, <2>1, <3>1, <3>3 DEF PlaceAnswered
  <2>4. CASE o = "{}"
    <3>1. o \notin Signing /\ o \notin Shifts
      BY <2>4, Placings
    <3>2. Widens(out', eval_concat(l, r), l.width + r.width)
      BY <1>0, <1>1, <2>4, ConcatAnswer
    <3> QED BY <1>1, <2>1, <3>1, <3>2 DEF PlaceAnswered
  <2>5. CASE o \notin Signing /\ o \notin Shifts /\ o # "{}"
    BY <1>1, <2>1, <2>5 DEF PlaceAnswered
  <2> QED BY <2>2, <2>3, <2>4, <2>5
<1>2. ASSUME NEW n \in 1 .. 3, op' = "{n{}}", arg' = n, out' = eval(Source("{n{}}", n), ctx)
      PROVE  PlaceAnswered(op', arg', out')
  <2>0. n \in Nat
    OBVIOUS
  <2>1. n \in Nat /\ "{n{}}" \notin Signing \cup Shifts \cup Selects
    BY <2>0, Placings
  <2>2. Widens(out', eval_replicate(n, l), n * l.width)
    BY <1>0, <1>2, <2>1, ReplicateAnswer
  <2> QED BY <1>2, <2>1, <2>2 DEF PlaceAnswered
<1>3. ASSUME NEW o \in Selects, NEW w \in PartWidths, op' = o, arg' = w,
             l.width + w <= 2 ^ WordBits + 1, out' = eval(Source(o, w), ctx)
      PROVE  PlaceAnswered(op', arg', out')
  <2>1. InBounds(w)
    <3>1. w \in Nat \ {0} /\ l.width + w <= MaxIndex
      BY EvaluateAssumption, WidthAssumption DEF CanonicalInv, Supplied
    <3> QED BY <1>3, <3>1 DEF InBounds
  <2>2. Widens(out', eval_select(l, r, PartOf(o, w), o), PartOf(o, w))
    BY <1>0, <1>3, <2>1, SelectAnswer DEF InBounds, PartOf
  <2>3. o \notin Signing \cup Shifts \cup {"{}", "{n{}}", "=[]"}
    BY Placings
  <2> QED BY <1>3, <2>1, <2>2, <2>3 DEF PlaceAnswered
<1>4. ASSUME NEW lsb \in 0 .. l.width - 1, op' = "=[]", arg' = lsb, window_in_range(lsb, r.width, l.width),
             out' = replace_bits(l, lsb, r, 0, r.width)
      PROVE  PlaceAnswered(op', arg', out')
  <2>1. l.width \in Nat /\ r.width \in Nat
    BY <1>0, ValueParts
  <2>2. lsb \in Nat /\ lsb + r.width <= l.width
    BY <1>4, <2>1 DEF window_in_range
  <2> DEFINE none == 0
  <2>3. none \in Nat
    OBVIOUS
  <2> HIDE DEF none
  <2>4. Spliced(replace_bits(l, lsb, r, none, r.width), l, lsb, r, none, r.width)
    BY <1>0, <2>1, <2>2, <2>3, ReplaceMoves
  <2>5. "=[]" \notin Signing \cup Shifts \cup Selects
    BY Placings
  <2> QED BY <1>4, <2>2, <2>4, <2>5 DEF PlaceAnswered, none
<1>5. ASSUME op' \in Wired \cup {"?:", "tree"} PROVE PlaceAnswered(op', arg', out')
  <2>1. op' \notin Signing \cup Shifts \cup Selects \cup {"{}", "{n{}}", "=[]"}
    BY <1>5, Placings
  <2> QED BY <2>1 DEF PlaceAnswered
<1> QED BY <1>1, <1>2, <1>3, <1>4, <1>5, StepIs

\* The predicate is about the bits the property speaks of.
LEMMA PlaceAnsweredIs ==
    ASSUME PlaceInv
    PROVE  PlacementExact
<1> DEFINE off == IntOf(r, FALSE)
           lsb == IF op = "-:" THEN off - arg + 1 ELSE off
           w == LeftWidth
           L(i) == Ext(l, LeftSigned, i)
           relabelled == (op = "$signed") /\ ctx.signed
<1>0. l \in Values /\ r \in Values /\ ctx \in Context
  BY SuppliedValues DEF CanonicalInv, PlaceInv
<1>1. w \in Nat /\ l.width \in Nat /\ r.width \in Nat /\ ctx.width \in Nat /\ off \in Nat
  BY <1>0, RegionSizes, ValueParts, OffsetIs DEF Context
<1>2. \A n \in Nat : \A i : i \in 0 .. n - 1 <=> i \in Nat /\ i < n
  OBVIOUS
<1>3. \A v, n, s : Region(v, n, s) => v.width = n /\ v.signed = s
  BY DEF Region
<1>9. PlaceAnswered(op, arg, out)
  BY DEF PlaceInv
<1>4. op \in Signing => Is(w, relabelled, LAMBDA i : Ext(l, relabelled, i))
  <2> SUFFICES ASSUME op \in Signing PROVE Is(w, relabelled, LAMBDA i : Ext(l, relabelled, i))
    OBVIOUS
  <2>1. Region(out, w, relabelled) /\ \A i \in Nat : i < w => BitOf(out, i) = Ext(l, relabelled, i)
    BY <1>9 DEF PlaceAnswered, Relabels
  <2> HIDE DEF w, relabelled
  <2> QED BY <1>1, <1>2, <1>3, <2>1 DEF Is
<1>5. op \in Shifts =>
              IF ~Known(r) THEN IsUnknown(w, LeftSigned)
              ELSE Is(w, LeftSigned, LAMBDA i :
                     CASE op = "<<" -> IF i < off THEN "0" ELSE L(i - off)
                       [] OTHER -> IF i + off < w THEN L(i + off)
                                   ELSE IF op = ">>>" /\ LeftSigned THEN L(w - 1) ELSE "0")
  <2> SUFFICES ASSUME op \in Shifts
               PROVE  IF ~Known(r) THEN IsUnknown(w, LeftSigned)
              ELSE Is(w, LeftSigned, LAMBDA i :
                     CASE op = "<<" -> IF i < off THEN "0" ELSE L(i - off)
                       [] OTHER -> IF i + off < w THEN L(i + off)
                                   ELSE IF op = ">>>" /\ LeftSigned THEN L(w - 1) ELSE "0")
    OBVIOUS
  <2>1. /\ Region(out, w, LeftSigned)
        /\ \A i \in Nat : i < w =>
              BitOf(out, i) = IF ~Known(r) THEN "x"
                            ELSE IF op = "<<" THEN IF i < off THEN "0" ELSE L(i - off)
                            ELSE IF i + off < w THEN L(i + off)
                            ELSE IF op = ">>>" /\ LeftSigned THEN L(w - 1) ELSE "0"
    BY <1>9 DEF PlaceAnswered, ShiftedBy
  <2> HIDE DEF w, off
  <2>2. out.width = w /\ out.signed = LeftSigned
    BY <1>3, <2>1
  <2>3. CASE ~Known(r)
    BY <1>1, <1>2, <2>1, <2>2, <2>3 DEF Is, IsUnknown
  <2>4. CASE Known(r) /\ op = "<<"
    BY <1>1, <1>2, <2>1, <2>2, <2>4 DEF Is
  <2>5. CASE Known(r) /\ op # "<<"
    BY <1>1, <1>2, <2>1, <2>2, <2>5 DEF Is
  <2> QED BY <2>3, <2>4, <2>5
<1>6. ASSUME NEW x, NEW n \in Nat, Widens(out, x, n)
      PROVE  /\ out.width = Mx(n, ctx.width) /\ ~out.signed /\ out.signed = FALSE
             /\ \A i \in 0 .. Mx(n, ctx.width) - 1 : i \in Nat /\ BitOf(out, i) = IF i < n THEN BitOf(x, i) ELSE "0"
  <2> DEFINE m == Mx(n, ctx.width)
             no == FALSE
  <2>1. m \in Nat
    BY <1>1, Wider
  <2>2. Region(out, m, no) /\ \A i \in Nat : i < m => BitOf(out, i) = IF i < n THEN BitOf(x, i) ELSE "0"
    BY <1>6 DEF Widens
  <2> HIDE DEF m, no
  <2>3. out.width = m /\ out.signed = no
    BY <1>3, <2>2
  <2>4. \A i \in 0 .. m - 1 : i \in Nat /\ BitOf(out, i) = IF i < n THEN BitOf(x, i) ELSE "0"
    BY <1>2, <2>1, <2>2
  <2> QED BY <2>3, <2>4 DEF m, no
<1>12. l.width + r.width \in Nat
  <2>1. l.width \in Nat /\ r.width \in Nat
    BY <1>1
  <2> HIDE DEF off, lsb, w, L, relabelled
  <2> QED BY <2>1
<1>7. op = "{}" => Is(Mx(l.width + r.width, ctx.width), FALSE, LAMBDA i :
              IF i < l.width + r.width THEN IF i < r.width THEN BitOf(r, i) ELSE BitOf(l, i - r.width) ELSE "0")
  <2> SUFFICES ASSUME op = "{}"
               PROVE  Is(Mx(l.width + r.width, ctx.width), FALSE, LAMBDA i :
              IF i < l.width + r.width THEN IF i < r.width THEN BitOf(r, i) ELSE BitOf(l, i - r.width) ELSE "0")
    OBVIOUS
  <2> DEFINE x == eval_concat(l, r)
             n == l.width + r.width
             m == Mx(n, ctx.width)
  <2>0. n \in Nat
    BY <1>12
  <2>5. Widens(out, x, n)
    BY <1>9 DEF PlaceAnswered
  <2>1. n \in Nat /\ Widens(out, x, n)
    BY <2>0, <2>5
  <2>2. \A i \in Nat : i < n => BitOf(x, i) = IF i < r.width THEN BitOf(r, i) ELSE BitOf(l, i - r.width)
    BY <1>0, ConcatMoves
  <2> HIDE DEF x, n
  <2>3. /\ out.width = m /\ out.signed = FALSE
        /\ \A i \in 0 .. m - 1 : i \in Nat /\ BitOf(out, i) = IF i < n THEN BitOf(x, i) ELSE "0"
    BY <1>6, <2>1
  <2> HIDE DEF m
  <2>4. \A i \in 0 .. m - 1 : BitOf(out, i) =
           IF i < n THEN IF i < r.width THEN BitOf(r, i) ELSE BitOf(l, i - r.width) ELSE "0"
    BY <2>2, <2>3
  <2> QED BY <2>3, <2>4 DEF Is, m, n
<1>8. op = "{n{}}" => Is(Mx(arg * l.width, ctx.width), FALSE, LAMBDA i :
              IF i < arg * l.width THEN BitOf(l, i % l.width) ELSE "0")
  <2> SUFFICES ASSUME op = "{n{}}"
               PROVE  Is(Mx(arg * l.width, ctx.width), FALSE, LAMBDA i :
              IF i < arg * l.width THEN BitOf(l, i % l.width) ELSE "0")
    OBVIOUS
  <2> DEFINE x == eval_replicate(arg, l)
             n == arg * l.width
             m == Mx(n, ctx.width)
             rest(i) == i % l.width
  <2>0. arg \in Nat /\ Widens(out, x, n)
    BY <1>9 DEF PlaceAnswered
  <2>1. n \in Nat
    BY <1>1, <2>0, Copies
  <2>2. \A i \in Nat : i < n => BitOf(x, i) = BitOf(l, rest(i))
    BY <1>0, <2>0, ReplicateMoves
  <2> HIDE DEF x, n, rest
  <2>3. /\ out.width = m /\ out.signed = FALSE
        /\ \A i \in 0 .. m - 1 : i \in Nat /\ BitOf(out, i) = IF i < n THEN BitOf(x, i) ELSE "0"
    BY <1>6, <2>0, <2>1
  <2> HIDE DEF m
  <2>4. \A i \in 0 .. m - 1 : BitOf(out, i) = IF i < n THEN BitOf(l, rest(i)) ELSE "0"
    BY <2>2, <2>3
  <2> QED BY <2>3, <2>4 DEF Is, m, n, rest
<1>10. op \in Selects => Is(Mx(IF op = "[i]" THEN 1 ELSE arg, ctx.width), FALSE, LAMBDA i :
              IF i < (IF op = "[i]" THEN 1 ELSE arg)
              THEN IF Known(r) /\ lsb + i \in 0 .. l.width - 1 THEN BitOf(l, lsb + i) ELSE "x" ELSE "0")
  <2> SUFFICES ASSUME op \in Selects
               PROVE  Is(Mx(IF op = "[i]" THEN 1 ELSE arg, ctx.width), FALSE, LAMBDA i :
              IF i < (IF op = "[i]" THEN 1 ELSE arg)
              THEN IF Known(r) /\ lsb + i \in 0 .. l.width - 1 THEN BitOf(l, lsb + i) ELSE "x" ELSE "0")
    OBVIOUS
  <2> DEFINE n == PartOf(op, arg)
             x == eval_select(l, r, n, op)
             m == Mx(n, ctx.width)
             F(i) == IF Known(r) /\ lsb + i \in 0 .. l.width - 1 THEN BitOf(l, lsb + i) ELSE "x"
  <2>1. InBounds(arg) /\ Widens(out, x, n)
    BY <1>9 DEF PlaceAnswered
  <2>2. n \in Nat \ {0} /\ n <= arg /\ arg \in Nat
    BY <2>1 DEF PartOf, InBounds
  <2>3. l.width + n <= 2 ^ WordBits + 1 /\ l.width + n <= MaxIndex
    BY <1>1, <2>1, <2>2, PowerOfTwo, WordBitsAssumption, BoundsAssumption DEF InBounds
  <2>4. lsb = select_lsb(op, off, n)
    BY <2>2 DEF select_lsb, PartOf
  <2> HIDE DEF n
  <2>5. \A i \in Nat : i < n => BitOf(x, i) = Reading(l, r, n, op, i)
    BY <1>0, <2>2, <2>3, SelectedBits
  <2> HIDE DEF x
  <2>6. \A i : Reading(l, r, n, op, i) = F(i)
    BY <2>4 DEF Reading
  <2> HIDE DEF F
  <2>7. /\ out.width = m /\ out.signed = FALSE
        /\ \A i \in 0 .. m - 1 : i \in Nat /\ BitOf(out, i) = IF i < n THEN BitOf(x, i) ELSE "0"
    BY <1>6, <2>1, <2>2
  <2> HIDE DEF m
  <2>8. \A i \in 0 .. m - 1 : BitOf(out, i) = IF i < n THEN F(i) ELSE "0"
    BY <2>5, <2>6, <2>7
  <2> QED BY <2>7, <2>8 DEF Is, m, n, F, PartOf
<1>11. op = "=[]" => Is(l.width, l.signed, LAMBDA i :
              IF i - arg \in 0 .. r.width - 1 THEN BitOf(r, i - arg) ELSE BitOf(l, i))
  <2> SUFFICES ASSUME op = "=[]"
               PROVE  Is(l.width, l.signed, LAMBDA i :
              IF i - arg \in 0 .. r.width - 1 THEN BitOf(r, i - arg) ELSE BitOf(l, i))
    OBVIOUS
  <2>1. arg \in Nat /\ Spliced(out, l, arg, r, 0, r.width)
    BY <1>9 DEF PlaceAnswered
  <2>2. /\ out.width = l.width /\ out.signed = l.signed
        /\ \A i \in Nat : i < l.width =>
              BitOf(out, i) = IF arg <= i /\ i < arg + r.width THEN BitOf(r, 0 + (i - arg)) ELSE BitOf(l, i)
    BY <2>1 DEF Spliced
  <2>3. ASSUME NEW i \in 0 .. l.width - 1
        PROVE  BitOf(out, i) = IF i - arg \in 0 .. r.width - 1 THEN BitOf(r, i - arg) ELSE BitOf(l, i)
    <3>1. i \in Nat /\ i < l.width
      BY <1>1
    <3>2. 0 + (i - arg) = i - arg /\ (i - arg \in 0 .. r.width - 1 <=> arg <= i /\ i < arg + r.width)
      BY <1>1, <2>1, <3>1
    <3> QED BY <2>2, <3>1, <3>2
  <2> QED BY <2>2, <2>3 DEF Is
<1> QED BY <1>4, <1>5, <1>7, <1>8, <1>10, <1>11 DEF PlacementExact

\* Shifts, concatenation, replication, selects and part-select writes move every
\* bit to its place, at every width (shl_grow, shr_fill, copy_bits, replace_bits,
\* eval_select).
THEOREM PlacementExactHolds == Spec => []PlacementExact
<1>1. Init => PlaceInv
  <2> SUFFICES ASSUME Init PROVE PlaceInv
    OBVIOUS
  <2>1. CanonicalInv
    BY SuppliedValues DEF Init, CanonicalInv
  <2>2. op \notin Signing \cup Shifts \cup Selects \cup {"{}", "{n{}}", "=[]"}
    BY Placings DEF Init
  <2> QED BY <2>1, <2>2 DEF PlaceInv, PlaceAnswered
<1>2. PlaceInv /\ [Next]_vars => PlaceInv'
  <2> SUFFICES ASSUME PlaceInv, [Next]_vars PROVE PlaceInv'
    OBVIOUS
  <2>1. CASE Next
    <3>1. CanonicalInv' /\ UNCHANGED <<l, r, ctx>>
      BY <2>1, StepAnswers DEF PlaceInv, CanonicalInv
    <3>2. PlaceAnswered(op', arg', out')
      BY <2>1, StepPlaces DEF PlaceInv
    <3>3. PlaceAnswered(op, arg, out)'
      BY <3>1, <3>2 DEF PlaceAnswered, Relabels, ShiftedBy, Widens, InBounds, LeftWidth, LeftSigned
    <3> QED BY <3>1, <3>3 DEF PlaceInv
  <2>2. CASE UNCHANGED vars
    BY <2>2 DEF vars, PlaceInv, CanonicalInv, PlaceAnswered, Relabels, ShiftedBy, Widens, InBounds, LeftWidth, LeftSigned
  <2> QED BY <2>1, <2>2
<1> QED BY <1>1, <1>2, PlaceAnsweredIs, PTL DEF Spec

\* The number of a value: the sum of its ones, and its sign.
LEMMA IntIs ==
    ASSUME NEW v \in Values, NEW s \in BOOLEAN
    PROVE  /\ PlaceSet(OnesOf(v)) /\ SumAt(OnesOf(v)) \in Nat /\ SumAt(OnesOf(v)) < 2 ^ v.width
           /\ 2 ^ v.width \in Nat
           /\ IntOf(v, s) = SumAt(OnesOf(v)) - (IF Below0(v, s) THEN 2 ^ v.width ELSE 0)
<1>1. v.width \in Nat /\ OnesOf(v) \subseteq 0 .. v.width - 1
  BY ValueParts DEF OnesOf
<1>2. PlaceSet(OnesOf(v)) /\ SumAt(OnesOf(v)) < 2 ^ v.width
  BY <1>1, SumBound
<1>3. SumAt(OnesOf(v)) \in Nat
  BY <1>2, SumType
<1>4. 2 ^ v.width \in Nat
  BY <1>1, PowerOfTwo
<1>5. IntOf(v, s) = SumAt(OnesOf(v)) - (IF Below0(v, s) THEN 2 ^ v.width ELSE 0)
  BY DEF IntOf, SumAt, Powers, OnesOf, Below0
<1> QED BY <1>2, <1>3, <1>4, <1>5

\* ordering compares two known values of one width as the numbers they are.
LEMMA OrderingIs ==
    ASSUME NEW p \in Values, NEW q \in Values, p.width = q.width, NEW s \in BOOLEAN,
           ~HasUnknown(p), ~HasUnknown(q)
    PROVE  /\ IntOf(p, s) \in Int /\ IntOf(q, s) \in Int
           /\ ordering(p, q, s) = IF IntOf(p, s) < IntOf(q, s) THEN -1
                                  ELSE IF IntOf(q, s) < IntOf(p, s) THEN 1 ELSE 0
<1> DEFINE x == SumAt(OnesOf(p))
           y == SumAt(OnesOf(q))
           n == 2 ^ p.width
           np == Below0(p, s)
           nq == Below0(q, s)
           a == IntOf(p, s)
           b == IntOf(q, s)
           c == cmp_words(p.val, q.val)
           res == ordering(p, q, s)
<1>1. /\ x \in Nat /\ y \in Nat /\ n \in Nat /\ x < n /\ y < n
      /\ a = x - (IF np THEN n ELSE 0) /\ b = y - (IF nq THEN n ELSE 0)
  BY IntIs
<1>2. c = IF x < y THEN -1 ELSE IF y < x THEN 1 ELSE 0
  <2>1. p.width \in Nat /\ p.val \in PlanesOf(p.width) /\ q.val \in PlanesOf(p.width)
    BY ValueParts
  <2>2. OnesOf(p) = PlaneOnes(p.val, p.width) /\ OnesOf(q) = PlaneOnes(q.val, p.width)
    BY OnesArePlane
  <2> QED BY <2>1, <2>2, WordsCompare
<1>3. res = IF np /\ ~nq THEN -1 ELSE IF nq /\ ~np THEN 1 ELSE c
  <2> DEFINE ln == get_vu(p, p.width - 1).val
             rn == get_vu(q, q.width - 1).val
  <2>1. (ln <=> BitOf(p, p.width - 1) = "1") /\ (rn <=> BitOf(q, q.width - 1) = "1")
    BY TopBit
  <2>2. ln \in BOOLEAN /\ rn \in BOOLEAN
    BY DEF get_vu
  <2>3. res = IF s /\ ln # rn THEN IF ln THEN -1 ELSE 1 ELSE c
    BY DEF ordering
  <2>4. (np <=> s /\ ln) /\ (nq <=> s /\ rn)
    BY <2>1 DEF Below0
  <2> HIDE DEF ln, rn, c, res, np, nq
  <2> QED BY <2>2, <2>3, <2>4
<1> HIDE DEF x, y, n, np, nq, a, b, c, res
<1>4. CASE np /\ ~nq
  <2>1. a = x - n /\ b = y - 0
    BY <1>1, <1>4
  <2>2. a \in Int /\ b \in Int /\ a < b
    BY <1>1, <2>1
  <2> QED BY <1>3, <1>4, <2>2 DEF a, b, res
<1>5. CASE nq /\ ~np
  <2>1. a = x - 0 /\ b = y - n
    BY <1>1, <1>5
  <2>2. a \in Int /\ b \in Int /\ b < a /\ ~(a < b)
    BY <1>1, <2>1
  <2> QED BY <1>3, <1>5, <2>2 DEF a, b, res
<1>6. CASE np /\ nq
  <2>1. a = x - n /\ b = y - n
    BY <1>1, <1>6
  <2>2. a \in Int /\ b \in Int /\ (a < b <=> x < y) /\ (b < a <=> y < x)
    BY <1>1, <2>1
  <2> QED BY <1>2, <1>3, <1>6, <2>2 DEF a, b, res
<1>7. CASE ~np /\ ~nq
  <2>1. a = x - 0 /\ b = y - 0
    BY <1>1, <1>7
  <2>2. a \in Int /\ b \in Int /\ (a < b <=> x < y) /\ (b < a <=> y < x)
    BY <1>1, <2>1
  <2> QED BY <1>2, <1>3, <1>7, <2>2 DEF a, b, res
<1> QED BY <1>4, <1>5, <1>6, <1>7

\* Extended with its sign, a known value is the number it was.
LEMMA IntKept ==
    ASSUME NEW v \in Values, NEW u \in Values, NEW s \in BOOLEAN, v.width <= u.width,
           \A i \in Nat : i < u.width => BitOf(u, i) = Ext(v, s, i), ~HasUnknown(v)
    PROVE  ~HasUnknown(u) /\ IntOf(u, s) = IntOf(v, s)
<1> DEFINE n == v.width
           w == u.width
           B == OnesOf(v)
           E == n .. w - 1
<1>1. n \in Nat /\ w \in Nat /\ n <= w
  BY ValueParts
<1>2. ~HasUnknown(u)
  <2>1. ASSUME NEW i \in Nat, i < w PROVE BitOf(u, i) \in Defined
    <3>1. BitOf(u, i) = Ext(v, s, i)
      BY <2>1
    <3>2. CASE i < n
      BY <2>1, <3>1, <3>2 DEF Ext, HasUnknown
    <3>3. CASE ~(i < n) /\ s /\ n > 0
      <4>1. n - 1 \in Nat /\ n - 1 < n
        BY <1>1, <3>3
      <4> QED BY <3>1, <3>3, <4>1 DEF Ext, HasUnknown
    <3>4. CASE ~(i < n) /\ ~(s /\ n > 0)
      BY <3>1, <3>4 DEF Ext, Defined
    <3> QED BY <3>2, <3>3, <3>4
  <2> QED BY <2>1 DEF HasUnknown
<1>3. /\ PlaceSet(B) /\ SumAt(B) \in Nat /\ 2 ^ n \in Nat /\ 2 ^ w \in Nat
      /\ IntOf(v, s) = SumAt(B) - (IF Below0(v, s) THEN 2 ^ n ELSE 0)
      /\ IntOf(u, s) = SumAt(OnesOf(u)) - (IF Below0(u, s) THEN 2 ^ w ELSE 0)
  BY IntIs
<1>4. \A i \in Nat : i \in OnesOf(u) <=> i < w /\ Ext(v, s, i) = "1"
  <2>1. \A i \in Nat : i \in 0 .. w - 1 <=> i < w
    BY <1>1
  <2> QED BY <2>1 DEF OnesOf
<1>5. \A i \in Nat : i \in B <=> i < n /\ BitOf(v, i) = "1"
  <2>1. \A i \in Nat : i \in 0 .. n - 1 <=> i < n
    BY <1>1
  <2> QED BY <2>1 DEF OnesOf
<1>6. \A i \in Nat : i \in E <=> i < w /\ ~(i < n)
  BY <1>1
<1>7. OnesOf(u) \subseteq Nat /\ B \subseteq Nat /\ E \subseteq Nat
  BY <1>1 DEF OnesOf
<1>8. /\ Below0(v, s) <=> s /\ n > 0 /\ BitOf(v, n - 1) = "1"
      /\ Below0(u, s) <=> s /\ w > 0 /\ Ext(v, s, w - 1) = "1"
  <2>1. BitOf(v, n - 1) = "1" => n - 1 \in Nat
    BY TopBit
  <2>2. BitOf(u, w - 1) = "1" => w - 1 \in Nat
    BY <1>2, TopBit
  <2>3. w > 0 => BitOf(u, w - 1) = Ext(v, s, w - 1)
    <3>1. w > 0 => w - 1 \in Nat /\ w - 1 < w
      BY <1>1
    <3> QED BY <3>1
  <2> QED BY <1>1, <2>1, <2>2, <2>3 DEF Below0
<1>9. CASE Below0(v, s)
  <2>1. \A i \in Nat : Ext(v, s, i) = "1" <=> (IF i < n THEN BitOf(v, i) = "1" ELSE TRUE)
    BY <1>8, <1>9 DEF Ext
  <2>2. Below0(u, s)
    <3>1. n > 0 /\ w > 0 /\ w - 1 \in Nat /\ s
      BY <1>1, <1>8, <1>9
    <3>2. w - 1 < n => w - 1 = n - 1
      BY <1>1
    <3>3. Ext(v, s, w - 1) = "1"
      BY <1>8, <1>9, <2>1, <3>1, <3>2
    <3> QED BY <1>8, <3>1, <3>3
  <2>3. \A i \in Nat : i \in OnesOf(u) <=> i \in B \/ i \in E
    <3>1. \A i \in Nat : i < n => i < w
      BY <1>1
    <3> QED BY <1>4, <1>5, <1>6, <2>1, <3>1
  <2>4. OnesOf(u) = B \cup E /\ B \cap E = {}
    <3> HIDE DEF B, E
    <3>1. OnesOf(u) = B \cup E
      BY <1>7, <2>3
    <3>2. B \cap E = {}
      BY <1>5, <1>6, <1>7
    <3> QED BY <3>1, <3>2
  <2>5. PlaceSet(E) /\ SumAt(E) = 2 ^ w - 2 ^ n
    BY <1>1, SumOfSign
  <2>6. SumAt(OnesOf(u)) = SumAt(B) + SumAt(E)
    <3> HIDE DEF B, E
    <3> QED BY <1>3, <2>4, <2>5, SumJoins
  <2> DEFINE x == SumAt(B)  y == 2 ^ w  z == 2 ^ n  a == IntOf(u, s)  b == IntOf(v, s)
             e == SumAt(E)  f == SumAt(OnesOf(u))
  <2>7. x \in Nat /\ y \in Nat /\ z \in Nat /\ e = y - z /\ f = x + e /\ a = f - y /\ b = x - z
    BY <1>3, <1>9, <2>2, <2>5, <2>6
  <2> HIDE DEF x, y, z, a, b, e, f
  <2>8. a = b
    BY <2>7
  <2> QED BY <1>2, <2>8 DEF a, b
<1>10. CASE ~Below0(v, s)
  <2>1. \A i \in Nat : Ext(v, s, i) = "1" <=> i < n /\ BitOf(v, i) = "1"
    BY <1>8, <1>10 DEF Ext
  <2>2. ~Below0(u, s)
    <3>1. w > 0 => w - 1 \in Nat /\ (w - 1 < n => w - 1 = n - 1 /\ n > 0)
      BY <1>1
    <3> QED BY <1>8, <1>10, <2>1, <3>1
  <2>3. OnesOf(u) = B
    <3>1. \A i \in Nat : i \in OnesOf(u) <=> i \in B
      <4>1. \A i \in Nat : i < n => i < w
        BY <1>1
      <4> QED BY <1>4, <1>5, <2>1, <4>1
    <3> HIDE DEF B
    <3> QED BY <1>7, <3>1
  <2> QED BY <1>2, <1>3, <1>10, <2>2, <2>3
<1> QED BY <1>9, <1>10

\* < <= > >= compare two operands of any widths as the numbers they are, signed
\* when both are, and answer x when a bit of either is unknown (relational,
\* ordering, cmp_words).
THEOREM RelationalTruth ==
    ASSUME NEW lv \in Values, NEW rv \in Values, NEW o \in Relational
    PROVE  LET s == lv.signed /\ rv.signed
           IN  relational(o, lv, rv) =
                  IF HasUnknown(lv) \/ HasUnknown(rv) THEN x1
                  ELSE logic(Compared(o, IntOf(lv, s), IntOf(rv, s)))
<1> DEFINE w  == Mx(lv.width, rv.width)
           s  == lv.signed /\ rv.signed
           le == resize_keep_sign(lv, w, s)
           re == resize_keep_sign(rv, w, s)
<1>1. (has_xz(lv) <=> HasUnknown(lv)) /\ (has_xz(rv) <=> HasUnknown(rv))
  BY UnknownIsUnknown
<1>2. relational(o, lv, rv) = IF has_xz(lv) \/ has_xz(rv) THEN x1
                              ELSE logic(relational_verdict(o, ordering(le, re, s)))
  BY DEF relational
<1>3. /\ w \in Nat /\ lv.width <= w /\ rv.width <= w
      /\ s \in BOOLEAN /\ lv.signed \in BOOLEAN /\ rv.signed \in BOOLEAN
  BY ValueParts, Wider
<1>4. (lv.signed /\ s <=> s) /\ (rv.signed /\ s <=> s)
  BY <1>3
<1> HIDE DEF w
<1>5. /\ le \in Values /\ le.width = w
      /\ re \in Values /\ re.width = w
      /\ \A i \in Nat : i < w => BitOf(le, i) = Ext(lv, lv.signed /\ s, i)
      /\ \A i \in Nat : i < w => BitOf(re, i) = Ext(rv, rv.signed /\ s, i)
  BY <1>3, ContextExtends
<1>6. \A i \in Nat : i < w => BitOf(le, i) = Ext(lv, s, i) /\ BitOf(re, i) = Ext(rv, s, i)
  BY <1>4, <1>5 DEF Ext
<1> HIDE DEF le, re, s
<1>7. CASE HasUnknown(lv) \/ HasUnknown(rv)
  BY <1>1, <1>2, <1>7 DEF s
<1>8. CASE ~HasUnknown(lv) /\ ~HasUnknown(rv)
  <2>1. ~HasUnknown(le) /\ IntOf(le, s) = IntOf(lv, s)
    BY <1>3, <1>5, <1>6, <1>8, IntKept
  <2>2. ~HasUnknown(re) /\ IntOf(re, s) = IntOf(rv, s)
    BY <1>3, <1>5, <1>6, <1>8, IntKept
  <2> DEFINE a == IntOf(lv, s)  b == IntOf(rv, s)  c == ordering(le, re, s)
  <2>3. a \in Int /\ b \in Int /\ c = IF a < b THEN -1 ELSE IF b < a THEN 1 ELSE 0
    BY <1>3, <1>5, <2>1, <2>2, OrderingIs
  <2> HIDE DEF a, b, c
  <2>4. relational_verdict(o, c) = Compared(o, a, b)
    <3>1. (c = -1 <=> a < b) /\ (c = 1 <=> a > b) /\ (c # 1 <=> a <= b) /\ (c # -1 <=> a >= b)
      BY <2>3
    <3>2. o = "<" \/ o = "<=" \/ o = ">" \/ o = ">="
      BY DEF Relational
    <3>3. CASE o = "<"
      BY <3>1, <3>3 DEF relational_verdict, Compared
    <3>4. CASE o = "<="
      BY <3>1, <3>4 DEF relational_verdict, Compared
    <3>5. CASE o = ">"
      BY <3>1, <3>5 DEF relational_verdict, Compared
    <3>6. CASE o = ">="
      BY <3>1, <3>6 DEF relational_verdict, Compared
    <3> QED BY <3>2, <3>3, <3>4, <3>5, <3>6
  <2>5. relational(o, lv, rv) = logic(relational_verdict(o, c))
    BY <1>1, <1>2, <1>8 DEF c
  <2> QED BY <1>8, <2>4, <2>5 DEF a, b, s
<1> QED BY <1>7, <1>8

\* The three truth values, as values of one bit.
LEMMA TriBits ==
    /\ \A b \in TriState : Region(Tri(b), 1, FALSE) /\ BitOf(Tri(b), 0) = b
    /\ \A b \in BOOLEAN : Tri(Truth(b)) = logic(b) /\ Truth(b) \in TriState
    /\ Tri("x") = x1
<1>1. \A b \in BOOLEAN : BitOf(logic(b), 0) = Truth(b)
  <2> SUFFICES ASSUME NEW b \in BOOLEAN PROVE BitOf(logic(b), 0) = Truth(b)
    OBVIOUS
  <2> DEFINE p == [k \in {0} |-> IF b THEN {0} ELSE {}]
             no == FALSE
  <2>1. 0 \in Bit /\ 0 \div WordBits = 0 /\ 0 % WordBits = 0
    BY WordBitsAssumption DEF Bit
  <2>2. Wordwise(p, 1) /\ Wordwise(<<>>, 1)
    BY <2>1 DEF Wordwise, At
  <2>3. (Has(p, 0) <=> b) /\ ~Has(<<>>, 0)
    BY <2>1 DEF Has, At
  <2>4. logic(b) = Value(p, <<>>, 1, no)
    BY DEF logic
  <2> HIDE DEF p, no
  <2>5. no \in BOOLEAN /\ 1 \in Nat /\ 0 \in Nat /\ 0 < 1
    BY DEF no
  <2>6. BitOf(Value(p, <<>>, 1, no), 0) = Symbol(Has(p, 0), Has(<<>>, 0))
    BY <2>2, <2>5, ValueBits
  <2> QED BY <2>3, <2>4, <2>6 DEF Symbol, Truth
<1>2. BitOf(x1, 0) = "x"
  <2> DEFINE no == FALSE
  <2>1. no \in BOOLEAN /\ 1 \in Nat /\ 0 \in Nat /\ 0 < 1 /\ x1 = xs(1, no)
    BY DEF x1
  <2> HIDE DEF no
  <2> QED BY <2>1, FilledBits
<1>3. \A b \in BOOLEAN : Tri(Truth(b)) = logic(b) /\ Truth(b) \in TriState
  <2> SUFFICES ASSUME NEW b \in BOOLEAN PROVE Tri(Truth(b)) = logic(b) /\ Truth(b) \in TriState
    OBVIOUS
  <2>1. CASE b
    <3>1. b = TRUE
      BY <2>1
    <3> QED BY <3>1 DEF Tri, Truth, TriState
  <2>2. CASE ~b
    <3>1. b = FALSE
      BY <2>2
    <3> QED BY <3>1 DEF Tri, Truth, TriState
  <2> QED BY <2>1, <2>2
<1>4. Tri("x") = x1
  BY DEF Tri
<1>5. \A b \in TriState : BitOf(Tri(b), 0) = b
  <2>1. BitOf(Tri("1"), 0) = "1"
    BY <1>1 DEF Tri, Truth
  <2>2. BitOf(Tri("0"), 0) = "0"
    BY <1>1 DEF Tri, Truth
  <2>3. BitOf(Tri("x"), 0) = "x"
    BY <1>2, <1>4
  <2> QED BY <2>1, <2>2, <2>3 DEF TriState
<1> QED BY <1>3, <1>4, <1>5, TruthType

\* A value is known when no bit of it is unknown.
LEMMA KnownIs ==
    ASSUME NEW v \in Values
    PROVE  Known(v) <=> ~HasUnknown(v)
<1>1. v.width \in Nat
  BY ValueParts
<1>2. HasUnknown(v) <=> \E i \in 0 .. v.width - 1 : BitOf(v, i) \notin Defined
  BY <1>1 DEF HasUnknown
<1> QED BY <1>2 DEF Known, BitSet

RelationalBit(o, p, q) ==
    IF ~Known(p) \/ ~Known(q) THEN "x"
    ELSE Truth(Compared(o, IntOf(p, Shared(p, q)), IntOf(q, Shared(p, q))))

EqualityBit(o, p, q) ==
    IF \E i \in Span(p, q) : {Ext(p, Shared(p, q), i), Ext(q, Shared(p, q), i)} = Defined THEN Truth(o = "!=")
    ELSE IF ~Known(p) \/ ~Known(q) THEN "x" ELSE Truth(o = "==")

CaseEqBit(o, p, q) ==
    Truth((\A i \in Span(p, q) : Ext(p, Shared(p, q), i) = Ext(q, Shared(p, q), i)) = (o = "==="))

CaseZBit(o, p, q) ==
    Truth(\A i \in Span(p, q) :
             \/ Wild(o, Ext(p, Shared(p, q), i)) \/ Wild(o, Ext(q, Shared(p, q), i))
             \/ Ext(p, Shared(p, q), i) = Ext(q, Shared(p, q), i))

CompareBit(o, p, q) == CASE o \in Relational -> RelationalBit(o, p, q)
                         [] o \in Equality -> EqualityBit(o, p, q)
                         [] o \in CaseEq -> CaseEqBit(o, p, q)
                         [] o \in CaseZ -> CaseZBit(o, p, q)

\* The comparisons of two operands of one width and one sign.
LEMMA CompareIs ==
    ASSUME NEW p \in Values, NEW q \in Values, p.width = q.width, p.signed = q.signed, NEW o \in Compares
    PROVE  compare(o, p, q) = Tri(CompareBit(o, p, q)) /\ CompareBit(o, p, q) \in TriState
<1> DEFINE s == Shared(p, q)
           m == Mx(p.width, q.width)
<1>1. /\ p.width \in Nat /\ q.width \in Nat /\ m \in Nat /\ m = p.width
      /\ s = (p.signed /\ q.signed) /\ s \in BOOLEAN
  BY ValueParts DEF Shared, Mx
<1>2. \A i : i \in Span(p, q) <=> i \in Nat /\ i < m
  <2>1. Span(p, q) = 0 .. m - 1
    BY DEF Span
  <2> HIDE DEF m
  <2> QED BY <1>1, <2>1
<1>3. (Known(p) <=> ~HasUnknown(p)) /\ (Known(q) <=> ~HasUnknown(q))
  BY KnownIs
<1>4. "x" \in TriState /\ x1 = Tri("x") /\ \A b \in BOOLEAN : logic(b) = Tri(Truth(b)) /\ Truth(b) \in TriState
  BY TriBits DEF TriState
<1>5. CASE o \in Relational
  <2>1. relational(o, p, q) = IF HasUnknown(p) \/ HasUnknown(q) THEN x1
                              ELSE logic(Compared(o, IntOf(p, s), IntOf(q, s)))
    <3> HIDE DEF s
    <3> QED BY <1>1, <1>5, RelationalTruth
  <2>2. Compared(o, IntOf(p, s), IntOf(q, s)) \in BOOLEAN
    <3> DEFINE a == IntOf(p, s)  b == IntOf(q, s)
    <3>1. Compared("<", a, b) \in BOOLEAN
      BY DEF Compared
    <3>2. Compared("<=", a, b) \in BOOLEAN
      BY DEF Compared
    <3>3. Compared(">", a, b) \in BOOLEAN
      BY DEF Compared
    <3>4. Compared(">=", a, b) \in BOOLEAN
      BY DEF Compared
    <3> HIDE DEF a, b
    <3> QED BY <1>5, <3>1, <3>2, <3>3, <3>4 DEF Relational, a, b
  <2>3. relational(o, p, q) = Tri(RelationalBit(o, p, q)) /\ RelationalBit(o, p, q) \in TriState
    BY <1>3, <1>4, <2>1, <2>2 DEF RelationalBit
  <2>4. o \notin Equality /\ o \notin CaseEq /\ o \notin CaseZ
    BY <1>5 DEF Relational, Equality, CaseEq, CaseZ
  <2> QED BY <1>5, <2>3, <2>4 DEF compare, CompareBit
<1>6. CASE o \in Equality
  <2> DEFINE differ == \E i \in Span(p, q) : {Ext(p, s, i), Ext(q, s, i)} = Defined
  <2>1. log_eq(o, p, q) = IF \E i \in Nat : i < m /\ {Ext(p, s, i), Ext(q, s, i)} = Defined
                          THEN logic(o = "!=")
                          ELSE IF HasUnknown(p) \/ HasUnknown(q) THEN x1 ELSE logic(o = "==")
    <3> HIDE DEF s
    <3> QED BY <1>1, <1>6, EqualityTruth DEF Equality
  <2>2. differ <=> \E i \in Nat : i < m /\ {Ext(p, s, i), Ext(q, s, i)} = Defined
    BY <1>2
  <2> HIDE DEF s
  <2>3. log_eq(o, p, q) = IF differ THEN logic(o = "!=")
                          ELSE IF HasUnknown(p) \/ HasUnknown(q) THEN x1 ELSE logic(o = "==")
    BY <2>1, <2>2
  <2>6. EqualityBit(o, p, q) = IF differ THEN Truth(o = "!=")
                               ELSE IF ~Known(p) \/ ~Known(q) THEN "x" ELSE Truth(o = "==")
    BY DEF EqualityBit, s
  <2> HIDE DEF differ
  <2>4. log_eq(o, p, q) = Tri(EqualityBit(o, p, q)) /\ EqualityBit(o, p, q) \in TriState
    BY <1>3, <1>4, <2>3, <2>6
  <2>5. o \notin Relational /\ o \notin CaseEq /\ o \notin CaseZ
    BY <1>6 DEF Relational, Equality, CaseEq, CaseZ
  <2> QED BY <1>6, <2>4, <2>5 DEF compare, CompareBit
<1>7. CASE o \in CaseEq
  <2> DEFINE same == \A i \in Span(p, q) : Ext(p, s, i) = Ext(q, s, i)
  <2>1. case_eq(o, p, q) = IF \A i \in Nat : i < m => Ext(p, s, i) = Ext(q, s, i)
                           THEN logic(o = "===") ELSE logic(o = "!==")
    <3> HIDE DEF s
    <3> QED BY <1>1, <1>7, CaseEqualityTruth DEF CaseEq
  <2>2. same <=> \A i \in Nat : i < m => Ext(p, s, i) = Ext(q, s, i)
    BY <1>2
  <2>6. CaseEqBit(o, p, q) = Truth(same = (o = "==="))
    BY DEF CaseEqBit
  <2> HIDE DEF s
  <2>3. case_eq(o, p, q) = IF same THEN logic(o = "===") ELSE logic(o = "!==")
    BY <2>1, <2>2
  <2>7. same \in BOOLEAN
    OBVIOUS
  <2> HIDE DEF same
  <2>8. (o = "!==") = (FALSE = (o = "===")) /\ (o = "===") = (TRUE = (o = "==="))
    BY <1>7 DEF CaseEq
  <2>4. case_eq(o, p, q) = Tri(CaseEqBit(o, p, q)) /\ CaseEqBit(o, p, q) \in TriState
    <3>1. CASE same = TRUE
      <4>1. case_eq(o, p, q) = logic(o = "===") /\ CaseEqBit(o, p, q) = Truth(o = "===")
        BY <2>3, <2>6, <2>8, <3>1
      <4> QED BY <1>4, <4>1
    <3>2. CASE same = FALSE
      <4>1. case_eq(o, p, q) = logic(o = "!==") /\ CaseEqBit(o, p, q) = Truth(o = "!==")
        BY <2>3, <2>6, <2>8, <3>2
      <4> QED BY <1>4, <4>1
    <3> QED BY <2>7, <3>1, <3>2
  <2>5. o \notin Relational /\ o \notin Equality /\ o \notin CaseZ
    BY <1>7 DEF Relational, Equality, CaseEq, CaseZ
  <2> QED BY <1>7, <2>4, <2>5 DEF compare, CompareBit
<1>8. CASE o \in CaseZ
  <2> DEFINE F(i) == Wild(o, BitOf(p, i)) \/ Wild(o, BitOf(q, i)) \/ BitOf(p, i) = BitOf(q, i)
             G(i) == Wild(o, Ext(p, s, i)) \/ Wild(o, Ext(q, s, i)) \/ Ext(p, s, i) = Ext(q, s, i)
             match == \A i \in Span(p, q) : G(i)
  <2>1. casez_eq(o, p, q) = IF \A i \in Nat : i < p.width => F(i) THEN logic(TRUE) ELSE logic(FALSE)
    BY <1>1, <1>8, CaseMatchTruth DEF CaseZ, Wild
  <2>2. \A i \in Nat : i < p.width => (F(i) <=> G(i))
    BY <1>1 DEF Ext
  <2>6. CaseZBit(o, p, q) = Truth(match)
    BY DEF CaseZBit
  <2> HIDE DEF F, G
  <2>3. match <=> \A i \in Nat : i < p.width => F(i)
    <3>1. \A i : i \in Span(p, q) <=> i \in Nat /\ i < p.width
      BY <1>1, <1>2
    <3> QED BY <2>2, <3>1
  <2>7. match \in BOOLEAN
    OBVIOUS
  <2>8. casez_eq(o, p, q) = IF match THEN logic(TRUE) ELSE logic(FALSE)
    BY <2>1, <2>3
  <2> HIDE DEF match
  <2>4. casez_eq(o, p, q) = Tri(CaseZBit(o, p, q)) /\ CaseZBit(o, p, q) \in TriState
    <3>1. CASE match = TRUE
      BY <1>4, <2>6, <2>8, <3>1
    <3>2. CASE match = FALSE
      BY <1>4, <2>6, <2>8, <3>2
    <3> QED BY <2>7, <3>1, <3>2
  <2>5. o \notin Relational /\ o \notin CaseEq /\ o \notin Equality
    BY <1>8 DEF Relational, Equality, CaseEq, CaseZ
  <2> QED BY <1>8, <2>4, <2>5 DEF compare, CompareBit
<1> QED BY <1>5, <1>6, <1>7, <1>8 DEF Compares

\* An operand that a comparison sizes by the other one: extended, it has the bits
\* and, when known, the number that it had.
Prolongs(p, v, w, s) ==
    /\ Region(p, w, s)
    /\ \A i \in Nat : i < w => BitOf(p, i) = Ext(v, s, i)
    /\ Known(p) <=> Known(v)
    /\ Known(v) => IntOf(p, s) = IntOf(v, s)

\* An operand of a comparison, as the other one sizes it.
LEMMA SizedOperand ==
    ASSUME NEW x, NEW v \in Values, Reads(x, v), NEW w \in Nat, NEW s \in BOOLEAN, v.width <= w,
           (v.signed /\ s) = s
    PROVE  Prolongs(x[Ctx(w, s)], v, w, s)
<1> DEFINE p == x[Ctx(w, s)]
<1>1. Region(p, w, s) /\ \A i \in Nat : i < w => BitOf(p, i) = Ext(v, s, i)
  BY InRegion
<1>2. p = resize_keep_sign(v, w, s)
  <2>1. Ctx(w, s) \in Context /\ Ctx(w, s).width = w /\ Ctx(w, s).signed = s
    BY DEF Ctx, Context
  <2>2. Mx(v.width, w) = w
    BY ValueParts DEF Mx
  <2> QED BY <2>1, <2>2 DEF Reads
<1>3. HasUnknown(p) <=> HasUnknown(v)
  BY <1>2, UnknownExtends
<1> HIDE DEF p
<1>4. p \in Values /\ p.width = w
  BY <1>1 DEF Region
<1>5. (Known(p) <=> ~HasUnknown(p)) /\ (Known(v) <=> ~HasUnknown(v))
  BY <1>4, KnownIs
<1>6. Known(v) => IntOf(p, s) = IntOf(v, s)
  BY <1>1, <1>4, <1>5, IntKept
<1> QED BY <1>1, <1>3, <1>5, <1>6 DEF Prolongs, p

\* Two operands sized by each other compare as they are.
LEMMA ComparesAsIs ==
    ASSUME NEW a \in Values, NEW b \in Values, NEW p, NEW q, NEW o \in Compares,
           Prolongs(p, a, Mx(a.width, b.width), Shared(a, b)),
           Prolongs(q, b, Mx(a.width, b.width), Shared(a, b))
    PROVE  compare(o, p, q) = Tri(CompareBit(o, a, b)) /\ CompareBit(o, a, b) \in TriState
<1> DEFINE w == Mx(a.width, b.width)
           s == Shared(a, b)
<1>1. /\ w \in Nat /\ s \in BOOLEAN /\ Mx(w, w) = w /\ (s /\ s) = s
  BY ValueParts DEF Shared, Mx
<1> HIDE DEF w, s
<1>2. /\ p \in Values /\ p.width = w /\ p.signed = s /\ q \in Values /\ q.width = w /\ q.signed = s
      /\ \A i \in Nat : i < w => BitOf(p, i) = Ext(a, s, i) /\ BitOf(q, i) = Ext(b, s, i)
      /\ (Known(p) <=> Known(a)) /\ (Known(q) <=> Known(b))
      /\ Known(a) => IntOf(p, s) = IntOf(a, s)
      /\ Known(b) => IntOf(q, s) = IntOf(b, s)
  BY DEF Prolongs, Region, w, s
<1>3. Shared(p, q) = s /\ Mx(p.width, q.width) = w /\ Span(p, q) = Span(a, b) /\ Span(a, b) = 0 .. w - 1
  BY <1>1, <1>2 DEF Shared, Span, w
<1>4. \A i \in Span(a, b) : Ext(p, s, i) = Ext(a, s, i) /\ Ext(q, s, i) = Ext(b, s, i)
  <2>1. \A i \in 0 .. w - 1 : i \in Nat /\ i < w
    BY <1>1
  <2> QED BY <1>2, <1>3, <2>1 DEF Ext
<1>5. RelationalBit(o, p, q) = RelationalBit(o, a, b)
  BY <1>2, <1>3 DEF RelationalBit, s
<1>6. EqualityBit(o, p, q) = EqualityBit(o, a, b)
  <2>1. (\E i \in Span(p, q) : {Ext(p, s, i), Ext(q, s, i)} = Defined)
         <=> \E i \in Span(a, b) : {Ext(a, s, i), Ext(b, s, i)} = Defined
    BY <1>3, <1>4
  <2> QED BY <1>2, <1>3, <2>1 DEF EqualityBit, s
<1>7. CaseEqBit(o, p, q) = CaseEqBit(o, a, b)
  <2>1. (\A i \in Span(p, q) : Ext(p, s, i) = Ext(q, s, i)) = (\A i \in Span(a, b) : Ext(a, s, i) = Ext(b, s, i))
    BY <1>3, <1>4
  <2> QED BY <1>3, <2>1, ZenonT(40) DEF CaseEqBit, s
<1>8. CaseZBit(o, p, q) = CaseZBit(o, a, b)
  <2>1. (\A i \in Span(p, q) : Wild(o, Ext(p, s, i)) \/ Wild(o, Ext(q, s, i)) \/ Ext(p, s, i) = Ext(q, s, i))
         = (\A i \in Span(a, b) : Wild(o, Ext(a, s, i)) \/ Wild(o, Ext(b, s, i)) \/ Ext(a, s, i) = Ext(b, s, i))
    BY <1>3, <1>4
  <2> QED BY <1>3, <2>1 DEF CaseZBit, s
<1>9. CompareBit(o, p, q) = CompareBit(o, a, b)
  BY <1>5, <1>6, <1>7, <1>8 DEF CompareBit
<1> QED BY <1>2, <1>9, CompareIs

\* The truth of the bits of a value, as the operators that reduce it say it.
AnyBit(v) == IF "1" \in BitSet(v) THEN "1" ELSE IF Known(v) THEN "0" ELSE "x"

AllBits(v) == IF "0" \in BitSet(v) THEN "0" ELSE IF Known(v) THEN "1" ELSE "x"

OddBits(v) == IF ~Known(v) THEN "x" ELSE Truth(Cardinality(OnesOf(v)) % 2 = 1)

\* Truth, and the reductions | & and ^, of a value of any width.
LEMMA ReductionsAre ==
    ASSUME NEW v \in Values
    PROVE  /\ truthiness(v) = AnyBit(v) /\ reduce_word(v, "or") = AnyBit(v)
           /\ reduce_word(v, "and") = AllBits(v) /\ reduce_word(v, "xor") = OddBits(v)
           /\ AnyBit(v) \in TriState /\ AllBits(v) \in TriState /\ OddBits(v) \in TriState
<1>1. Known(v) <=> ~HasUnknown(v)
  BY KnownIs
<1>2. v.width \in Nat
  BY ValueParts
<1>3. truthiness(v) = AnyBit(v) /\ reduce_word(v, "or") = AnyBit(v)
  <2>1. "1" \in BitSet(v) <=> OnesOf(v) # {}
    BY DEF BitSet, OnesOf
  <2> QED BY <1>1, <2>1, TruthOfBits DEF AnyBit
<1>4. reduce_word(v, "and") = AllBits(v)
  <2>1. "0" \in BitSet(v) <=> \E i \in Nat : i < v.width /\ BitOf(v, i) = "0"
    <3>1. \A i : i \in 0 .. v.width - 1 <=> i \in Nat /\ i < v.width
      BY <1>2
    <3> QED BY <3>1 DEF BitSet
  <2> QED BY <1>1, <2>1, AndReduction DEF AllBits
<1>5. reduce_word(v, "xor") = OddBits(v)
  <2>1. reduce_word(v, "xor") = IF AnyUnknown(v) THEN "x" ELSE IF ones(v) % 2 = 1 THEN "1" ELSE "0"
    BY DEF reduce_word
  <2>2. ones(v) = Cardinality(OnesOf(v)) /\ (AnyUnknown(v) <=> HasUnknown(v))
    BY CountsOnes, UnknownIsUnknown
  <2> QED BY <1>1, <2>1, <2>2 DEF OddBits, Truth
<1>6. \A b \in BOOLEAN : Truth(b) \in TriState
  BY TriBits
<1>7. OddBits(v) \in TriState
  <2>1. (Cardinality(OnesOf(v)) % 2 = 1) \in BOOLEAN
    OBVIOUS
  <2> QED BY <1>6, <2>1 DEF OddBits, TriState
<1> QED BY <1>3, <1>4, <1>5, <1>7 DEF AnyBit, AllBits, TriState

\* What TruthExact asks of the operators of one operand.
OwnBit(o, v) ==
    CASE o = "r&" -> AllBits(v) [] o = "r~&" -> NotBit(AllBits(v))
      [] o = "r|" -> AnyBit(v)  [] o = "r~|" -> NotBit(AnyBit(v))
      [] o = "r^" -> OddBits(v) [] o = "r~^" -> NotBit(OddBits(v))
      [] o = "!" -> NotBit(AnyBit(v))
      [] o = "$isunknown" -> Truth(~Known(v))
      [] o = "$onehot" -> Truth(Cardinality(OnesOf(v)) \in {1})
      [] o = "$onehot0" -> Truth(Cardinality(OnesOf(v)) \in {0, 1})

\* The operators of one operand answer with a truth value.
LEMMA OwnIs ==
    ASSUME NEW v \in Values
    PROVE  /\ \A o \in Reductions \cup {"!"} : unary_self_of(o, v) = Tri(OwnBit(o, v))
           /\ \A o \in Predicates : eval_sysfunc(o, v) = Tri(OwnBit(o, v))
           /\ \A o \in Reductions \cup {"!"} \cup Predicates : OwnBit(o, v) \in TriState
<1>1. /\ truthiness(v) = AnyBit(v) /\ reduce_word(v, "or") = AnyBit(v)
      /\ reduce_word(v, "and") = AllBits(v) /\ reduce_word(v, "xor") = OddBits(v)
      /\ AnyBit(v) \in TriState /\ AllBits(v) \in TriState /\ OddBits(v) \in TriState
  BY ReductionsAre
<1>2. \A b \in TriState : NotBit(b) \in TriState
  BY DEF NotBit, TriState
<1>3. ASSUME NEW o \in Reductions \cup {"!"}
      PROVE  unary_self_of(o, v) = Tri(OwnBit(o, v)) /\ OwnBit(o, v) \in TriState
  <2>1. CASE o = "r&"
    BY <1>1, <2>1 DEF unary_self_of, OwnBit
  <2>2. CASE o = "r~&"
    BY <1>1, <1>2, <2>2 DEF unary_self_of, OwnBit
  <2>3. CASE o = "r|"
    BY <1>1, <2>3 DEF unary_self_of, OwnBit
  <2>4. CASE o = "r~|"
    BY <1>1, <1>2, <2>4 DEF unary_self_of, OwnBit
  <2>5. CASE o = "r^"
    BY <1>1, <2>5 DEF unary_self_of, OwnBit
  <2>6. CASE o = "r~^"
    BY <1>1, <1>2, <2>6 DEF unary_self_of, OwnBit
  <2>7. CASE o = "!"
    BY <1>1, <1>2, <2>7 DEF unary_self_of, OwnBit
  <2> QED BY <2>1, <2>2, <2>3, <2>4, <2>5, <2>6, <2>7 DEF Reductions
<1>4. ASSUME NEW o \in Predicates
      PROVE  eval_sysfunc(o, v) = Tri(OwnBit(o, v)) /\ OwnBit(o, v) \in TriState
  <2>0. \A b \in BOOLEAN : logic(b) = Tri(Truth(b)) /\ Truth(b) \in TriState
    BY TriBits
  <2> DEFINE n == Cardinality(OnesOf(v))
  <2>1. ones(v) = n /\ n \in Nat /\ (AnyUnknown(v) <=> HasUnknown(v)) /\ (Known(v) <=> ~HasUnknown(v))
    BY CountsOnes, UnknownIsUnknown, KnownIs, FS_CardinalityType
  <2>2. CASE o = "$isunknown"
    <3>1. AnyUnknown(v) = ~Known(v)
      BY <2>1 DEF AnyUnknown, Known
    <3>2. (~Known(v)) \in BOOLEAN
      OBVIOUS
    <3>3. eval_sysfunc(o, v) = logic(AnyUnknown(v)) /\ OwnBit(o, v) = Truth(~Known(v))
      BY <2>2 DEF eval_sysfunc, OwnBit
    <3> QED BY <2>0, <3>1, <3>2, <3>3
  <2> HIDE DEF n
  <2>3. CASE o = "$onehot"
    <3>1. eval_sysfunc(o, v) = logic(ones(v) = 1)
      BY <2>3 DEF eval_sysfunc
    <3>2. OwnBit(o, v) = Truth(n \in {1})
      BY <2>3 DEF OwnBit, n
    <3>3. (ones(v) = 1) = (n \in {1}) /\ (n \in {1}) \in BOOLEAN
      BY <2>1
    <3> QED BY <2>0, <3>1, <3>2, <3>3
  <2>4. CASE o = "$onehot0"
    <3>1. eval_sysfunc(o, v) = logic(ones(v) <= 1)
      BY <2>4 DEF eval_sysfunc
    <3>2. OwnBit(o, v) = Truth(n \in {0, 1})
      BY <2>4 DEF OwnBit, n
    <3>3. (ones(v) <= 1) = (n \in {0, 1}) /\ (n \in {0, 1}) \in BOOLEAN
      BY <2>1
    <3> QED BY <2>0, <3>1, <3>2, <3>3
  <2> QED BY <2>2, <2>3, <2>4 DEF Predicates
<1> QED BY <1>3, <1>4

\* v answers the truth value b in the context.
Says(v, b) == b \in TriState /\ Widens(v, Tri(b), 1)

\* Reductions, ! and the predicates, in a context.
LEMMA OwnAnswer ==
    ASSUME l \in Values, r \in Values, ctx \in Context, NEW o \in Reductions \cup {"!"} \cup Predicates
    PROVE  Says(eval(Source(o, 0), ctx), OwnBit(o, l))
<1> DEFINE v == eval(Source(o, 0), ctx)
           w == Mx(1, ctx.width)
           b == OwnBit(o, l)
<1>1. /\ o \in Unary /\ o \in Operators \ {"leaf"} /\ o # "?:" /\ o \notin Selects /\ o # "{n{}}"
      /\ o \in {"[i]", "!"} \cup Compares \cup Logical \cup Reductions \cup Predicates
  <2>1. o \in Unary
    BY DEF Unary
  <2>2. o \notin Binary \cup Selects \cup {"?:", "{n{}}", "leaf"}
    BY <2>1, Kinds
  <2> QED BY <2>1, <2>2 DEF Operators
<1>2. PICK node, A, X : OneNode(o, 0, 0, node, A, X, v)
  BY <1>1, Operates
<1> HIDE DEF v
<1>3. PICK s : Evals(node, A, X, w, s, v) /\ s = FALSE
  <2>1. RegionWidth(node, A, ctx) = w /\ ~RegionSigned(node, A, ctx)
    BY <1>1, <1>2, Regions
  <2>3. RegionSigned(node, A, ctx) \in BOOLEAN
    BY <1>1, <1>2, Regions
  <2>2. RegionSigned(node, A, ctx) = FALSE
    BY <2>1, <2>3
  <2> HIDE DEF w
  <2> QED BY <1>2, <2>1, <2>2 DEF OneNode
<1>4. node.op = o /\ Given(A, X, 1, l)
  BY <1>1, <1>2 DEF OneNode
<1>5. X[1][A[1]] = l
  BY <1>4, ReadsOwn DEF Given
<1> HIDE DEF w, b
<1>6. v = resize_keep_sign(Tri(b), w, FALSE)
  <2>1. CASE o \in Reductions \cup {"!"}
    <3>1. v = resize_keep_sign(unary_self_of(o, l), w, FALSE)
      BY <1>3, <1>4, <1>5, <2>1 DEF Evals
    <3> QED BY <2>1, <3>1, OwnIs DEF b
  <2>2. CASE o \in Predicates
    <3>1. v = resize_keep_sign(eval_sysfunc(o, l), w, s)
      BY <1>3, <1>4, <1>5, <2>2 DEF Evals
    <3>2. eval_sysfunc(o, l) = Tri(b)
      BY <2>2, OwnIs DEF b
    <3> QED BY <1>3, <3>1, <3>2
  <2> QED BY <2>1, <2>2
<1>7. b \in TriState
  BY OwnIs DEF b
<1>8. Tri(b) \in Values /\ Tri(b).width = 1 /\ 1 \in Nat
  BY <1>7, TriBits DEF Region
<1> QED BY <1>6, <1>7, <1>8, WidensIs DEF v, w, b, Says

\* && and ||, the right operand unread when the left one decides.
LogicalBit(o, p, q) == IF o = "&&" THEN AndBit(AnyBit(p), AnyBit(q)) ELSE OrBit(AnyBit(p), AnyBit(q))

\* The left operand decides, or the right one is read.
LEMMA LogicalIs ==
    ASSUME NEW p \in Values, NEW q \in Values, NEW o \in Logical
    PROVE  LET lt == truthiness(p)
               rt == IF lt = (IF o = "&&" THEN "0" ELSE "1") THEN lt ELSE truthiness(q)
           IN  log_bin_tri(o, lt, rt) = LogicalBit(o, p, q) /\ LogicalBit(o, p, q) \in TriState
<1> DEFINE lt == truthiness(p)
           rt == IF lt = (IF o = "&&" THEN "0" ELSE "1") THEN lt ELSE truthiness(q)
<1>1. /\ lt = AnyBit(p) /\ truthiness(q) = AnyBit(q)
      /\ AnyBit(p) \in TriState /\ AnyBit(q) \in TriState
  BY ReductionsAre
<1>2. log_bin_tri(o, lt, rt) = IF o = "&&" THEN AndBit(lt, rt) ELSE OrBit(lt, rt)
  BY DEF log_bin_tri
<1>3. \A a, b \in TriState : AndBit(a, b) \in TriState /\ OrBit(a, b) \in TriState
  BY DEF TriState, AndBit, OrBit
<1>4. CASE o = "&&"
  <2>1. AndBit(lt, rt) = AndBit(AnyBit(p), AnyBit(q))
    BY <1>1, <1>4 DEF AndBit
  <2> HIDE DEF lt, rt
  <2> QED BY <1>1, <1>2, <1>3, <1>4, <2>1 DEF LogicalBit, lt, rt
<1>5. CASE o = "||"
  <2>1. OrBit(lt, rt) = OrBit(AnyBit(p), AnyBit(q))
    BY <1>1, <1>5 DEF OrBit
  <2> HIDE DEF lt, rt
  <2> QED BY <1>1, <1>2, <1>3, <1>5, <2>1 DEF LogicalBit, lt, rt
<1> QED BY <1>4, <1>5 DEF Logical

\* Logical operators in a context.
LEMMA LogicalAnswer ==
    ASSUME l \in Values, r \in Values, ctx \in Context, NEW o \in Logical
    PROVE  Says(eval(Source(o, 0), ctx), LogicalBit(o, l, r))
<1> DEFINE v == eval(Source(o, 0), ctx)
           w == Mx(1, ctx.width)
           b == LogicalBit(o, l, r)
<1>1. /\ o \in Binary /\ o \in Operators \ {"leaf"} /\ o # "?:" /\ o \notin Selects /\ o # "{n{}}"
      /\ o \in {"[i]", "!"} \cup Compares \cup Logical \cup Reductions \cup Predicates
  <2>1. o \in Binary
    BY DEF Binary
  <2>2. o \notin Unary \cup Selects \cup {"?:", "{n{}}", "leaf"}
    BY <2>1, Kinds
  <2> QED BY <2>1, <2>2 DEF Operators
<1>2. PICK node, A, X : OneNode(o, 0, 0, node, A, X, v)
  BY <1>1, Operates
<1> HIDE DEF v
<1>3. PICK s : Evals(node, A, X, w, s, v)
  <2>1. RegionWidth(node, A, ctx) = w
    <3>1. RegionWidth(node, A, ctx) = w /\ ~RegionSigned(node, A, ctx)
      BY <1>1, <1>2, Regions
    <3> QED BY <3>1
  <2> HIDE DEF w
  <2> QED BY <1>2, <2>1 DEF OneNode
<1>4. node.op = o /\ Given(A, X, 1, l) /\ Given(A, X, 2, r)
  BY <1>1, <1>2 DEF OneNode
<1>5. X[1][A[1]] = l /\ X[2][A[2]] = r
  BY <1>4, ReadsOwn DEF Given
<1> DEFINE lt == truthiness(l)
           rt == IF lt = (IF o = "&&" THEN "0" ELSE "1") THEN lt ELSE truthiness(r)
<1> HIDE DEF w
<1>6. v = resize_keep_sign(Tri(log_bin_tri(o, lt, rt)), w, FALSE)
  BY <1>3, <1>4, <1>5 DEF Evals
<1>7. log_bin_tri(o, lt, rt) = b /\ b \in TriState
  BY LogicalIs
<1> HIDE DEF b, lt, rt
<1>8. Tri(b) \in Values /\ Tri(b).width = 1 /\ 1 \in Nat
  BY <1>7, TriBits DEF Region
<1>9. Widens(resize_keep_sign(Tri(b), Mx(1, ctx.width), FALSE), Tri(b), 1)
  BY <1>8, WidensIs
<1> QED BY <1>6, <1>7, <1>9 DEF v, w, b, Says

\* Comparisons in a context, which their operands do not see.
LEMMA CompareAnswer ==
    ASSUME l \in Values, r \in Values, ctx \in Context, NEW o \in Compares
    PROVE  Says(eval(Source(o, 0), ctx), CompareBit(o, l, r))
<1> DEFINE v == eval(Source(o, 0), ctx)
           w == Mx(1, ctx.width)
           b == CompareBit(o, l, r)
           m == Mx(l.width, r.width)
           t == Shared(l, r)
<1>1. /\ o \in Binary /\ o \in Operators \ {"leaf"} /\ o # "?:" /\ o \notin Selects /\ o # "{n{}}"
      /\ o \in {"[i]", "!"} \cup Compares \cup Logical \cup Reductions \cup Predicates
  <2>1. o \in Binary
    BY DEF Binary
  <2>2. o \notin Unary \cup Selects \cup {"?:", "{n{}}", "leaf"}
    BY <2>1, Kinds
  <2> QED BY <2>1, <2>2 DEF Operators
<1>2. PICK node, A, X : OneNode(o, 0, 0, node, A, X, v)
  BY <1>1, Operates
<1> HIDE DEF v
<1>3. PICK s : Evals(node, A, X, w, s, v)
  <2>1. RegionWidth(node, A, ctx) = w
    <3>1. RegionWidth(node, A, ctx) = w /\ ~RegionSigned(node, A, ctx)
      BY <1>1, <1>2, Regions
    <3> QED BY <3>1
  <2> HIDE DEF w
  <2> QED BY <1>2, <2>1 DEF OneNode
<1>4. node.op = o /\ Given(A, X, 1, l) /\ Given(A, X, 2, r)
  BY <1>1, <1>2 DEF OneNode
<1>5. /\ A[1].width = l.width /\ A[1].signed = l.signed /\ A[2].width = r.width /\ A[2].signed = r.signed
      /\ Reads(X[1], l) /\ Reads(X[2], r)
  BY <1>4 DEF Given, Ctx
<1>6. Ctx(Mx(A[1].width, A[2].width), A[1].signed /\ A[2].signed) = Ctx(m, t)
  BY <1>5 DEF Shared
<1> DEFINE p == X[1][Ctx(m, t)]
           q == X[2][Ctx(m, t)]
<1> HIDE DEF w
<1>7. v = resize_keep_sign(compare(o, p, q), w, FALSE)
  <2>1. v = resize_keep_sign(compare(o, X[1][Ctx(Mx(A[1].width, A[2].width), A[1].signed /\ A[2].signed)],
                                        X[2][Ctx(Mx(A[1].width, A[2].width), A[1].signed /\ A[2].signed)]), w, FALSE)
    BY <1>3, <1>4 DEF Evals
  <2> QED BY <1>6, <2>1
<1>8. /\ m \in Nat /\ t \in BOOLEAN /\ l.width <= m /\ r.width <= m
      /\ (l.signed /\ t) = t /\ (r.signed /\ t) = t
  BY ValueParts, Wider DEF Shared
<1> HIDE DEF m, t
<1>9. Prolongs(p, l, m, t) /\ Prolongs(q, r, m, t)
  BY <1>5, <1>8, SizedOperand
<1> HIDE DEF p, q
<1>10. compare(o, p, q) = Tri(b) /\ b \in TriState
  BY <1>9, ComparesAsIs DEF m, t
<1> HIDE DEF b
<1>11. Tri(b) \in Values /\ Tri(b).width = 1 /\ 1 \in Nat
  BY <1>10, TriBits DEF Region
<1>12. Widens(resize_keep_sign(Tri(b), Mx(1, ctx.width), FALSE), Tri(b), 1)
  BY <1>11, WidensIs
<1> QED BY <1>7, <1>10, <1>12 DEF v, w, b, Says

\* The operators of TruthExact that read one operand.
Owns == Reductions \cup {"!"} \cup Predicates

\* The operators of TruthExact are of kinds apart.
LEMMA Judgements ==
    /\ Compares \subseteq Binary /\ Logical \subseteq Binary /\ Owns \subseteq Unary
    /\ \A o \in Compares : o \notin Owns \cup Logical
    /\ \A o \in Owns : o \notin Compares \cup Logical
    /\ \A o \in Logical : o \notin Compares \cup Owns
    /\ \A o \in Selects \cup Wired \cup {"?:", "{n{}}", "=[]", "tree", "none"} :
          o \notin Compares \cup Owns \cup Logical
BY DEF Owns, Wired, Unary, Binary, Selects, Compares, Relational, Equality, CaseEq, CaseZ, Logical,
       Reductions, Predicates

\* What the operators of TruthExact answer.
TruthAnswered(o, v) ==
    /\ o \in Compares => Says(v, CompareBit(o, l, r))
    /\ o \in Owns => Says(v, OwnBit(o, l))
    /\ o \in Logical => Says(v, LogicalBit(o, l, r))

TruthInv == CanonicalInv /\ TruthAnswered(op, out)

\* A step answers with the truth.
LEMMA StepJudges ==
    ASSUME CanonicalInv, Next
    PROVE  TruthAnswered(op', out')
<1>0. l \in Values /\ r \in Values /\ ctx \in Context
  BY SuppliedValues DEF CanonicalInv
<1>1. ASSUME NEW o \in Unary \cup Binary, op' = o, out' = eval(Source(o, 0), ctx)
      PROVE  TruthAnswered(op', out')
  <2>1. CASE o \in Compares
    <3>1. o \notin Owns /\ o \notin Logical
      BY <2>1, Judgements
    <3>2. Says(out', CompareBit(o, l, r))
      BY <1>0, <1>1, <2>1, CompareAnswer
    <3> QED BY <1>1, <3>1, <3>2 DEF TruthAnswered
  <2>2. CASE o \in Owns
    <3>1. o \notin Compares /\ o \notin Logical
      BY <2>2, Judgements
    <3>2. Says(out', OwnBit(o, l))
      BY <1>0, <1>1, <2>2, OwnAnswer DEF Owns
    <3> QED BY <1>1, <3>1, <3>2 DEF TruthAnswered
  <2>3. CASE o \in Logical
    <3>1. o \notin Compares /\ o \notin Owns
      BY <2>3, Judgements
    <3>2. Says(out', LogicalBit(o, l, r))
      BY <1>0, <1>1, <2>3, LogicalAnswer
    <3> QED BY <1>1, <3>1, <3>2 DEF TruthAnswered
  <2>4. CASE o \notin Compares /\ o \notin Owns /\ o \notin Logical
    BY <1>1, <2>4 DEF TruthAnswered
  <2> QED BY <2>1, <2>2, <2>3, <2>4
<1>2. ASSUME op' \in Selects \cup Wired \cup {"?:", "{n{}}", "=[]", "tree"} PROVE TruthAnswered(op', out')
  <2>1. op' \notin Compares \cup Owns \cup Logical
    BY <1>2, Judgements
  <2> QED BY <2>1 DEF TruthAnswered
<1> QED BY <1>1, <1>2, StepIs

\* The predicate is about the bit the property speaks of.
LEMMA TruthAnsweredIs ==
    ASSUME TruthInv
    PROVE  TruthExact
<1> DEFINE s == l.signed /\ r.signed
           B == 0 .. Mx(l.width, r.width) - 1
           L(i) == Ext(l, s, i)
           R(i) == Ext(r, s, i)
           a == IntOf(l, s)
           b == IntOf(r, s)
           differ == \E i \in B : {L(i), R(i)} = Defined
           equal  == \A i \in B : L(i) = R(i)
           Open(p) == p = "z" \/ (p = "x" /\ op = "casex")
           Any(v) == IF "1" \in BitSet(v) THEN "1" ELSE IF Known(v) THEN "0" ELSE "x"
           All(v) == IF "0" \in BitSet(v) THEN "0" ELSE IF Known(v) THEN "1" ELSE "x"
           Odd(v) == IF ~Known(v) THEN "x" ELSE Truth(
                       Cardinality({i \in 0 .. v.width - 1 : BitOf(v, i) = "1"}) % 2 = 1)
<1>0. l \in Values /\ r \in Values /\ ctx \in Context
  BY SuppliedValues DEF CanonicalInv, TruthInv
<1>1. TruthAnswered(op, out)
  BY DEF TruthInv
<1>2. ASSUME NEW c, Says(out, c) PROVE IsBit(c)
  <2> DEFINE w == Mx(1, ctx.width)
             no == FALSE
  <2>1. w \in Nat
    BY <1>0, Wider DEF Context
  <2>2. /\ c \in TriState /\ Region(out, w, no)
        /\ \A i \in Nat : i < w => BitOf(out, i) = IF i < 1 THEN BitOf(Tri(c), i) ELSE "0"
    BY <1>2 DEF Says, Widens
  <2>3. BitOf(Tri(c), 0) = c
    BY <2>2, TriBits
  <2> HIDE DEF w, no
  <2>4. \A i \in 0 .. w - 1 : i \in Nat /\ i < w /\ (i < 1 <=> i = 0)
    BY <2>1
  <2>5. \A i \in 0 .. w - 1 : BitOf(out, i) = IF i = 0 THEN c ELSE "0"
    BY <2>2, <2>3, <2>4
  <2>6. out.width = w /\ out.signed = no
    BY <2>2 DEF Region
  <2> QED BY <2>5, <2>6 DEF IsBit, Is, w, no
<1>3. s = Shared(l, r) /\ B = Span(l, r)
  BY DEF Shared, Span
<1>4. op \in Relational => IsBit(IF ~Known(l) \/ ~Known(r) THEN "x" ELSE Truth(
              CASE op = "<" -> a < b [] op = "<=" -> a <= b
                [] op = ">" -> a > b [] op = ">=" -> a >= b))
  <2> SUFFICES ASSUME op \in Relational
               PROVE  IsBit(IF ~Known(l) \/ ~Known(r) THEN "x" ELSE Truth(
                         CASE op = "<" -> a < b [] op = "<=" -> a <= b
                           [] op = ">" -> a > b [] op = ">=" -> a >= b))
    OBVIOUS
  <2>1. IsBit(CompareBit(op, l, r))
    BY <1>1, <1>2 DEF TruthAnswered, Compares
  <2>2. CompareBit(op, l, r) = RelationalBit(op, l, r)
    BY DEF CompareBit, Relational, Equality, CaseEq, CaseZ
  <2>3. RelationalBit(op, l, r) = IF ~Known(l) \/ ~Known(r) THEN "x" ELSE Truth(Compared(op, a, b))
    BY DEF RelationalBit, Shared
  <2> HIDE DEF a, b
  <2> QED BY <2>1, <2>2, <2>3 DEF Compared
<1>5. op \in Equality => IsBit(IF differ THEN Truth(op = "!=")
              ELSE IF ~Known(l) \/ ~Known(r) THEN "x" ELSE Truth(op = "=="))
  <2> SUFFICES ASSUME op \in Equality
               PROVE  IsBit(IF differ THEN Truth(op = "!=")
                            ELSE IF ~Known(l) \/ ~Known(r) THEN "x" ELSE Truth(op = "=="))
    OBVIOUS
  <2>1. IsBit(CompareBit(op, l, r))
    BY <1>1, <1>2 DEF TruthAnswered, Compares
  <2>2. CompareBit(op, l, r) = EqualityBit(op, l, r)
    BY DEF CompareBit, Relational, Equality, CaseEq, CaseZ
  <2>3. EqualityBit(op, l, r) = IF differ THEN Truth(op = "!=")
                                ELSE IF ~Known(l) \/ ~Known(r) THEN "x" ELSE Truth(op = "==")
    BY <1>3 DEF EqualityBit
  <2> HIDE DEF differ
  <2> QED BY <2>1, <2>2, <2>3
<1>6. op \in CaseEq => IsBit(Truth(equal = (op = "===")))
  <2> SUFFICES ASSUME op \in CaseEq PROVE IsBit(Truth(equal = (op = "===")))
    OBVIOUS
  <2>1. IsBit(CompareBit(op, l, r))
    BY <1>1, <1>2 DEF TruthAnswered, Compares
  <2>2. CompareBit(op, l, r) = CaseEqBit(op, l, r)
    BY DEF CompareBit, Relational, Equality, CaseEq, CaseZ
  <2>3. CaseEqBit(op, l, r) = Truth(equal = (op = "==="))
    BY <1>3 DEF CaseEqBit
  <2> HIDE DEF equal
  <2> QED BY <2>1, <2>2, <2>3
<1>7. op \in CaseZ => IsBit(Truth(\A i \in B : Open(L(i)) \/ Open(R(i)) \/ L(i) = R(i)))
  <2> SUFFICES ASSUME op \in CaseZ
               PROVE  IsBit(Truth(\A i \in B : Open(L(i)) \/ Open(R(i)) \/ L(i) = R(i)))
    OBVIOUS
  <2> DEFINE match == \A i \in B : Open(L(i)) \/ Open(R(i)) \/ L(i) = R(i)
  <2>1. IsBit(CompareBit(op, l, r))
    BY <1>1, <1>2 DEF TruthAnswered, Compares
  <2>2. CompareBit(op, l, r) = CaseZBit(op, l, r)
    BY DEF CompareBit, Relational, Equality, CaseEq, CaseZ
  <2>3. CaseZBit(op, l, r) = Truth(match)
    BY <1>3 DEF CaseZBit, Wild
  <2> HIDE DEF match
  <2>4. IsBit(Truth(match))
    BY <2>1, <2>2, <2>3
  <2> QED BY <2>4 DEF match
<1>8. op \in Owns => IsBit(OwnBit(op, l))
  BY <1>1, <1>2 DEF TruthAnswered
<1>9. Any(l) = AnyBit(l) /\ Any(r) = AnyBit(r) /\ All(l) = AllBits(l) /\ Odd(l) = OddBits(l)
  BY DEF AnyBit, AllBits, OddBits, OnesOf
<1>10. op \in Logical => IsBit(LogicalBit(op, l, r))
  BY <1>1, <1>2 DEF TruthAnswered
<1> HIDE DEF Any, All, Odd
<1>11. /\ op = "r&" => IsBit(All(l))
       /\ op = "r~&" => IsBit(NotBit(All(l)))
       /\ op = "r|" => IsBit(Any(l))
       /\ op = "r~|" => IsBit(NotBit(Any(l)))
       /\ op = "r^" => IsBit(Odd(l))
       /\ op = "r~^" => IsBit(NotBit(Odd(l)))
       /\ op = "!"  => IsBit(NotBit(Any(l)))
       /\ op = "$isunknown" => IsBit(Truth(~Known(l)))
  <2>1. op = "r&" => OwnBit(op, l) = All(l)
    BY <1>9 DEF OwnBit
  <2>2. op = "r~&" => OwnBit(op, l) = NotBit(All(l))
    BY <1>9 DEF OwnBit
  <2>3. op = "r|" => OwnBit(op, l) = Any(l)
    BY <1>9 DEF OwnBit
  <2>4. op = "r~|" => OwnBit(op, l) = NotBit(Any(l))
    BY <1>9 DEF OwnBit
  <2>5. op = "r^" => OwnBit(op, l) = Odd(l)
    BY <1>9 DEF OwnBit
  <2>6. op = "r~^" => OwnBit(op, l) = NotBit(Odd(l))
    BY <1>9 DEF OwnBit
  <2>7. op = "!" => OwnBit(op, l) = NotBit(Any(l))
    BY <1>9 DEF OwnBit
  <2>8. op = "$isunknown" => OwnBit(op, l) = Truth(~Known(l))
    BY DEF OwnBit
  <2>9. op \in {"r&", "r~&", "r|", "r~|", "r^", "r~^", "!", "$isunknown"} => op \in Owns
    BY DEF Owns, Reductions, Predicates
  <2> QED BY <1>8, <2>1, <2>2, <2>3, <2>4, <2>5, <2>6, <2>7, <2>8, <2>9
<1>12. op \in {"$onehot", "$onehot0"} => IsBit(Truth(
              Cardinality({i \in 0 .. l.width - 1 : BitOf(l, i) = "1"}) \in
                  {1} \cup (IF op = "$onehot0" THEN {0} ELSE {})))
  <2> DEFINE n == Cardinality({i \in 0 .. l.width - 1 : BitOf(l, i) = "1"})
             want == n \in {1} \cup (IF op = "$onehot0" THEN {0} ELSE {})
  <2>0. n = Cardinality(OnesOf(l))
    BY DEF OnesOf
  <2> HIDE DEF n
  <2>1. op = "$onehot" => OwnBit(op, l) = Truth(want)
    <3>1. op = "$onehot" => want = (n \in {1})
      OBVIOUS
    <3> HIDE DEF want
    <3> QED BY <2>0, <3>1 DEF OwnBit
  <2>2. op = "$onehot0" => OwnBit(op, l) = Truth(want)
    <3>1. op = "$onehot0" => want = (n \in {0, 1})
      OBVIOUS
    <3> HIDE DEF want
    <3> QED BY <2>0, <3>1 DEF OwnBit
  <2>3. op \in {"$onehot", "$onehot0"} => op \in Owns
    BY DEF Owns, Predicates
  <2> HIDE DEF want
  <2>4. op \in {"$onehot", "$onehot0"} => IsBit(Truth(want))
    BY <1>8, <2>1, <2>2, <2>3
  <2> QED BY <2>4 DEF want, n
<1>13. op = "&&" => IsBit(AndBit(Any(l), Any(r)))
  BY <1>9, <1>10 DEF LogicalBit, Logical
<1>14. op = "||" => IsBit(OrBit(Any(l), Any(r)))
  BY <1>9, <1>10 DEF LogicalBit, Logical
<1> QED BY <1>4, <1>5, <1>6, <1>7, <1>11, <1>12, <1>13, <1>14 DEF TruthExact, Any, All, Odd

\* Comparisons, reductions and logical operators answer the truth IEEE 1800 gives
\* them, at every width and whatever the context (relational, ordering, log_eq,
\* case_eq, casez_eq, reduce_word, truthiness, log_bin_tri).
THEOREM TruthExactHolds == Spec => []TruthExact
<1>1. Init => TruthInv
  <2> SUFFICES ASSUME Init PROVE TruthInv
    OBVIOUS
  <2>1. CanonicalInv
    BY SuppliedValues DEF Init, CanonicalInv
  <2>2. op \notin Compares \cup Owns \cup Logical
    BY Judgements DEF Init
  <2> QED BY <2>1, <2>2 DEF TruthInv, TruthAnswered
<1>2. TruthInv /\ [Next]_vars => TruthInv'
  <2> SUFFICES ASSUME TruthInv, [Next]_vars PROVE TruthInv'
    OBVIOUS
  <2>1. CASE Next
    <3>1. CanonicalInv' /\ UNCHANGED <<l, r, ctx>>
      BY <2>1, StepAnswers DEF TruthInv, CanonicalInv
    <3>2. TruthAnswered(op', out')
      BY <2>1, StepJudges DEF TruthInv
    <3>3. TruthAnswered(op, out)'
      BY <3>1, <3>2 DEF TruthAnswered, Says, Widens
    <3> QED BY <3>1, <3>3 DEF TruthInv
  <2>2. CASE UNCHANGED vars
    BY <2>2 DEF vars, TruthInv, CanonicalInv, TruthAnswered, Says, Widens
  <2> QED BY <2>1, <2>2
<1> QED BY <1>1, <1>2, TruthAnsweredIs, PTL DEF Spec

-----------------------------------------------------------------------------
(* Values that hold a number.                                              *)

\* The integer of a known value is the number its ones make, modulo 2 ^ its width.
LEMMA OnesAlike ==
    ASSUME NEW v \in Values, NEW s \in BOOLEAN
    PROVE  IntOf(v, s) \in Int /\ SumAt(OnesOf(v)) \in Int /\ Alike(SumAt(OnesOf(v)), IntOf(v, s), v.width)
<1> DEFINE a == SumAt(OnesOf(v))  b == IntOf(v, s)  p == 2 ^ v.width  q == IF Below0(v, s) THEN 1 ELSE 0
<1>1. a \in Nat /\ p \in Nat /\ b = a - (IF Below0(v, s) THEN p ELSE 0)
  BY IntIs
<1>2. q \in Int /\ (Below0(v, s) => q = 1) /\ (~Below0(v, s) => q = 0)
  OBVIOUS
<1> HIDE DEF a, b, q, p
<1>3. a = b + p * q /\ b \in Int
  BY <1>1, <1>2
<1> QED BY <1>1, <1>2, <1>3 DEF Alike, a, b, p

\* - on a known value is the negation of its integer.
LEMMA NegateHolds ==
    ASSUME NEW v \in Values, ~HasUnknown(v), NEW s \in BOOLEAN
    PROVE  /\ Holds(OfDigits(mw_neg(Digits(v)), v.width, v.signed), v.width, v.signed, -IntOf(v, s))
           /\ \E C : /\ PlaceSet(C) /\ DigitsOf(mw_neg(Digits(v)), NWords(v.width), C)
                     /\ LET m == NWords(v.width) * WordBits
                        IN  SumAt(Below(C, m)) \in Int /\ Alike(SumAt(Below(C, m)), -SumAt(OnesOf(v)), m)
<1> DEFINE w == v.width
           n == NWords(w)
           m == n * WordBits
           B == OnesOf(v)
           a == Digits(v)
<1>1. w \in Nat /\ v.signed \in BOOLEAN /\ n \in Nat \ {0} /\ m \in Nat /\ w <= m
  BY ValueParts, WordsHold
<1>2. PlaceSet(B) /\ SumAt(B) \in Int
  BY IntIs
<1>3. DOMAIN a = 0 .. n - 1 /\ DigitsOf(a, n, B) /\ Below(B, m) = B
  BY HeldDigits
<1> HIDE DEF a, B, m, n
<1>4. PICK C : /\ PlaceSet(C) /\ DigitsOf(mw_neg(a), n, C)
               /\ \E c \in Int : SumAt(C) = -SumAt(Below(B, m)) + 2 ^ m * c
  BY <1>1, <1>2, <1>3, NegatesWords DEF m
<1>5. SumAt(C) \in Int /\ Alike(SumAt(C), -SumAt(B), m) /\ -SumAt(B) \in Int
  BY <1>2, <1>3, <1>4, SumType DEF Alike
<1>6. IntOf(v, s) \in Int /\ Alike(SumAt(B), IntOf(v, s), w)
  BY OnesAlike DEF B
<1>7. Alike(SumAt(C), -IntOf(v, s), w)
  <2>1. Alike(SumAt(C), -SumAt(B), w)
    BY <1>1, <1>5, AlikeBelow
  <2>2. Alike(-SumAt(B), -IntOf(v, s), w)
    BY <1>1, <1>2, <1>6, AlikeSteps
  <2>3. -IntOf(v, s) \in Int
    BY <1>6
  <2> QED BY <1>1, <1>5, <2>1, <2>2, <2>3, AlikeSteps
<1>8. Holds(OfDigits(mw_neg(a), w, v.signed), w, v.signed, -IntOf(v, s))
  <2>1. -IntOf(v, s) \in Int /\ w <= w
    BY <1>1, <1>6
  <2> QED BY <1>1, <1>4, <1>7, <2>1, DigitsHold DEF n
<1>9. SumAt(Below(C, m)) \in Int /\ Alike(SumAt(Below(C, m)), -SumAt(B), m)
  <2>1. PICK h \in Nat : SumAt(C) = SumAt(Below(C, m)) + 2 ^ m * h
    BY <1>1, <1>4, BelowType
  <2>2. SumAt(Below(C, m)) \in Int
    BY <1>1, <1>4, BelowType
  <2>3. Alike(SumAt(C), SumAt(Below(C, m)), m)
    BY <2>1 DEF Alike
  <2>4. Alike(SumAt(Below(C, m)), SumAt(C), m)
    BY <1>1, <1>5, <2>2, <2>3, AlikeSteps
  <2> QED BY <1>1, <1>5, <2>2, <2>4, AlikeSteps
<1> QED BY <1>4, <1>8, <1>9 DEF n, m, a, B

\* + and - past the native lanes.
LEMMA WideHolds ==
    ASSUME NEW w \in Nat, NEW s \in BOOLEAN, NEW p, NEW q, Region(p, w, s), Region(q, w, s),
           ~HasUnknown(p), ~HasUnknown(q)
    PROVE  LET a == Digits(p)
               b == Digits(q)
               Out(x) == OfDigits(mw_mask(x, w), w, s)
           IN  /\ Holds(Out(mw_add(a, b)), w, s, IntOf(p, s) + IntOf(q, s))
               /\ Holds(Out(mw_add(a, mw_neg(b))), w, s, IntOf(p, s) - IntOf(q, s))
<1> DEFINE n == NWords(w)
           m == n * WordBits
           A == OnesOf(p)
           B == OnesOf(q)
           a == Digits(p)
           b == Digits(q)
           i == IntOf(p, s)
           j == IntOf(q, s)
<1>1. p \in Values /\ q \in Values /\ p.width = w /\ q.width = w
  BY DEF Region
<1>2. n \in Nat /\ m \in Nat /\ w <= m
  BY WordsHold
<1>3. /\ PlaceSet(A) /\ DOMAIN a = 0 .. n - 1 /\ DigitsOf(a, n, A) /\ Below(A, m) = A
      /\ PlaceSet(B) /\ DigitsOf(b, n, B) /\ Below(B, m) = B
  BY <1>1, HeldDigits, IntIs
<1>4. /\ i \in Int /\ SumAt(A) \in Int /\ Alike(SumAt(A), i, w)
      /\ j \in Int /\ SumAt(B) \in Int /\ Alike(SumAt(B), j, w)
  BY <1>1, OnesAlike
<1>5. PICK N : /\ PlaceSet(N) /\ DigitsOf(mw_neg(b), n, N)
               /\ SumAt(Below(N, m)) \in Int /\ Alike(SumAt(Below(N, m)), -SumAt(B), m)
  BY <1>1, NegateHolds
<1> HIDE DEF a, b, A, B, m, n, i, j
<1>6. ASSUME NEW d, NEW E, PlaceSet(E), DigitsOf(d, n, E), NEW k \in Int, Alike(SumAt(Below(E, m)), k, w),
             SumAt(Below(E, m)) \in Int
      PROVE  Holds(OfDigits(mw_mask(mw_add(a, d), w), w, s), w, s, i + k)
  <2>1. PICK C : /\ PlaceSet(C) /\ DigitsOf(mw_add(a, d), n, C)
                 /\ \E c \in Int : SumAt(C) = SumAt(Below(A, m)) + SumAt(Below(E, m)) + 2 ^ m * c
    BY <1>2, <1>3, <1>6, AddsWords DEF m
  <2>2. SumAt(C) \in Int /\ SumAt(A) + SumAt(Below(E, m)) \in Int /\ i + k \in Int
    BY <1>4, <1>6, <2>1, SumType
  <2>3. Alike(SumAt(C), SumAt(A) + SumAt(Below(E, m)), m)
    BY <1>3, <2>1 DEF Alike
  <2>4. Alike(SumAt(C), SumAt(A) + SumAt(Below(E, m)), w)
    BY <1>2, <2>2, <2>3, AlikeBelow
  <2>5. Alike(SumAt(A) + SumAt(Below(E, m)), i + k, w)
    BY <1>4, <1>6, AlikeSteps
  <2>6. Alike(SumAt(C), i + k, w) /\ w <= w
    BY <2>2, <2>4, <2>5, AlikeSteps
  <2> QED BY <2>1, <2>2, <2>6, DigitsHold DEF n
<1>7. Holds(OfDigits(mw_mask(mw_add(a, b), w), w, s), w, s, i + j)
  BY <1>3, <1>4, <1>6
<1>8. Holds(OfDigits(mw_mask(mw_add(a, mw_neg(b)), w), w, s), w, s, i - j)
  <2>1. Alike(-SumAt(B), -j, w) /\ -SumAt(B) \in Int /\ -j \in Int
    <3>1. -SumAt(B) \in Int /\ -j \in Int
      BY <1>4
    <3>2. Alike(-SumAt(B), -j, w)
      BY <1>4, AlikeSteps, Zenon
    <3> QED BY <3>1, <3>2
  <2>2. Alike(SumAt(Below(N, m)), -SumAt(B), w)
    BY <1>2, <1>5, <2>1, AlikeBelow
  <2>3. Alike(SumAt(Below(N, m)), -j, w)
    BY <1>5, <2>1, <2>2, AlikeSteps
  <2>4. Holds(OfDigits(mw_mask(mw_add(a, mw_neg(b)), w), w, s), w, s, i + (-j))
    BY <1>5, <1>6, <2>1, <2>3
  <2>5. i + (-j) = i - j
    BY <1>4
  <2> QED BY <2>4, <2>5
<1> QED BY <1>7, <1>8 DEF a, b, i, j

\* The words of a known value, read as a number, are its ones.
LEMMA ReadIntIs ==
    ASSUME NEW v \in Values, ~HasUnknown(v), NEW s \in BOOLEAN
    PROVE  ReadInt(v, s) = IntOf(v, s /\ v.signed)
<1> DEFINE N == NWords(v.width)
           B == OnesOf(v)
           g == [k \in DOMAIN v.val |-> Num(v.val[k]) * 2 ^ (k * WordBits)]
           h == [k \in 0 .. N - 1 |-> 2 ^ (k * WordBits) * Num(WordAt(B, k))]
<1>1. v.width \in Nat /\ N \in Nat /\ v.val \in PlanesOf(v.width) /\ v.signed \in BOOLEAN
  BY ValueParts, WordsHold
<1>2. DOMAIN v.val = 0 .. N - 1
  BY <1>1 DEF PlanesOf, Index
<1>3. /\ \A k \in 0 .. N - 1 : v.val[k] = WordAt(B, k)
      /\ Below(B, N * WordBits) = B /\ PlaceSet(B) /\ SumAt(B) \in Nat
  BY HeldDigits, IntIs
<1> HIDE DEF B, N
<1>4. \A k \in Nat : 2 ^ (k * WordBits) \in Nat /\ Num(WordAt(B, k)) \in Nat
  BY WordOrder, PowerOfTwo, WordsOf
<1>5. g = h
  <2>1. \A k \in 0 .. N - 1 : Num(v.val[k]) * 2 ^ (k * WordBits) = 2 ^ (k * WordBits) * Num(WordAt(B, k))
    <3> TAKE k \in 0 .. N - 1
    <3> DEFINE x == Num(WordAt(B, k))  y == 2 ^ (k * WordBits)
    <3>1. x \in Nat /\ y \in Nat /\ Num(v.val[k]) = x
      BY <1>1, <1>3, <1>4
    <3> HIDE DEF x, y
    <3>2. x * y = y * x
      BY <3>1
    <3> QED BY <3>1, <3>2 DEF x, y
  <2> QED BY <1>2, <2>1
<1>6. SumFunction(g) = SumOver(h, 0 .. N - 1)
  BY <1>2, <1>5, SumFunctionIs
<1> HIDE DEF g
<1>7. \A n \in Nat : n <= N => SumOver(h, 0 .. n - 1) = SumAt(Below(B, n * WordBits))
  <2> DEFINE P == {n \in Nat : n <= N => SumOver(h, 0 .. n - 1) = SumAt(Below(B, n * WordBits))}
  <2>0. \A n \in Nat : IsFiniteSet(0 .. n - 1)
    <3> TAKE n \in Nat
    <3>1. 0 \in Int /\ n - 1 \in Int
      OBVIOUS
    <3> QED BY <3>1, FS_Interval
  <2>1. 0 \in P
    <3>1. 0 .. 0 - 1 = {} /\ 0 * WordBits = 0 /\ Below(B, 0) = {}
      <4>1. 0 .. 0 - 1 = {} /\ 0 * WordBits = 0
        BY WordBitsAssumption
      <4>2. \A i \in B : ~(i < 0)
        BY <1>3 DEF PlaceSet
      <4> QED BY <4>1, <4>2 DEF Below
    <3>2. SumOver(h, {}) = 0
      <4>1. IsFiniteSet({}) /\ \A x \in {} : h[x] \in Int
        BY FS_EmptySet
      <4> HIDE DEF h
      <4>2. Summing(h, {}) = SumStep(Summing(h, {}), h, {})
        BY <4>1, SummingSolves
      <4>3. Summing(h, {})[{}] = 0
        <5>1. \A f : SumStep(f, h, {})[{}] = 0
          BY DEF SumStep
        <5> QED BY <4>2, <5>1
      <4> QED BY <4>3 DEF SumOver
    <3>3. SumAt({}) = 0
      <4>1. PlaceSet({})
        BY FS_EmptySet DEF PlaceSet
      <4> QED BY <4>1, SumType
    <3> HIDE DEF h
    <3> QED BY <3>1, <3>2, <3>3
  <2>2. ASSUME NEW n \in Nat, n \in P, n + 1 <= N
        PROVE  SumOver(h, 0 .. (n + 1) - 1) = SumAt(Below(B, (n + 1) * WordBits))
    <3> DEFINE S == 0 .. (n + 1) - 1
    <3>1. n \in S /\ S \ {n} = 0 .. n - 1 /\ IsFiniteSet(S) /\ S \subseteq 0 .. N - 1
      <4>1. n + 1 \in Nat
        OBVIOUS
      <4>2. IsFiniteSet(S)
        BY <2>0, <4>1
      <4> QED BY <1>1, <2>2, <4>2
    <3>2. \A k \in 0 .. N - 1 : h[k] \in Int
      BY <1>1, <1>4
    <3>3. h[n] = 2 ^ (n * WordBits) * Num(WordAt(B, n))
      BY <3>1
    <3> HIDE DEF h, S
    <3>4. SumOver(h, S) = h[n] + SumOver(h, S \ {n})
      BY <3>1, <3>2, SumRemove
    <3>5. SumOver(h, 0 .. n - 1) = SumAt(Below(B, n * WordBits))
      BY <1>1, <2>2
    <3>6. SumAt(Below(B, (n + 1) * WordBits)) = SumAt(Below(B, n * WordBits)) + h[n]
      BY <1>3, <3>3, NextWord
    <3>7. SumAt(Below(B, n * WordBits)) \in Int /\ h[n] \in Int
      BY <1>3, <3>1, <3>2, BelowType, WordOrder
    <3> DEFINE x == SumOver(h, S)  y == SumAt(Below(B, n * WordBits))  z == SumAt(Below(B, (n + 1) * WordBits))
    <3>8. x = h[n] + y /\ z = y + h[n] /\ y \in Int /\ h[n] \in Int
      BY <3>1, <3>4, <3>5, <3>6, <3>7
    <3> HIDE DEF x, y, z
    <3>9. x = z
      BY <3>8
    <3> QED BY <3>9 DEF x, z, S
  <2>3. ASSUME NEW n \in Nat, n \in P PROVE n + 1 \in P
    <3> DEFINE Q(k) == SumOver(h, 0 .. k - 1) = SumAt(Below(B, k * WordBits))
    <3>3. n + 1 \in Nat
      OBVIOUS
    <3>1. n + 1 <= N => Q(n + 1)
      BY <2>2, <2>3
    <3>2. n + 1 \in P <=> (n + 1 <= N => Q(n + 1))
      BY <3>3, Zenon
    <3> QED BY <3>1, <3>2
  <2>4. Nat \subseteq P
    <3> HIDE DEF P
    <3> QED BY <2>1, <2>3, SetInduction
  <2> QED BY <2>4
<1> HIDE DEF h
<1>8. SumFunction(g) = SumAt(B)
  BY <1>1, <1>3, <1>6, <1>7
<1>9. ReadInt(v, s) = IF s /\ v.signed /\ Negative(v) THEN SumAt(B) - 2 ^ v.width ELSE SumAt(B)
  BY <1>8 DEF ReadInt, g
<1>10. Negative(v) <=> BitOf(v, v.width - 1) = "1"
  BY TopBit DEF Negative
<1>11. /\ 2 ^ v.width \in Nat
       /\ IntOf(v, s /\ v.signed) = SumAt(B) - (IF Below0(v, s /\ v.signed) THEN 2 ^ v.width ELSE 0)
  <2>1. (s /\ v.signed) \in BOOLEAN
    BY <1>1
  <2> QED BY <2>1, IntIs DEF B
<1>12. (s /\ v.signed /\ Negative(v)) <=> Below0(v, s /\ v.signed)
  BY <1>10 DEF Below0
<1> DEFINE x == SumAt(B)  p == 2 ^ v.width  neg == Below0(v, s /\ v.signed)  a == ReadInt(v, s)  b == IntOf(v, s /\ v.signed)
<1>13. x \in Nat /\ p \in Nat /\ a = (IF neg THEN x - p ELSE x) /\ b = x - (IF neg THEN p ELSE 0)
  BY <1>3, <1>9, <1>11, <1>12
<1> HIDE DEF x, p, neg, a, b
<1>14. a = b
  BY <1>13
<1> QED BY <1>14 DEF a, b

\* The meant answer of an operator is an integer.
LEMMA ComputedType ==
    ASSUME NEW o \in Arith, NEW a \in Int, NEW b \in Int, o \in {"/", "%"} => b # 0
    PROVE  Computed(o, a, b) \in Int
<1>1. o \in {"/", "%"} => Quot(a, b) \in Int
  <2> SUFFICES ASSUME b # 0 PROVE Quot(a, b) \in Int
    OBVIOUS
  <2> DEFINE x == IF a < 0 THEN -a ELSE a  y == IF b < 0 THEN -b ELSE b  q == x \div y
  <2>1. x \in Int /\ y \in Nat \ {0}
    OBVIOUS
  <2> HIDE DEF x, y
  <2>2. q \in Int
    BY <2>1, Divides, Zenon
  <2>3. Quot(a, b) = IF (a < 0) = (b < 0) THEN q ELSE -q
    BY DEF Quot, x, y
  <2> HIDE DEF q
  <2> QED BY <2>2, <2>3
<1>2. o = "%" => Rest(a, b) \in Int
  <2> SUFFICES ASSUME o = "%" PROVE Rest(a, b) \in Int
    OBVIOUS
  <2> DEFINE q == Quot(a, b)
  <2>1. q \in Int /\ Rest(a, b) = a - b * q
    BY <1>1 DEF Rest
  <2> HIDE DEF q
  <2> QED BY <2>1
<1> QED BY <1>1, <1>2 DEF Computed, Arith

-----------------------------------------------------------------------------
(* Signs and magnitudes.                                                   *)

\* The sign of a known value, and its magnitude.
LEMMA SignIs ==
    ASSUME NEW v \in Values, ~HasUnknown(v), NEW s \in BOOLEAN
    PROVE  LET i == IntOf(v, s)
               a == SumAt(OnesOf(v))
           IN  /\ i \in Int /\ a \in Nat /\ a < 2 ^ v.width
               /\ (s /\ Negative(v)) <=> i < 0
               /\ i < 0 => i = a - 2 ^ v.width /\ a > 0
               /\ ~(i < 0) => i = a
               /\ i = 0 <=> OnesOf(v) = {}
<1> DEFINE i == IntOf(v, s)  a == SumAt(OnesOf(v))  p == 2 ^ v.width  neg == Below0(v, s)  B == OnesOf(v)
<1>1. PlaceSet(B) /\ a \in Nat /\ a < p /\ p \in Nat /\ i = a - (IF neg THEN p ELSE 0)
  BY IntIs
<1>2. (s /\ Negative(v)) <=> neg
  BY TopBit DEF Negative, Below0
<1>3. \A b \in B : b \in Nat /\ 1 <= a
  <2> TAKE b \in B
  <2>1. b \in Nat /\ 2 ^ b <= a
    BY <1>1, SumType DEF PlaceSet
  <2>2. 2 ^ b \in Nat \ {0}
    BY <2>1, PowerOfTwo
  <2> DEFINE e == 2 ^ b
  <2> HIDE DEF e, a, B
  <2> QED BY <1>1, <2>1, <2>2 DEF e
<1>4. neg => B # {}
  <2> SUFFICES ASSUME neg PROVE v.width - 1 \in B
    OBVIOUS
  <2>1. v.width - 1 \in Nat /\ v.width - 1 < v.width /\ BitOf(v, v.width - 1) = "1" /\ v.width \in Nat
    BY TopBit, ValueParts DEF Below0
  <2> QED BY <2>1 DEF OnesOf
<1>5. B = {} => a = 0
  BY <1>1, SumType
<1> HIDE DEF i, a, p, neg, B
<1>6. neg => a > 0
  BY <1>1, <1>3, <1>4
<1>7. i \in Int /\ (neg <=> i < 0) /\ (i < 0 => i = a - p /\ a > 0) /\ (~(i < 0) => i = a)
  BY <1>1, <1>6
<1>8. i = 0 <=> B = {}
  BY <1>1, <1>3, <1>4, <1>5, <1>7
<1> QED BY <1>1, <1>2, <1>7, <1>8 DEF i, a, p, B

\* The magnitude the signed division takes of an operand.
LEMMA MagnitudeIs ==
    ASSUME NEW v \in Values, ~HasUnknown(v), NEW s \in BOOLEAN
    PROVE  LET n == NWords(v.width)
               a == IF s /\ Negative(v) THEN mw_mask(mw_neg(Digits(v)), v.width) ELSE Digits(v)
           IN  DigitArray(a, n) /\ Val(a, n, n) = Magnitude(IntOf(v, s))
<1> DEFINE w == v.width  n == NWords(w)  m == n * WordBits  B == OnesOf(v)  i == IntOf(v, s)  x == SumAt(B)
           d == Digits(v)
<1>1. w \in Nat /\ n \in Nat \ {0} /\ m \in Nat /\ n \in 0 .. n
  BY ValueParts, WordsHold
<1>2. /\ DOMAIN d = 0 .. n - 1 /\ DigitsOf(d, n, B) /\ Below(B, m) = B /\ PlaceSet(B)
  BY HeldDigits, IntIs
<1>3. /\ i \in Int /\ x \in Nat /\ x < 2 ^ w
      /\ (s /\ Negative(v)) <=> i < 0
      /\ i < 0 => i = x - 2 ^ w /\ x > 0
      /\ ~(i < 0) => i = x
  BY SignIs
<1>4. CASE ~(s /\ Negative(v))
  <2> HIDE DEF d, B, n
  <2>1. DigitArray(d, n) /\ Val(d, n, n) = Low(B, n)
    BY <1>1, <1>2, ValOf
  <2>2. Low(B, n) = x
    BY <1>2 DEF Low
  <2>3. x = Magnitude(i)
    BY <1>3, <1>4 DEF Magnitude
  <2> HIDE DEF x, i, w
  <2> QED BY <1>4, <2>1, <2>2, <2>3 DEF d, n, i, w
<1>5. CASE s /\ Negative(v)
  <2> DEFINE e == mw_mask(mw_neg(d), w)
  <2>1. PICK C : /\ PlaceSet(C) /\ DigitsOf(e, n, C) /\ DOMAIN e = 0 .. n - 1
                 /\ Below(C, m) = C /\ SumAt(C) \in Nat /\ SumAt(C) < 2 ^ w
                 /\ Alike(SumAt(C), -x, w)
    <3> HIDE DEF d, B, w
    <3> QED BY <1>1, <1>2, MaskedNegation
  <2> HIDE DEF e
  <2>2. DigitArray(e, n) /\ Val(e, n, n) = SumAt(C)
    <3> HIDE DEF n
    <3>1. DigitArray(e, n) /\ Val(e, n, n) = Low(C, n)
      BY <1>1, <2>1, ValOf
    <3> QED BY <2>1, <3>1 DEF Low
  <2>3. SumAt(C) = Magnitude(i)
    <3> DEFINE p == 2 ^ w  y == p - x
    <3>1. y \in Nat /\ y < p /\ Magnitude(i) = y /\ p \in Nat
      <4>1. p \in Nat
        BY <1>1, PowerOfTwo
      <4> HIDE DEF i, x, p
      <4>2. x \in Nat /\ x < p /\ i = x - p /\ x > 0
        BY <1>3, <1>5 DEF p
      <4> QED BY <4>1, <4>2 DEF Magnitude
    <3>2. Alike(SumAt(C), y, w)
      <4>1. Alike(-x, y, w)
        <5>1. -x = y + p * (-1) /\ -1 \in Int
          BY <1>3, <3>1
        <5> HIDE DEF x, y, w
        <5> QED BY <5>1 DEF Alike, p
      <4>2. -x \in Int /\ y \in Int /\ SumAt(C) \in Int
        BY <1>3, <2>1, <3>1
      <4> HIDE DEF x, y, w
      <4> QED BY <1>1, <2>1, <4>1, <4>2, AlikeSteps
    <3>3. SumAt(C) = y
      <4> HIDE DEF y, w
      <4> QED BY <1>1, <2>1, <3>1, <3>2, AlikeExact DEF p
    <3> QED BY <3>1, <3>3
  <2> HIDE DEF i, w, n
  <2> QED BY <1>5, <2>2, <2>3 DEF e, d, n, i, w
<1> QED BY <1>4, <1>5

\* Multiplication past the native lanes.
LEMMA TimesHolds ==
    ASSUME NEW w \in Nat, NEW s \in BOOLEAN, NEW p, NEW q, Region(p, w, s), Region(q, w, s),
           ~HasUnknown(p), ~HasUnknown(q)
    PROVE  Holds(OfDigits(mw_mask(mw_mul(Digits(p), Digits(q), NWords(w)), w), w, s), w, s,
                 IntOf(p, s) * IntOf(q, s))
<1> DEFINE n == NWords(w)
           m == n * WordBits
           A == OnesOf(p)
           B == OnesOf(q)
           a == Digits(p)
           b == Digits(q)
           i == IntOf(p, s)
           j == IntOf(q, s)
<1>1. p \in Values /\ q \in Values /\ p.width = w /\ q.width = w
  BY DEF Region
<1>2. n \in Nat /\ m \in Nat /\ w <= m /\ w <= w
  BY WordsHold
<1>3. /\ PlaceSet(A) /\ DOMAIN a = 0 .. n - 1 /\ DigitsOf(a, n, A) /\ Below(A, m) = A
      /\ PlaceSet(B) /\ DOMAIN b = 0 .. n - 1 /\ DigitsOf(b, n, B) /\ Below(B, m) = B
  BY <1>1, HeldDigits, IntIs
<1>4. /\ i \in Int /\ SumAt(A) \in Int /\ Alike(SumAt(A), i, w)
      /\ j \in Int /\ SumAt(B) \in Int /\ Alike(SumAt(B), j, w)
  BY <1>1, OnesAlike
<1> HIDE DEF a, b, A, B, n, i, j
<1>5. Low(A, n) = SumAt(A) /\ Low(B, n) = SumAt(B)
  BY <1>3 DEF Low
<1>6. PICK C : /\ PlaceSet(C) /\ DigitsOf(mw_mul(a, b, n), n, C)
               /\ Alike(SumAt(C), SumAt(A) * SumAt(B), m)
  <2>1. \E C : /\ PlaceSet(C) /\ DigitsOf(mw_mul(a, b, n), n, C)
               /\ Alike(SumAt(C), Low(A, n) * Low(B, n), m)
    BY <1>2, <1>3, MulWords
  <2> QED BY <1>5, <2>1
<1> DEFINE x == SumAt(A)  y == SumAt(B)  u == x * y  v == i * j
<1>7. u \in Int /\ v \in Int
  BY <1>4
<1>8. Alike(u, v, w)
  BY <1>4, AlikeTimes
<1> HIDE DEF m, u, v
<1>9. Alike(SumAt(C), u, w)
  <2>1. Alike(SumAt(C), u, m) /\ SumAt(C) \in Int
    BY <1>6, SumType DEF u
  <2> QED BY <1>2, <1>7, <2>1, AlikeBelow
<1>10. Alike(SumAt(C), v, w)
  <2>1. SumAt(C) \in Int
    BY <1>6, SumType
  <2> QED BY <1>7, <1>8, <1>9, <2>1, AlikeSteps
<1>11. Holds(OfDigits(mw_mask(mw_mul(a, b, n), w), w, s), w, s, v)
  BY <1>2, <1>6, <1>7, <1>10, DigitsHold DEF n
<1> QED BY <1>11 DEF a, b, n, v, i, j

\* Division past the native lanes.
LEMMA DividesHolds ==
    ASSUME NEW w \in Nat, NEW s \in BOOLEAN, NEW p, NEW q, Region(p, w, s), Region(q, w, s),
           ~HasUnknown(p), ~HasUnknown(q)
    PROVE  LET a == Digits(p)
               b == Digits(q)
               i == IntOf(p, s)
               j == IntOf(q, s)
               Out(o) == OfDigits(mw_mask(wide_divmod(o, a, b, s /\ Negative(p), s /\ Negative(q), w), w), w, s)
           IN  /\ mw_is_zero(b) <=> j = 0
               /\ j # 0 => Holds(Out("/"), w, s, Quot(i, j)) /\ Holds(Out("%"), w, s, Rest(i, j))
<1> DEFINE n == NWords(w)
           a == Digits(p)
           b == Digits(q)
           i == IntOf(p, s)
           j == IntOf(q, s)
           sa == s /\ Negative(p)
           sb == s /\ Negative(q)
           x == IF sa THEN mw_mask(mw_neg(a), w) ELSE a
           y == IF sb THEN mw_mask(mw_neg(b), w) ELSE b
           qr == mw_divmod(x, y)
           back(z, neg) == IF neg THEN mw_mask(mw_neg(z), w) ELSE z
<1>1. p \in Values /\ q \in Values /\ p.width = w /\ q.width = w
  BY DEF Region
<1>2. n \in Nat \ {0}
  BY WordsHold
<1>3. i \in Int /\ j \in Int /\ (sa <=> i < 0) /\ (sb <=> j < 0) /\ (j = 0 <=> OnesOf(q) = {})
  BY <1>1, SignIs
<1>4. mw_is_zero(b) <=> j = 0
  <2> DEFINE B == OnesOf(q)
  <2>1. DOMAIN b = 0 .. n - 1 /\ DigitsOf(b, n, B) /\ Below(B, n * WordBits) = B /\ PlaceSet(B)
    BY <1>1, HeldDigits, IntIs
  <2> HIDE DEF b, B, n
  <2>2. \A k \in 0 .. n - 1 : b[k] = Num(WordAt(B, k))
    BY <2>1 DEF DigitsOf
  <2>3. \A k : WordAt({}, k) = {} /\ Num(WordAt({}, k)) = 0
    <3>1. \A k : WordAt({}, k) = {}
      BY DEF WordAt
    <3>2. \A k : Num(WordAt({}, k)) = SumAt(WordAt({}, k))
      BY WordsOf
    <3> QED BY <3>1, <3>2, NoPlaces
  <2>4. ASSUME B = {} PROVE mw_is_zero(b)
    BY <2>1, <2>2, <2>3, <2>4 DEF mw_is_zero
  <2>5. ASSUME mw_is_zero(b) PROVE B = {}
    <3>1. \A k \in 0 .. n - 1 : Num(WordAt(B, k)) = Num(WordAt({}, k))
      BY <2>1, <2>2, <2>3, <2>5 DEF mw_is_zero
    <3>2. Low(B, n) = Low({}, n)
      BY <1>2, <2>1, <3>1, NoPlaces, LowSame
    <3>3. SumAt(B) = 0
      BY <2>1, <3>2, NoPlaces DEF Low
    <3> SUFFICES ASSUME NEW t \in B PROVE FALSE
      OBVIOUS
    <3>4. t \in Nat /\ 2 ^ t <= 0
      BY <2>1, <3>3, SumType DEF PlaceSet
    <3>5. 2 ^ t \in Nat \ {0}
      BY <3>4, PowerOfTwo
    <3> QED BY <3>4, <3>5
  <2> QED BY <1>3, <2>4, <2>5 DEF B
<1>5. /\ DigitArray(x, n) /\ Val(x, n, n) = Magnitude(i)
      /\ DigitArray(y, n) /\ Val(y, n, n) = Magnitude(j)
  BY <1>1, MagnitudeIs
<1>6. ASSUME NEW o \in {"/", "%"}
      PROVE  wide_divmod(o, a, b, sa, sb, w) = IF o = "/" THEN back(qr[1], sa # sb) ELSE back(qr[2], sa)
  BY DEF wide_divmod
<1> HIDE DEF x, y, n, i, j, sa, sb, a, b
<1>7. ASSUME j # 0
      PROVE  /\ Holds(OfDigits(mw_mask(back(qr[1], sa # sb), w), w, s), w, s, Quot(i, j))
             /\ Holds(OfDigits(mw_mask(back(qr[2], sa), w), w, s), w, s, Rest(i, j))
  <2> DEFINE u == Val(qr[1], n, n)  v == Val(qr[2], n, n)
  <2>1. Magnitude(j) # 0
    BY <1>3, <1>7 DEF Magnitude
  <2>2. Divided(qr, n, Magnitude(i), Magnitude(j))
    <3>1. Val(y, n, n) # 0
      BY <1>5, <2>1
    <3>2. Divided(mw_divmod(x, y), n, Val(x, n, n), Val(y, n, n))
      BY <1>2, <1>5, <3>1, DivModDivides
    <3> QED BY <1>5, <3>2
  <2> HIDE DEF qr
  <2>3. /\ DigitArray(qr[1], n) /\ DigitArray(qr[2], n)
        /\ Magnitude(i) = Magnitude(j) * u + v /\ v < Magnitude(j)
    BY <2>2 DEF Divided
  <2>4. u \in Nat /\ v \in Nat
    <3>1. n \in Nat
      BY <1>2
    <3> QED BY <2>3, <3>1, ValSteps, Zenon
  <2>5. /\ Quot(i, j) = IF (i < 0) # (j < 0) THEN -u ELSE u
        /\ Rest(i, j) = IF i < 0 THEN -v ELSE v
    <3> HIDE DEF u, v
    <3> QED BY <1>3, <1>7, <2>3, <2>4, QuotRest
  <2>6. /\ Holds(OfDigits(mw_mask(back(qr[1], sa # sb), w), w, s), w, s, IF sa # sb THEN -u ELSE u)
        /\ Holds(OfDigits(mw_mask(back(qr[2], sa), w), w, s), w, s, IF sa THEN -v ELSE v)
    <3>1. (sa # sb) \in BOOLEAN /\ sa \in BOOLEAN
      BY DEF sa
    <3> QED BY <2>3, <3>1, SignedHolds DEF n
  <2>7. (IF sa # sb THEN -u ELSE u) = Quot(i, j) /\ (IF sa THEN -v ELSE v) = Rest(i, j)
    <3>1. ((sa # sb) <=> ((i < 0) # (j < 0))) /\ (sa <=> i < 0)
      BY <1>3 DEF sa, sb
    <3> HIDE DEF u, v
    <3> QED BY <2>5, <3>1
  <2> QED BY <2>6, <2>7
<1>8. "/" \in {"/", "%"} /\ "%" \in {"/", "%"} /\ "%" # "/"
  OBVIOUS
<1> HIDE DEF back, qr
<1>9. j # 0 => /\ Holds(OfDigits(mw_mask(wide_divmod("/", a, b, sa, sb, w), w), w, s), w, s, Quot(i, j))
               /\ Holds(OfDigits(mw_mask(wide_divmod("%", a, b, sa, sb, w), w), w, s), w, s, Rest(i, j))
  BY <1>6, <1>7, <1>8
<1> QED BY <1>4, <1>9 DEF a, b, i, j, sa, sb

\* The arithmetic operators answer what is meant, modulo 2^w, or all x: on an
\* unknown operand, on a zero divisor, and past the cap.
LEMMA ArithHolds ==
    ASSUME NEW w \in Nat, NEW s \in BOOLEAN, NEW p, NEW q, Region(p, w, s), Region(q, w, s), NEW o \in Arith
    PROVE  LET a == IntOf(p, s)
               b == IntOf(q, s)
               v == arith(o, p, q)
           IN  /\ HasUnknown(p) \/ HasUnknown(q) => v = xs(w, s)
               /\ ~HasUnknown(p) /\ ~HasUnknown(q) =>
                     IF (o \in {"/", "%"} /\ b = 0) \/ (w > WideCap /\ w > LaneOf(s) /\ o \notin {"+", "-"})
                     THEN v = xs(w, s)
                     ELSE Computed(o, a, b) \in Int /\ Holds(v, w, s, Computed(o, a, b))
<1> DEFINE a == IntOf(p, s)
           b == IntOf(q, s)
           v == arith(o, p, q)
           sg == [lhs |-> s, rhs |-> s, res |-> s]
<1>1. /\ p \in Values /\ q \in Values /\ p.width = w /\ q.width = w /\ p.signed = s /\ q.signed = s
      /\ Mx(w, w) = w /\ (s /\ s) = s
  BY DEF Region, Mx
<1>2. o # "**"
  BY DEF Arith
<1>3. (has_xz(p) <=> HasUnknown(p)) /\ (has_xz(q) <=> HasUnknown(q))
  BY <1>1, UnknownIsUnknown
<1>4. resize_keep_sign(p, w, s) = p /\ resize_keep_sign(q, w, s) = q
  <2>1. \A u \in Values : u.width = w /\ u.signed = s => resize_keep_sign(u, w, s) = u
    <3> SUFFICES ASSUME NEW u \in Values, u.width = w, u.signed = s PROVE resize_keep_sign(u, w, s) = u
      OBVIOUS
    <3>1. u = [val |-> u.val, unk |-> u.unk, width |-> w, signed |-> s]
      BY ValueParts
    <3>2. (u.signed /\ (s \/ w = u.width)) = s
      OBVIOUS
    <3>3. [u EXCEPT !.signed = s] = u
      BY <3>1
    <3>4. resize(u, w) = u
      BY DEF resize
    <3> QED BY <3>2, <3>3, <3>4 DEF resize_keep_sign
  <2> QED BY <1>1, <2>1
<1>5. /\ HasUnknown(p) \/ HasUnknown(q) => v = xs(w, s)
      /\ ~HasUnknown(p) /\ ~HasUnknown(q) /\ w > LaneOf(s) => v = arith_wide(o, p, q, w, sg)
      /\ ~HasUnknown(p) /\ ~HasUnknown(q) /\ ~(w > LaneOf(s)) =>
            v = native(o, IF s THEN ReadInt(p, s) ELSE ReadInt(p, FALSE),
                          IF s THEN ReadInt(q, s) ELSE ReadInt(q, FALSE), w, s)
  BY <1>1, <1>2, <1>3, <1>4 DEF arith, LaneOf
<1> HIDE DEF v
<1> DEFINE zero == o \in {"/", "%"} /\ b = 0
           capped == w > WideCap /\ w > LaneOf(s) /\ o \notin {"+", "-"}
           exact == Computed(o, a, b) \in Int /\ Holds(v, w, s, Computed(o, a, b))
<1>6. ASSUME ~HasUnknown(p), ~HasUnknown(q)
      PROVE  IF zero \/ capped THEN v = xs(w, s) ELSE exact
  <2>1. a \in Int /\ b \in Int
    BY <1>1, OnesAlike
  <2>2. /\ IF s THEN ReadInt(p, s) = a ELSE ReadInt(p, FALSE) = a
        /\ IF s THEN ReadInt(q, s) = b ELSE ReadInt(q, FALSE) = b
    <3>1. \A t \in BOOLEAN : ReadInt(p, t) = IntOf(p, t /\ s) /\ ReadInt(q, t) = IntOf(q, t /\ s)
      BY <1>1, <1>6, ReadIntIs
    <3>2. CASE s = TRUE
      BY <3>1, <3>2
    <3>3. CASE s = FALSE
      BY <3>1, <3>3
    <3> QED BY <3>2, <3>3
  <2>3. LaneOf(s) \in Nat /\ LaneOf(s) <= 2 * WordBits
    BY WordBitsAssumption DEF LaneOf, SignedLane, UnsignedLane
  <2> HIDE DEF a, b, sg
  <2>4. CASE w > LaneOf(s)
    <3> DEFINE x == Digits(p)  y == Digits(q)  Out(z) == OfDigits(mw_mask(z, w), w, s)
               sa == s /\ Negative(p)  sb == s /\ Negative(q)
    <3>1. v = arith_wide(o, p, q, w, sg)
      BY <1>5, <1>6, <2>4
    <3>2. sg.lhs = s /\ sg.rhs = s /\ sg.res = s
      BY DEF sg
    <3> HIDE DEF sg
    <3>3. /\ capped => v = xs(w, s)
          /\ o = "+" => v = Out(mw_add(x, y))
          /\ o = "-" => v = Out(mw_add(x, mw_neg(y)))
          /\ o = "*" /\ ~capped => v = Out(mw_mul(x, y, NWords(w)))
          /\ o \in {"/", "%"} /\ ~capped =>
                v = IF mw_is_zero(y) THEN xs(w, s) ELSE Out(wide_divmod(o, x, y, sa, sb, w))
      <4>1. /\ capped => w > WideCap /\ o \in {"*", "/", "%", "**"}
            /\ ~capped => ~(w > WideCap /\ o \in {"*", "/", "%", "**"})
            /\ o \in {"+", "-"} => ~(w > WideCap /\ o \in {"*", "/", "%", "**"})
        BY <1>2, <2>4 DEF Arith
      <4> HIDE DEF capped
      <4>2. capped => v = xs(w, s)
        BY <3>1, <3>2, <4>1 DEF arith_wide
      <4>3. o = "+" => v = Out(mw_add(x, y))
        BY <1>4, <3>1, <3>2, <4>1 DEF arith_wide
      <4>4. o = "-" => v = Out(mw_add(x, mw_neg(y)))
        BY <1>4, <3>1, <3>2, <4>1 DEF arith_wide
      <4>5. o = "*" /\ ~capped => v = Out(mw_mul(x, y, NWords(w)))
        BY <1>4, <3>1, <3>2, <4>1 DEF arith_wide
      <4>6. o = "/" /\ ~capped =>
                v = IF mw_is_zero(y) THEN xs(w, s) ELSE Out(wide_divmod(o, x, y, sa, sb, w))
        BY <1>4, <3>1, <3>2, <4>1 DEF arith_wide
      <4>7. o = "%" /\ ~capped =>
                v = IF mw_is_zero(y) THEN xs(w, s) ELSE Out(wide_divmod(o, x, y, sa, sb, w))
        BY <1>4, <3>1, <3>2, <4>1 DEF arith_wide
      <4> HIDE DEF x, y, sa, sb, Out
      <4> QED BY <4>2, <4>3, <4>4, <4>5, <4>6, <4>7
    <3> HIDE DEF Out
    <3>4. Holds(Out(mw_add(x, y)), w, s, a + b) /\ Holds(Out(mw_add(x, mw_neg(y))), w, s, a - b)
      BY <1>1, <1>6, WideHolds DEF a, b, Out
    <3>5. Holds(Out(mw_mul(x, y, NWords(w))), w, s, a * b)
      BY <1>6, TimesHolds DEF a, b, Out
    <3>6. /\ mw_is_zero(y) <=> b = 0
          /\ b # 0 => /\ Holds(Out(wide_divmod("/", x, y, sa, sb, w)), w, s, Quot(a, b))
                      /\ Holds(Out(wide_divmod("%", x, y, sa, sb, w)), w, s, Rest(a, b))
      BY <1>6, DividesHolds DEF a, b, Out
    <3> HIDE DEF x, y, sa, sb
    <3>7. ASSUME zero PROVE v = xs(w, s)
      BY <3>3, <3>6, <3>7
    <3>8. ASSUME ~zero, ~capped PROVE exact
      <4>1. Computed(o, a, b) \in Int
        BY <2>1, <3>8, ComputedType
      <4>2. Holds(v, w, s, Computed(o, a, b))
        <5> HIDE DEF capped
        <5>1. CASE o = "+"
          BY <3>3, <3>4, <5>1 DEF Computed
        <5>2. CASE o = "-"
          BY <3>3, <3>4, <5>2 DEF Computed
        <5>3. CASE o = "*"
          BY <3>3, <3>5, <3>8, <5>3 DEF Computed
        <5>4. CASE o = "/"
          BY <3>3, <3>6, <3>8, <5>4 DEF Computed
        <5>5. CASE o = "%"
          BY <3>3, <3>6, <3>8, <5>5 DEF Computed
        <5> QED BY <5>1, <5>2, <5>3, <5>4, <5>5 DEF Arith
      <4> QED BY <4>1, <4>2
    <3> HIDE DEF zero, exact, capped
    <3> QED BY <3>3, <3>7, <3>8
  <2>5. CASE ~(w > LaneOf(s))
    <3>1. v = native(o, a, b, w, s)
      BY <1>5, <1>6, <2>2, <2>5
    <3>2. zero => v = xs(w, s)
      BY <3>1 DEF native
    <3>3. ASSUME ~zero PROVE exact
      <4>1. Computed(o, a, b) \in Int
        BY <2>1, <3>3, ComputedType
      <4>2. v = OfLane(Computed(o, a, b), w, s)
        BY <3>1, <3>3 DEF native, Computed, Arith
      <4>3. w <= 2 * WordBits
        BY <2>3, <2>5, WordBitsAssumption
      <4> QED BY <4>1, <4>2, <4>3, LaneHolds
    <3>4. ~capped
      BY <2>5
    <3> HIDE DEF zero, exact, capped
    <3> QED BY <3>2, <3>3, <3>4
  <2> QED BY <2>4, <2>5
<1> QED BY <1>5, <1>6 DEF a, b, v

-----------------------------------------------------------------------------
(* Arithmetic answers.                                                     *)

\* What + - * / % ask for.
ArithSays(o, v) ==
    LET a == IntOf(l, Signed)
        b == IntOf(r, Signed)
    IN  IF ~Known(l) \/ ~Known(r) \/ (o \in {"/", "%"} /\ b = 0)
           \/ (o # "+" /\ o # "-" /\ Width > WideCap)
        THEN AllUnknown(v, Width, Signed)
        ELSE Counts(v, Width, Signed, Computed(o, a, b))

\* An arithmetic operator in a context.
LEMMA ArithAnswer ==
    ASSUME l \in Values, r \in Values, ctx \in Context, NEW o \in Arith
    PROVE  ArithSays(o, eval(Source(o, 0), ctx))
<1> DEFINE v == eval(Source(o, 0), ctx)
           w == Width
           s == Signed
<1>1. /\ w \in Nat /\ s \in BOOLEAN /\ l.width <= w /\ r.width <= w
      /\ (l.signed /\ s) = s /\ (r.signed /\ s) = s
  BY RegionSizes
<1>2. o \in Binary /\ o \in Sizing /\ o \in Operators \ {"leaf"} /\ o # "?:" /\ o \notin Selects /\ o # "{n{}}"
  BY DEF Arith, Binary, Sizing, Operators, Selects
<1>3. PICK node, A, X : OneNode(o, 0, 0, node, A, X, v)
  BY <1>2, Operates
<1> HIDE DEF v
<1>4. Evals(node, A, X, w, s, v)
  <2>1. RegionWidth(node, A, ctx) = w /\ RegionSigned(node, A, ctx) = s
    BY <1>2, <1>3, Regions
  <2> QED BY <1>3, <2>1 DEF OneNode
<1>5. node.op = o /\ Given(A, X, 1, l) /\ Given(A, X, 2, r)
  BY <1>2, <1>3 DEF OneNode
<1> DEFINE p == X[1][Ctx(w, s)]
           q == X[2][Ctx(w, s)]
<1>6. v = arith(o, p, q)
  BY <1>4, <1>5 DEF Evals
<1> HIDE DEF w, s
<1>7. Prolongs(p, l, w, s) /\ Prolongs(q, r, w, s)
  BY <1>1, <1>5, SizedOperand DEF Given
<1> HIDE DEF p, q
<1> DEFINE a == IntOf(l, s)  b == IntOf(r, s)
<1>8. /\ Region(p, w, s) /\ Region(q, w, s) /\ p \in Values /\ q \in Values
      /\ Known(l) <=> ~HasUnknown(p)
      /\ Known(r) <=> ~HasUnknown(q)
      /\ Known(l) => IntOf(p, s) = a
      /\ Known(r) => IntOf(q, s) = b
  <2>1. p \in Values /\ q \in Values
    BY <1>7 DEF Prolongs, Region
  <2> QED BY <1>7, <2>1, KnownIs DEF Prolongs
<1>9. /\ HasUnknown(p) \/ HasUnknown(q) => v = xs(w, s)
      /\ ~HasUnknown(p) /\ ~HasUnknown(q) =>
            IF (o \in {"/", "%"} /\ IntOf(q, s) = 0) \/ (w > WideCap /\ w > LaneOf(s) /\ o \notin {"+", "-"})
            THEN v = xs(w, s)
            ELSE /\ Computed(o, IntOf(p, s), IntOf(q, s)) \in Int
                 /\ Holds(v, w, s, Computed(o, IntOf(p, s), IntOf(q, s)))
  BY <1>1, <1>6, <1>8, ArithHolds
<1>10. w > WideCap /\ w > LaneOf(s) /\ o \notin {"+", "-"} <=> o # "+" /\ o # "-" /\ w > WideCap
  BY <1>1, LanesBelowCap
<1> HIDE DEF a, b
<1> DEFINE none == ~Known(l) \/ ~Known(r) \/ (o \in {"/", "%"} /\ b = 0) \/ (o # "+" /\ o # "-" /\ w > WideCap)
<1>11. ASSUME none PROVE AllUnknown(v, w, s)
  <2>1. v = xs(w, s)
    BY <1>8, <1>9, <1>10, <1>11
  <2> QED BY <1>1, <2>1, XsAreBlank
<1>12. ASSUME ~none PROVE Counts(v, w, s, Computed(o, a, b))
  <2>1. Computed(o, a, b) \in Int /\ Holds(v, w, s, Computed(o, a, b))
    BY <1>8, <1>9, <1>10, <1>12
  <2> QED BY <1>1, <2>1, HeldBits DEF Counts
<1> QED BY <1>11, <1>12 DEF ArithSays, v, w, s, a, b

\* What - asks for.
NegSays(v) == IF Known(l) THEN Counts(v, LeftWidth, LeftSigned, -IntOf(l, LeftSigned))
              ELSE AllUnknown(v, LeftWidth, LeftSigned)

\* Unary minus in a context.
LEMMA NegAnswer ==
    ASSUME l \in Values, r \in Values, ctx \in Context
    PROVE  NegSays(eval(Source("neg", 0), ctx))
<1> DEFINE v == eval(Source("neg", 0), ctx)
           w == LeftWidth
           s == LeftSigned
<1>1. w \in Nat /\ s \in BOOLEAN /\ l.width <= w /\ (l.signed /\ s) = s
  BY RegionSizes
<1>2. "neg" \in Unary /\ "neg" \in Operators \ {"leaf"} /\ "neg" \notin Selects
  BY DEF Unary, Operators, Selects
<1>3. PICK node, A, X : OneNode("neg", 0, 0, node, A, X, v)
  BY <1>2, Operates
<1> HIDE DEF v
<1>4. Evals(node, A, X, w, s, v)
  <2>1. RegionWidth(node, A, ctx) = w /\ RegionSigned(node, A, ctx) = s
    BY <1>2, <1>3, Regions
  <2> QED BY <1>3, <2>1 DEF OneNode
<1>5. node.op = "neg" /\ Given(A, X, 1, l)
  BY <1>2, <1>3 DEF OneNode
<1> DEFINE p == X[1][Ctx(w, s)]
<1>6. v = negate(p)
  BY <1>4, <1>5 DEF Evals
<1> HIDE DEF w, s
<1>7. Prolongs(p, l, w, s)
  BY <1>1, <1>5, SizedOperand DEF Given
<1> HIDE DEF p
<1>8. p \in Values /\ p.width = w /\ p.signed = s
  BY <1>7 DEF Prolongs, Region
<1>9. /\ has_xz(p) <=> ~Known(l)
      /\ Known(l) => IntOf(p, s) = IntOf(l, s) /\ ~HasUnknown(p)
  BY <1>7, <1>8, UnknownIsUnknown, KnownIs DEF Prolongs
<1>10. CASE Known(l)
  <2>1. v = OfDigits(mw_neg(Digits(p)), w, s)
    BY <1>6, <1>8, <1>9, <1>10 DEF negate
  <2>2. Holds(v, w, s, -IntOf(p, s)) /\ IntOf(p, s) \in Int
    BY <1>1, <1>8, <1>9, <1>10, <2>1, NegateHolds, OnesAlike
  <2> DEFINE n == -IntOf(l, s)
  <2>3. Holds(v, w, s, n) /\ n \in Int
    BY <1>9, <1>10, <2>2
  <2> HIDE DEF n
  <2>4. Counts(v, w, s, n)
    BY <1>1, <2>3, HeldBits DEF Counts
  <2> QED BY <1>10, <2>4 DEF NegSays, n, v, w, s
<1>11. CASE ~Known(l)
  <2>1. v = xs(w, s)
    BY <1>6, <1>8, <1>9, <1>11 DEF negate
  <2>2. AllUnknown(v, w, s)
    BY <1>1, <2>1, XsAreBlank
  <2> QED BY <1>11, <2>2 DEF NegSays, v, w, s
<1> QED BY <1>10, <1>11

-----------------------------------------------------------------------------
(* Powers: pow_wrap, mw_pow and the table of negative exponents.           *)

\* The power the invariant speaks of is the power, modulo 2^w.
LEMMA PowModIs ==
    ASSUME NEW n \in Nat, NEW b \in Int, NEW e \in 0 .. n, NEW w \in Nat
    PROVE  PowMod(b, e, w) \in Nat /\ Alike(PowMod(b, e, w), PowerTable(b, n)[e], w)
<1> DEFINE p == 2 ^ w
           H == [q \in Nat \X Int |-> (q[2] * b) % p]
<1>0. e \in Nat /\ p \in Nat \ {0}
  BY PowerOfTwo
<1>1. ASSUME NEW k \in Nat, NEW x \in Int PROVE H[<<k, x>>] = (x * b) % p /\ H[<<k, x>>] \in Int
  <2>1. H[<<k, x>>] = (x * b) % p
    OBVIOUS
  <2>2. x * b \in Int
    OBVIOUS
  <2> DEFINE y == x * b
  <2>3. y % p \in Nat
    <3> HIDE DEF y, p
    <3> QED BY <1>0, <2>2, Divides DEF y
  <2> HIDE DEF H, p
  <2> QED BY <2>1, <2>3
<1>2. PICK f \in [0 .. e -> Int] : Solves(f, e, 1, H)
  <2> HIDE DEF H
  <2>1. Stays(H, Int)
    BY <1>1 DEF Stays
  <2>2. 1 \in Int
    OBVIOUS
  <2> QED BY <1>0, <2>1, <2>2, Recursion
<1>3. \A k \in 0 .. e : f[k] = IF k = 0 THEN 1 ELSE (f[k - 1] * b) % p
  <2> TAKE k \in 0 .. e
  <2>1. f[k] = IF k = 0 THEN 1 ELSE H[<<k, f[k - 1]>>]
    BY <1>2 DEF Solves
  <2>2. ASSUME k # 0 PROVE H[<<k, f[k - 1]>>] = (f[k - 1] * b) % p
    <3>1. k \in Nat /\ k - 1 \in 0 .. e
      BY <2>2
    <3>2. f[k - 1] \in Int
      BY <3>1
    <3> HIDE DEF H, p
    <3> QED BY <1>1, <3>1, <3>2
  <2> HIDE DEF H, p
  <2> QED BY <2>1, <2>2
<1>4. f = ModStep(f, b, e, w)
  <2>1. f = [k \in 0 .. e |-> f[k]]
    OBVIOUS
  <2> QED BY <1>3, <2>1, Zenon DEF ModStep
<1> DEFINE M == ModTable(b, e, w)
           F == PowerTable(b, n)
<1>5. M = ModStep(M, b, e, w)
  BY <1>4 DEF ModTable
<1>6. PowMod(b, e, w) = M[e] % p
  BY DEF PowMod, ModTable, ModStep
<1> HIDE DEF M, p
<1>7. \A k \in 0 .. e : M[k] = IF k = 0 THEN 1 ELSE (M[k - 1] * b) % p
  BY <1>5 DEF ModStep, p
<1>8. /\ F[0] = 1 /\ (\A k \in 0 .. n : F[k] \in Int)
      /\ \A k \in 0 .. n - 1 : F[k + 1] = F[k] * b
  BY PowerTableIs
<1> HIDE DEF F
<1> DEFINE P == {k \in Nat : k <= e => M[k] \in Int /\ Alike(M[k], F[k], w)}
<1>9. 0 \in P
  <2>1. 0 \in 0 .. e
    BY <1>0
  <2>2. M[0] = 1 /\ F[0] = 1
    BY <1>7, <1>8, <2>1
  <2>3. Alike(1, 1, w)
    <3>1. 0 \in Int /\ p \in Int /\ p * 0 = 0
      BY <1>0
    <3>2. 1 = 1 + p * 0
      BY <3>1
    <3> QED BY <3>1, <3>2, Zenon DEF Alike, p
  <2> QED BY <2>2, <2>3
<1>10. ASSUME NEW k \in Nat, k \in P PROVE k + 1 \in P
  <2> SUFFICES ASSUME k + 1 <= e PROVE M[k + 1] \in Int /\ Alike(M[k + 1], F[k + 1], w)
    OBVIOUS
  <2>1. k + 1 \in 0 .. e /\ k + 1 # 0 /\ (k + 1) - 1 = k /\ k \in 0 .. n - 1 /\ k \in 0 .. n
    BY <1>0
  <2>2. M[k] \in Int /\ Alike(M[k], F[k], w) /\ F[k] \in Int
    BY <1>8, <1>10, <2>1
  <2>3. M[k + 1] = (M[k] * b) % p /\ F[k + 1] = F[k] * b
    <3> DEFINE j == k + 1
    <3>1. M[j] = (M[j - 1] * b) % p
      <4> HIDE DEF j
      <4>1. j \in 0 .. e /\ j # 0
        BY <2>1 DEF j
      <4> QED BY <1>7, <4>1, Zenon
    <3> QED BY <1>8, <2>1, <3>1
  <2> DEFINE x == M[k] * b  y == F[k] * b
  <2>4. x \in Int /\ y \in Int
    BY <2>2
  <2>5. Alike(x, y, w)
    <3>1. Alike(b, b, w)
      <4>1. 0 \in Int /\ p \in Int /\ p * 0 = 0
        BY <1>0
      <4>2. b = b + p * 0
        BY <4>1
      <4> QED BY <4>1, <4>2, Zenon DEF Alike, p
    <3> QED BY <2>2, <3>1, AlikeTimes
  <2> HIDE DEF x, y
  <2>6. x % p \in Nat /\ Alike(x % p, x, w)
    BY <2>4, RemainderAlike DEF p
  <2>7. Alike(x % p, y, w)
    <3> DEFINE z == x % p
    <3>1. z \in Int
      BY <2>6
    <3> HIDE DEF z
    <3>2. Alike(z, x, w)
      BY <2>6 DEF z
    <3>3. Alike(z, y, w)
      BY <2>4, <2>5, <3>1, <3>2, AlikeSteps
    <3> QED BY <3>3 DEF z
  <2> QED BY <2>3, <2>6, <2>7 DEF x, y
<1>11. \A k \in Nat : k \in P
  <2> HIDE DEF P
  <2> QED BY <1>9, <1>10, SetInduction
<1>12. M[e] \in Int /\ Alike(M[e], F[e], w) /\ F[e] \in Int
  BY <1>0, <1>8, <1>11
<1> DEFINE x == M[e]
<1>13. x % p \in Nat /\ Alike(x % p, x, w)
  <2>1. x \in Int
    BY <1>12
  <2> HIDE DEF x
  <2> QED BY <2>1, RemainderAlike DEF p
<1>14. Alike(x % p, F[e], w)
  <2>1. x \in Int /\ x % p \in Int
    BY <1>12, <1>13
  <2> HIDE DEF x
  <2>2. Alike(x, F[e], w)
    BY <1>12 DEF x
  <2> QED BY <1>12, <1>13, <2>1, <2>2, AlikeSteps
<1> QED BY <1>6, <1>13, <1>14 DEF F

\* Square and multiply raises to the power, modulo 2^w.
LEMMA SquaresPower ==
    ASSUME NEW m \in Nat, NEW E, PlaceSet(E), NEW b \in Int, NEW w \in Nat, NEW A, NEW S,
           Squares(A, S, E, m, b, w), NEW i \in 0 .. m
    PROVE  Alike(A[i], PowMod(b, SumAt(Below(E, i)), w), w)
<1> DEFINE n == 2 ^ m  T == PowerTable(b, n)
           P == {k \in Nat : k <= m => Alike(A[k], T[SumAt(Below(E, k))], w) /\ Alike(S[k], T[2 ^ k], w)}
<1>0. n \in Nat \ {0}
  BY PowerOfTwo
<1>1. T[0] = 1 /\ (\A k \in 0 .. n : T[k] \in Int) /\ \A k \in 0 .. n - 1 : T[k + 1] = T[k] * b
  BY <1>0, PowerTableIs
<1> HIDE DEF n
<1>2. 0 \in P
  <2>1. SumAt(Below(E, 0)) = 0
    <3>1. Below(E, 0) = {}
      <4>1. \A i0 \in E : i0 \in Nat
        BY DEF PlaceSet
      <4>2. \A i0 \in Nat : ~(i0 < 0)
        OBVIOUS
      <4> QED BY <4>1, <4>2, Zenon DEF Below
    <3> QED BY <3>1, NoPlaces
  <2>2. 2 ^ 0 = 1 /\ T[1] = b
    <3>1. 0 \in 0 .. n - 1 /\ 0 + 1 = 1 /\ 1 * b = b
      BY <1>0
    <3>2. T[0 + 1] = T[0] * b
      BY <1>1, <3>1
    <3> QED BY <1>1, <3>1, <3>2, PowerOfTwo
  <2>3. Alike(A[0], 1, w) /\ Alike(S[0], b, w)
    BY DEF Squares
  <2> HIDE DEF T
  <2>4. Alike(A[0], T[SumAt(Below(E, 0))], w) /\ Alike(S[0], T[2 ^ 0], w)
    BY <1>1, <2>1, <2>2, <2>3
  <2> QED BY <2>4
<1>3. ASSUME NEW k \in Nat, k \in P PROVE k + 1 \in P
  <2> SUFFICES ASSUME k + 1 <= m
               PROVE  Alike(A[k + 1], T[SumAt(Below(E, k + 1))], w) /\ Alike(S[k + 1], T[2 ^ (k + 1)], w)
    OBVIOUS
  <2>1. k \in 0 .. m - 1 /\ Alike(A[k], T[SumAt(Below(E, k))], w) /\ Alike(S[k], T[2 ^ k], w)
    BY <1>3
  <2> QED BY <2>1, SquaresStep DEF n
<1>4. Alike(A[i], T[SumAt(Below(E, i))], w)
  <2>1. \A k \in Nat : k \in P
    <3> HIDE DEF P
    <3> QED BY <1>2, <1>3, SetInduction
  <2>2. i \in Nat /\ i <= m
    OBVIOUS
  <2> QED BY <2>1, <2>2
<1> DEFINE e == SumAt(Below(E, i))
<1>5. e \in 0 .. n
  <2>1. e \in Nat /\ e < 2 ^ i /\ i \in Nat
    BY BelowType
  <2>2. 2 ^ i <= n /\ 2 ^ i \in Nat
    BY <2>1, PowerOrder, PowerOfTwo DEF n
  <2> DEFINE y == 2 ^ i
  <2> HIDE DEF y, e
  <2>3. e < y /\ y <= n /\ y \in Nat
    BY <2>1, <2>2 DEF y
  <2> QED BY <1>0, <2>1, <2>3 DEF e
<1> HIDE DEF e, T
<1>6. PowMod(b, e, w) \in Nat /\ Alike(PowMod(b, e, w), T[e], w)
  BY <1>0, <1>5, PowModIs DEF T
<1>7. T[e] \in Int /\ A[i] \in Int
  BY <1>1, <1>5 DEF Squares
<1> DEFINE z == PowMod(b, e, w)
<1>8. z \in Int /\ Alike(z, T[e], w)
  BY <1>6
<1> HIDE DEF z
<1>9. Alike(A[i], T[e], w)
  BY <1>4 DEF e
<1>10. Alike(T[e], z, w)
  BY <1>7, <1>8, AlikeSteps
<1>11. Alike(A[i], z, w)
  BY <1>7, <1>8, <1>9, <1>10, AlikeSteps
<1> QED BY <1>11 DEF z, e

\* The power of a lane is the power, modulo any width the lane holds.
LEMMA LanePowerIs ==
    ASSUME NEW b \in Int, NEW e \in Nat, NEW w \in Nat, w <= 2 * WordBits, e < 2 ^ (2 * WordBits)
    PROVE  ipow(b, e) \in Int /\ Alike(ipow(b, e), PowMod(b, e, w), w)
<1> DEFINE m == 2 * WordBits
<1>0. m \in Nat
  BY LaneIs
<1>1. PICK B \in SUBSET (0 .. m - 1) : PlaceSet(B) /\ SumAt(B) = e
  BY <1>0, EveryNumber
<1>2. {i \in 0 .. m - 1 : (e \div 2 ^ i) % 2 = 1} = B
  <2>1. ASSUME NEW i \in 0 .. m - 1 PROVE i \in B <=> (e \div 2 ^ i) % 2 = 1
    <3>1. 0 \in Int /\ e \in Int /\ i \in Nat /\ i < m /\ e + 2 ^ m * 0 = e
      <4> DEFINE p == 2 ^ m
      <4>1. p \in Nat
        BY <1>0, PowerOfTwo
      <4>2. e + p * 0 = e
        <5> HIDE DEF p
        <5> QED BY <4>1
      <4> HIDE DEF m
      <4> QED BY <1>0, <4>2
    <3>2. SumAt(B) = e + 2 ^ m * 0
      BY <1>1, <3>1
    <3> HIDE DEF m
    <3> QED BY <1>0, <1>1, <3>1, <3>2, BitIs
  <2> HIDE DEF m
  <2> QED BY <2>1
<1> DEFINE F == LanePower(b, B, m)
<1>3. ipow(b, e) = F[m][1]
  <2> DEFINE G(X) == LanePower(b, X, m)
  <2>1. ipow(b, e) = G({i \in 0 .. m - 1 : (e \div 2 ^ i) % 2 = 1})[m][1]
    BY DEF ipow, LanePower, LanePowers, LaneNext
  <2> QED BY <1>2, <2>1
<1>4. /\ F[0] = <<1, Wrapped(b)>>
      /\ \A i \in 0 .. m : F[i] \in Int \X Int
      /\ \A i \in 0 .. m - 1 : F[i + 1] = LaneNext(F[i], B, i)
  BY <1>0, LanePowerSteps
<1> HIDE DEF F
<1> DEFINE A == [i \in 0 .. m |-> F[i][1]]  S == [i \in 0 .. m |-> F[i][2]]
<1>5. \A x \in Int : Wrapped(x) \in Int /\ Alike(Wrapped(x), x, w)
  <2> TAKE x \in Int
  <2>1. Wrapped(x) \in Int /\ Alike(Wrapped(x), x, m)
    BY WrappedAlike
  <2> HIDE DEF m
  <2>2. w <= m
    BY DEF m
  <2> QED BY <1>0, <2>1, <2>2, AlikeBelow
<1>6. \A x \in Int : Alike(x, x, w)
  <2> TAKE x \in Int
  <2> DEFINE p == 2 ^ w
  <2>1. p \in Nat
    BY PowerOfTwo
  <2> HIDE DEF p
  <2>2. x = x + p * 0 /\ 0 \in Int
    BY <2>1
  <2> QED BY <2>2, Zenon DEF Alike, p
<1>7. Squares(A, S, B, m, b, w)
  <2> HIDE DEF m
  <2>1. \A i \in 0 .. m : A[i] = F[i][1] /\ S[i] = F[i][2] /\ A[i] \in Int /\ S[i] \in Int
    BY <1>4
  <2>2. A[0] = 1 /\ S[0] = Wrapped(b)
    <3>1. 0 \in 0 .. m
      BY <1>0
    <3> QED BY <1>4, <2>1, <3>1
  <2> HIDE DEF A, S
  <2>3. ASSUME NEW i \in 0 .. m - 1
        PROVE  /\ Alike(A[i + 1], IF i \in B THEN A[i] * S[i] ELSE A[i], w)
               /\ Alike(S[i + 1], S[i] * S[i], w)
    <3>1. i \in 0 .. m /\ i + 1 \in 0 .. m
      BY <1>0
    <3>2. A[i] \in Int /\ S[i] \in Int /\ A[i] * S[i] \in Int /\ S[i] * S[i] \in Int
      BY <2>1, <3>1
    <3> DEFINE u == A[i] * S[i]  v == S[i] * S[i]
    <3>3. A[i + 1] = (IF i \in B THEN Wrapped(u) ELSE A[i]) /\ S[i + 1] = Wrapped(v)
      <4>1. F[i + 1] = LaneNext(F[i], B, i)
        BY <1>4
      <4>2. F[i + 1][1] = (IF i \in B THEN Wrapped(F[i][1] * F[i][2]) ELSE F[i][1])
            /\ F[i + 1][2] = Wrapped(F[i][2] * F[i][2])
        BY <4>1 DEF LaneNext
      <4> QED BY <2>1, <3>1, <4>2
    <3>4. u \in Int /\ v \in Int
      BY <3>2
    <3> HIDE DEF u, v
    <3>5. Alike(Wrapped(u), u, w) /\ Alike(Wrapped(v), v, w) /\ Alike(A[i], A[i], w)
      BY <1>5, <1>6, <3>2, <3>4
    <3>6. Alike(A[i + 1], IF i \in B THEN u ELSE A[i], w) /\ Alike(S[i + 1], v, w)
      BY <3>3, <3>5
    <3> QED BY <3>6 DEF u, v
  <2>4. Alike(A[0], 1, w) /\ Alike(S[0], b, w)
    BY <1>5, <1>6, <2>2
  <2>5. \A i \in 0 .. m : A[i] \in Int /\ S[i] \in Int
    BY <2>1
  <2> QED BY <2>3, <2>4, <2>5 DEF Squares
<1>8. A[m] = F[m][1] /\ A[m] \in Int
  BY <1>0, <1>4
<1>9. Below(B, m) = B
  <2> HIDE DEF m
  <2>1. \A i \in B : i < m
    BY <1>0, <1>1
  <2> QED BY <2>1, Zenon DEF Below
<1> HIDE DEF A, S
<1>10. Alike(A[m], PowMod(b, SumAt(Below(B, m)), w), w)
  <2> HIDE DEF m
  <2>1. m \in 0 .. m
    BY <1>0
  <2> QED BY <1>0, <1>1, <1>7, <2>1, SquaresPower
<1> QED BY <1>1, <1>3, <1>8, <1>9, <1>10

\* Square and multiply in words is the power, modulo 2 ^ w.
LEMMA WordsSquare ==
    ASSUME NEW w \in Nat, NEW a \in Arrays(NWords(w)), NEW E, PlaceSet(E), NEW m \in Nat, NEW x \in Int,
           Alike(Val(a, NWords(w), NWords(w)), x, w), NEW i \in 0 .. m
    PROVE  LET n == NWords(w)
               d == WordsPower(a, E, n, w, m)[i][1]
           IN  DigitArray(d, n) /\ Alike(Val(d, n, n), PowMod(x, SumAt(Below(E, i)), w), w)
<1> DEFINE n == NWords(w)  F == WordsPower(a, E, n, w, m)
<1>1. n \in Nat /\ mw_one(n) \in Arrays(n) /\ Val(mw_one(n), n, n) = 1
  BY WordsHold, OneIs
<1>2. /\ F[0] = <<mw_one(n), a>>
      /\ \A k \in 0 .. m : F[k] \in Arrays(n) \X Arrays(n)
      /\ \A k \in 0 .. m - 1 : F[k + 1] = WordsNext(F[k], E, n, w, k)
  BY <1>1, WordsPowerSteps
<1>3. \A u, v \in Arrays(n) :
         Product(u, v, n, w) \in Arrays(n) /\ Alike(Val(Product(u, v, n, w), n, n), Val(u, n, n) * Val(v, n, n), w)
  BY ProductIs
<1>4. \A u \in Arrays(n) : DigitArray(u, n) /\ Val(u, n, n) \in Int
  <2> TAKE u \in Arrays(n)
  <2>1. DigitArray(u, n)
    BY DEF Arrays
  <2>2. Val(u, n, n) \in Nat
    <3> HIDE DEF n
    <3> QED BY <1>1, <2>1, ValSteps, Zenon
  <2> QED BY <2>1, <2>2
<1>5. Alike(Val(a, n, n), x, w)
  OBVIOUS
<1> HIDE DEF F, n
<1> DEFINE A == [k \in 0 .. m |-> Val(F[k][1], n, n)]  S == [k \in 0 .. m |-> Val(F[k][2], n, n)]
<1>6. Squares(A, S, E, m, x, w)
  <2>1. \A k \in 0 .. m : /\ F[k][1] \in Arrays(n) /\ F[k][2] \in Arrays(n)
                          /\ A[k] = Val(F[k][1], n, n) /\ S[k] = Val(F[k][2], n, n)
    BY <1>2
  <2>2. \A k \in 0 .. m : A[k] \in Int /\ S[k] \in Int
    BY <1>4, <2>1
  <2>3. Alike(A[0], 1, w) /\ Alike(S[0], x, w)
    <3>1. 0 \in 0 .. m
      OBVIOUS
    <3>2. A[0] = 1 /\ S[0] = Val(a, n, n)
      BY <1>1, <1>2, <2>1, <3>1
    <3>3. Alike(1, 1, w)
      BY AlikeSelf
    <3> HIDE DEF A, S
    <3> QED BY <1>5, <3>2, <3>3
  <2> HIDE DEF A, S
  <2>4. ASSUME NEW k \in 0 .. m - 1
        PROVE  /\ Alike(A[k + 1], IF k \in E THEN A[k] * S[k] ELSE A[k], w)
               /\ Alike(S[k + 1], S[k] * S[k], w)
    <3>1. k \in 0 .. m /\ k + 1 \in 0 .. m
      OBVIOUS
    <3> DEFINE u == F[k][1]  v == F[k][2]  p == Product(u, v, n, w)  q == Product(v, v, n, w)
    <3>2. u \in Arrays(n) /\ v \in Arrays(n) /\ A[k] = Val(u, n, n) /\ S[k] = Val(v, n, n)
      BY <2>1, <3>1
    <3>3. F[k + 1][1] = (IF k \in E THEN p ELSE u) /\ F[k + 1][2] = q
      <4>1. F[k + 1] = WordsNext(F[k], E, n, w, k)
        BY <1>2
      <4> QED BY <4>1 DEF WordsNext
    <3>4. A[k + 1] = Val(F[k + 1][1], n, n) /\ S[k + 1] = Val(F[k + 1][2], n, n)
      BY <2>1, <3>1
    <3> HIDE DEF u, v
    <3>5. Alike(Val(p, n, n), A[k] * S[k], w) /\ Alike(Val(q, n, n), S[k] * S[k], w)
      BY <1>3, <3>2
    <3>6. Alike(A[k], A[k], w)
      BY <2>2, <3>1, AlikeSelf
    <3> HIDE DEF p, q
    <3>7. A[k + 1] = (IF k \in E THEN Val(p, n, n) ELSE A[k]) /\ S[k + 1] = Val(q, n, n)
      BY <3>2, <3>3, <3>4
    <3> QED BY <3>5, <3>6, <3>7
  <2> QED BY <2>2, <2>3, <2>4 DEF Squares
<1> DEFINE d == F[i][1]
<1>7. d \in Arrays(n) /\ A[i] = Val(d, n, n)
  BY <1>2
<1> HIDE DEF A, S, d
<1>8. Alike(A[i], PowMod(x, SumAt(Below(E, i)), w), w)
  BY <1>6, SquaresPower
<1> QED BY <1>4, <1>7, <1>8 DEF d, F, n

\* mw_pow raises to the power, modulo 2^w.
THEOREM PowWords ==
    ASSUME NEW w \in Nat, NEW a \in Arrays(NWords(w)), NEW e \in Arrays(NWords(w)), NEW x \in Int,
           Alike(Val(a, NWords(w), NWords(w)), x, w)
    PROVE  LET n == NWords(w)
               d == mw_pow(a, e, w)
           IN  DigitArray(d, n) /\ Alike(Val(d, n, n), PowMod(x, Val(e, n, n), w), w)
<1> DEFINE n == NWords(w)  m == n * WordBits  E == PlacesOf(e, n)  F == WordsPower(a, E, n, w, m)  d == mw_pow(a, e, w)
<1>1. n \in Nat /\ m \in Nat /\ n \in 0 .. n
  <2>1. n \in Nat /\ m \in Nat
    BY WordsHold
  <2> HIDE DEF n, m
  <2> QED BY <2>1
<1>2. /\ DOMAIN a = 0 .. n - 1 /\ DOMAIN e = 0 .. n - 1
      /\ DigitArray(e, n) /\ \A k \in 0 .. n - 1 : e[k] \in Nat /\ e[k] < Base
  BY DEF Arrays, DigitArray
<1>3. Cardinality(DOMAIN a) = n /\ Cardinality(DOMAIN e) = n
  <2>1. 0 \in Int /\ n - 1 \in Int
    BY <1>1
  <2>2. Cardinality(0 .. n - 1) = n
    <3> HIDE DEF n
    <3> QED BY <1>1, <2>1, FS_Interval
  <2> QED BY <1>2, <2>2
<1>4. PlaceSet(E) /\ Below(E, m) = E /\ DigitsOf(e, n, E)
  <2> HIDE DEF n
  <2> QED BY <1>1, <1>2, DigitSet
<1>5. {i \in 0 .. m - 1 : BitAt(e, i) = 1} = E
  <2>1. \A i \in 0 .. m - 1 : BitAt(e, i) = IF i \in E THEN 1 ELSE 0
    <3> HIDE DEF E, n
    <3> QED BY <1>1, <1>4, BitAtIs
  <2>2. \A i \in E : i \in 0 .. m - 1
    BY DEF PlacesOf
  <2> HIDE DEF E, m
  <2> QED BY <2>1, <2>2
<1>6. Val(e, n, n) = SumAt(E)
  BY <1>4 DEF Val, Low
<1>7. d = IF E = {} THEN mw_one(n) ELSE F[Max(E) + 1][1]
  <2> DEFINE c1 == Cardinality(DOMAIN a)  c2 == Cardinality(DOMAIN e)
             G(X, nn, mm) == IF X = {} THEN mw_one(nn) ELSE WordsPower(a, X, nn, w, mm)[Max(X) + 1][1]
  <2>1. d = G({i \in 0 .. c2 * WordBits - 1 : BitAt(e, i) = 1}, c1, c2 * WordBits)
    BY DEF mw_pow, WordsPower, WordsPowers, WordsNext, Product
  <2>2. c1 = n /\ c2 * WordBits = m
    BY <1>3
  <2> HIDE DEF G, c1, c2, n, m, E
  <2>3. d = G(E, n, m)
    BY <1>5, <2>1, <2>2
  <2> QED BY <2>3 DEF G
<1>8. \A i \in 0 .. m : LET f == F[i][1] IN DigitArray(f, n) /\ Alike(Val(f, n, n), PowMod(x, SumAt(Below(E, i)), w), w)
  BY <1>1, <1>4, WordsSquare
<1> HIDE DEF F, E, d
<1>9. CASE E = {}
  <2>1. d = mw_one(n) /\ SumAt(E) = 0 /\ SumAt(E) \in Nat
    BY <1>7, <1>9, NoPlaces
  <2>2. DigitArray(d, n) /\ Val(d, n, n) = 1
    BY <2>1, OneIs DEF Arrays
  <2>3. 0 \in 0 .. 0 /\ PowerTable(x, 0)[0] = 1 /\ 0 \in Nat
    BY PowerTableIs
  <2>4. Alike(PowMod(x, 0, w), 1, w) /\ PowMod(x, 0, w) \in Int
    <3>1. PowMod(x, 0, w) \in Nat /\ Alike(PowMod(x, 0, w), PowerTable(x, 0)[0], w)
      BY <2>3, PowModIs
    <3> QED BY <2>3, <3>1
  <2>5. Alike(1, PowMod(x, 0, w), w)
    <3> DEFINE z == PowMod(x, 0, w)
    <3> HIDE DEF z
    <3>1. z \in Int /\ 1 \in Int /\ Alike(z, 1, w)
      BY <2>4 DEF z
    <3>2. Alike(1, z, w)
      BY <3>1, AlikeSteps
    <3> QED BY <3>2 DEF z
  <2> QED BY <1>6, <2>1, <2>2, <2>5 DEF d, n
<1>10. CASE E # {}
  <2>1. PICK t \in E : \A i \in E : i <= t
    BY <1>4, <1>10, Greatest
  <2>2. Max(E) \in E /\ \A i \in E : i <= Max(E)
    <3>1. \E t0 \in E : \A i \in E : i <= t0
      BY <2>1
    <3>2. \E t0 \in E : \A i \in E : t0 >= i
      <4>1. \A i \in E : i \in Nat
        BY <1>4 DEF PlaceSet
      <4> QED BY <3>1, <4>1
    <3>3. Max(E) \in E /\ \A i \in E : Max(E) >= i
      BY <3>2 DEF Max
    <3>4. \A i \in E : i \in Nat
      BY <1>4 DEF PlaceSet
    <3> QED BY <3>3, <3>4
  <2> DEFINE j == Max(E) + 1
  <2>3. j \in 0 .. m /\ \A i \in E : i < j
    <3>1. \A i \in E : i \in 0 .. m - 1
      BY DEF E, PlacesOf
    <3> HIDE DEF m
    <3> QED BY <1>1, <2>2, <3>1
  <2>4. Below(E, j) = E
    <3> HIDE DEF j
    <3> QED BY <2>3, Zenon DEF Below
  <2>5. d = F[j][1]
    BY <1>7, <1>10
  <2> HIDE DEF j, n, m
  <2>6. DigitArray(d, n) /\ Alike(Val(d, n, n), PowMod(x, SumAt(E), w), w)
    BY <1>8, <2>3, <2>4, <2>5
  <2> QED BY <1>6, <2>6 DEF d, n
<1> QED BY <1>9, <1>10

\* A known operand sized by its context keeps its number.
LEMMA SizedKnown ==
    ASSUME NEW v \in Values, ~HasUnknown(v), NEW w \in Nat, v.width <= w, NEW s \in BOOLEAN, (v.signed /\ s) = s
    PROVE  LET u == resize_keep_sign(v, w, s)
           IN  Region(u, w, s) /\ u \in Values /\ u.width = w /\ u.signed = s
               /\ ~HasUnknown(u) /\ IntOf(u, s) = IntOf(v, s)
<1> DEFINE u == resize_keep_sign(v, w, s)
<1>1. /\ u \in Values /\ u.width = w /\ u.signed = s
      /\ \A i \in Nat : i < w => BitOf(u, i) = Ext(v, s, i)
  <2>1. /\ u \in Values /\ u.width = w /\ u.signed = s
        /\ \A i \in Nat : i < w => BitOf(u, i) = Ext(v, v.signed /\ s, i)
    BY ContextExtends
  <2>2. \A i : Ext(v, v.signed /\ s, i) = Ext(v, s, i)
    BY DEF Ext
  <2> QED BY <2>1, <2>2
<1> HIDE DEF u
<1>2. ~HasUnknown(u) /\ IntOf(u, s) = IntOf(v, s)
  BY <1>1, IntKept
<1> QED BY <1>1, <1>2 DEF Region, u

\* What ** is worth: the power modulo 2 ^ w, and the table of 11.4.3 below zero.
Raised(b, e, w) == IF e >= 0 THEN PowMod(b, e, w)
                   ELSE IF b = 1 \/ (b = -1 /\ e % 2 = 0) THEN 1
                   ELSE IF b = -1 THEN -1 ELSE 0

\* A power modulo 2^w is an integer.
LEMMA PowModType ==
    ASSUME NEW b \in Int, NEW e \in Nat, NEW w \in Nat
    PROVE  PowMod(b, e, w) \in Int
<1>1. e \in 0 .. e
  OBVIOUS
<1>2. PowMod(b, e, w) \in Nat
  BY <1>1, PowModIs
<1> QED BY <1>2

\* What ** is meant to answer is an integer.
LEMMA RaisedType ==
    ASSUME NEW b \in Int, NEW e \in Int, NEW w \in Nat
    PROVE  Raised(b, e, w) \in Int
<1>1. CASE e >= 0
  <2>1. e \in Nat
    BY <1>1
  <2>2. PowMod(b, e, w) \in Int
    BY <2>1, PowModType
  <2> QED BY <1>1, <2>2 DEF Raised
<1>2. CASE ~(e >= 0)
  BY <1>2 DEF Raised
<1> QED BY <1>1, <1>2

\* ** in a native lane.
LEMMA LaneRaises ==
    ASSUME NEW w \in Nat, w <= 2 * WordBits, NEW s \in BOOLEAN, NEW b \in Int, NEW e \in Int, e < 2 ^ (2 * WordBits)
    PROVE  Holds(native("**", b, e, w, s), w, s, Raised(b, e, w))
<1> DEFINE p == ipow_signed(b, e)  k == Raised(b, e, w)
<1>1. p \in Int /\ k \in Int /\ Alike(p, k, w)
  <2>1. CASE e >= 0
    <3>1. e \in Nat
      BY <2>1
    <3>2. ipow(b, e) \in Int /\ Alike(ipow(b, e), PowMod(b, e, w), w)
      BY <3>1, LanePowerIs
    <3> QED BY <2>1, <3>2, RaisedType DEF ipow_signed, Raised
  <2>2. CASE ~(e >= 0)
    <3>1. Wrapped(-1) \in Int /\ Alike(Wrapped(-1), -1, w)
      <4>1. -1 \in Int /\ 2 * WordBits \in Nat
        BY LaneIs
      <4>2. Wrapped(-1) \in Int /\ Alike(Wrapped(-1), -1, 2 * WordBits)
        BY <4>1, WrappedAlike
      <4> DEFINE x == Wrapped(-1)  y == -1  m == 2 * WordBits
      <4>3. x \in Int /\ y \in Int /\ m \in Nat /\ w <= m /\ Alike(x, y, m)
        BY <4>1, <4>2
      <4> HIDE DEF x, y, m
      <4>4. Alike(x, y, w)
        BY <4>3, AlikeBelow
      <4> QED BY <4>2, <4>4 DEF x, y
    <3>2. Alike(1, 1, w) /\ Alike(0, 0, w)
      BY AlikeSelf
    <3>3. p = IF b = 1 THEN 1 ELSE IF b = -1 THEN (IF e % 2 = 0 THEN 1 ELSE Wrapped(-1)) ELSE 0
      BY <2>2 DEF ipow_signed
    <3>4. k = IF b = 1 \/ (b = -1 /\ e % 2 = 0) THEN 1 ELSE IF b = -1 THEN -1 ELSE 0
      BY <2>2 DEF Raised
    <3>5. k \in Int
      BY RaisedType
    <3> DEFINE x == Wrapped(-1)  y == -1  even == e % 2 = 0
    <3>6. x \in Int /\ Alike(x, y, w)
      BY <3>1
    <3> HIDE DEF p, k, x, y, even
    <3>7. p = IF b = 1 THEN 1 ELSE IF b = y THEN (IF even THEN 1 ELSE x) ELSE 0
      BY <3>3 DEF x, y, even
    <3>8. k = IF b = 1 \/ (b = y /\ even) THEN 1 ELSE IF b = y THEN y ELSE 0
      BY <3>4 DEF y, even
    <3>9. y # 1
      BY DEF y
    <3> QED BY <3>2, <3>5, <3>6, <3>7, <3>8, <3>9
  <2> QED BY <2>1, <2>2
<1> DEFINE v == native("**", b, e, w, s)
<1>2. v = OfLane(p, w, s)
  BY DEF native
<1> HIDE DEF p, k
<1>3. Holds(v, w, s, p)
  BY <1>1, <1>2, LaneHolds
<1> HIDE DEF v
<1>4. Region(v, w, s) /\ w <= w
  BY <1>3 DEF Holds
<1>5. Holds(v, w, s, k)
  BY <1>1, <1>3, <1>4, HoldsAlike
<1> QED BY <1>5 DEF v, k

\* A known value in words.
LEMMA HeldArray ==
    ASSUME NEW v \in Values, ~HasUnknown(v)
    PROVE  LET n == NWords(v.width)
           IN  Digits(v) \in Arrays(n) /\ Val(Digits(v), n, n) = SumAt(OnesOf(v))
<1> DEFINE n == NWords(v.width)  a == Digits(v)  B == OnesOf(v)
<1>1. n \in Nat /\ n \in 0 .. n
  <2>1. n \in Nat
    BY ValueParts, WordsHold
  <2> HIDE DEF n
  <2> QED BY <2>1
<1>2. PlaceSet(B) /\ DOMAIN a = 0 .. n - 1 /\ DigitsOf(a, n, B) /\ Below(B, n * WordBits) = B
  BY HeldDigits, IntIs
<1>3. a = [k \in DOMAIN a |-> a[k]]
  BY DEF Digits
<1> HIDE DEF n, a, B
<1>4. DigitArray(a, n) /\ Val(a, n, n) = Low(B, n)
  BY <1>1, <1>2, ValOf
<1>5. a \in [0 .. n - 1 -> Nat]
  BY <1>2, <1>3, <1>4 DEF DigitArray
<1> QED BY <1>2, <1>4, <1>5 DEF Arrays, Low, n, a, B

\* The top bit halves the numbers of a width.
LEMMA TopHalf ==
    ASSUME NEW v \in Values, ~HasUnknown(v), NEW k \in Nat, v.width = k + 1, NEW s \in BOOLEAN
    PROVE  /\ IntOf(v, s) < 0 => 2 ^ k <= SumAt(OnesOf(v))
           /\ s /\ ~(IntOf(v, s) < 0) => SumAt(OnesOf(v)) < 2 ^ k
<1> DEFINE B == OnesOf(v)
<1>1. PlaceSet(B)
  BY IntIs
<1>2. (s /\ BitOf(v, v.width - 1) = "1") <=> IntOf(v, s) < 0
  <2>1. (s /\ Negative(v)) <=> IntOf(v, s) < 0
    BY SignIs
  <2> QED BY <2>1, TopBit DEF Negative
<1>3. v.width - 1 = k /\ k \in 0 .. v.width - 1
  OBVIOUS
<1>4. BitOf(v, k) = "1" <=> k \in B
  BY <1>3 DEF OnesOf
<1>5. ASSUME IntOf(v, s) < 0 PROVE 2 ^ k <= SumAt(B)
  <2>1. k \in B
    BY <1>2, <1>3, <1>4, <1>5
  <2> QED BY <1>1, <2>1, SumType
<1>6. ASSUME s, ~(IntOf(v, s) < 0) PROVE SumAt(B) < 2 ^ k
  <2>1. k \notin B
    BY <1>2, <1>3, <1>4, <1>6
  <2>2. \A i \in B : i \in 0 .. k
    BY <1>3 DEF OnesOf
  <2>3. B \subseteq 0 .. k - 1
    <3> HIDE DEF B
    <3> QED BY <2>1, <2>2
  <2> HIDE DEF B
  <2> QED BY <2>3, SumBound
<1> QED BY <1>5, <1>6 DEF B

\* One and minus one, in words and as numbers.
LEMMA UnitsOfWords ==
    ASSUME NEW w \in Nat, w >= 2, NEW s \in BOOLEAN, NEW p \in Values, p.width = w, ~HasUnknown(p)
    PROVE  LET n == NWords(w)
               a == Digits(p)
           IN  /\ a = mw_one(n) <=> IntOf(p, s) = 1
               /\ s => (a = mw_mask(mw_neg(mw_one(n)), w) <=> IntOf(p, s) = -1)
               /\ IntOf(p, s) = -1 => s
<1> DEFINE n == NWords(w)  a == Digits(p)  o == mw_one(n)  d == mw_mask(mw_neg(o), w)
           x == SumAt(OnesOf(p))  b == IntOf(p, s)  k == w - 1  h == 2 ^ k  m == 2 ^ w
<1>1. n \in Nat
  BY WordsHold
<1>2. a \in Arrays(n) /\ Val(a, n, n) = x
  BY HeldArray
<1>3. o \in Arrays(n) /\ Val(o, n, n) = 1
  BY OneIs
<1>4. d \in Arrays(n) /\ Val(d, n, n) = m - 1
  BY MinusOneIs
<1>5. (a = o <=> x = 1) /\ (a = d <=> x = m - 1)
  <2> HIDE DEF n, a, o, d, x, m
  <2> QED BY <1>1, <1>2, <1>3, <1>4, SameArray
<1>6. /\ b \in Int /\ x \in Nat /\ x < m
      /\ (s /\ Negative(p)) <=> b < 0
      /\ b < 0 => b = x - m
      /\ ~(b < 0) => b = x
  BY SignIs
<1>7. k \in Nat /\ w = k + 1 /\ 1 <= k
  OBVIOUS
<1>8. (b < 0 => h <= x) /\ (s /\ ~(b < 0) => x < h)
  BY <1>7, TopHalf
<1>9. m = 2 * h /\ h \in Nat /\ 2 <= h
  <2>1. 2 ^ 1 <= 2 ^ k /\ 2 ^ 1 = 2
    <3>1. 2 ^ 1 = 2
      BY PowerOfTwo
    <3>2. 2 ^ 1 <= 2 ^ k
      BY <1>7, PowerOrder
    <3> QED BY <3>1, <3>2
  <2> HIDE DEF k
  <2>2. 2 ^ (k + 1) = 2 * 2 ^ k /\ 2 ^ k \in Nat
    BY <1>7, PowerOfTwo
  <2> QED BY <1>7, <2>1, <2>2
<1> HIDE DEF n, a, o, d, x, b, h, m
<1>10. a = o <=> b = 1
  BY <1>5, <1>6, <1>8, <1>9
<1>11. s => (a = d <=> b = -1)
  BY <1>5, <1>6, <1>8, <1>9
<1>12. b = -1 => s
  BY <1>6
<1> QED BY <1>10, <1>11, <1>12 DEF n, a, o, d, b

\* The lowest bit of the lowest word.
LEMMA LowestBit ==
    ASSUME NEW q \in Values, ~HasUnknown(q), q.width > 0, NEW t \in BOOLEAN
    PROVE  (Digits(q)[0] % 2 = 0) <=> (IntOf(q, t) % 2 = 0)
<1> DEFINE B == OnesOf(q)  d == Digits(q)[0]  e == IntOf(q, t)  w == q.width
<1>1. PlaceSet(B) /\ w \in Nat /\ 0 < w
  BY IntIs, ValueParts
<1>2. d = Num(WordAt(B, 0)) /\ d \in Nat
  <2>1. 0 \in 0 .. NWords(w) - 1
    <3>1. NWords(w) \in Nat \ {0}
      BY <1>1, WordsHold
    <3> HIDE DEF w
    <3> QED BY <3>1
  <2>2. DigitsOf(Digits(q), NWords(w), B)
    BY HeldDigits
  <2> QED BY <2>1, <2>2, WordsOf DEF DigitsOf
<1>3. BitsOf(d) = WordAt(B, 0)
  BY <1>2, WordsOf, BitsOfNum
<1>4. 2 ^ 0 = 1 /\ 0 \in Bit
  BY PowerOfTwo, WordBitsAssumption DEF Bit
<1>5. (0 \in B) <=> (d % 2 = 1)
  <2>1. 0 \in WordAt(B, 0) <=> 0 \in B
    BY <1>4, WordBitsAssumption DEF WordAt
  <2> HIDE DEF d
  <2>2. 0 \in BitsOf(d) <=> (d \div 1) % 2 = 1
    BY <1>4 DEF BitsOf
  <2>3. d \div 1 = d
    BY <1>2
  <2> QED BY <1>3, <2>1, <2>2, <2>3
<1>6. e \in Int /\ Alike(SumAt(B), e, w)
  BY OnesAlike
<1>7. PICK z \in Int : SumAt(B) = e + 2 ^ w * z
  BY <1>6 DEF Alike
<1> HIDE DEF B, d, e, w
<1>8. (0 \in B) <=> ((e \div 2 ^ 0) % 2 = 1)
  BY <1>1, <1>6, <1>7, BitIs
<1>9. e \div 1 = e
  BY <1>6
<1>10. (0 \in B) <=> (e % 2 = 1)
  BY <1>4, <1>8, <1>9
<1> QED BY <1>2, <1>5, <1>6, <1>10 DEF d, e

\* The table of negative exponents: 0 to a negative power is all x, 1 and -1 to
\* it are powers, and all else is 0.
LEMMA NegativeTable ==
    ASSUME NEW w \in Nat, w >= 2, NEW s \in BOOLEAN, NEW t \in BOOLEAN,
           NEW p \in Values, p.width = w, p.signed = s, ~HasUnknown(p),
           NEW q \in Values, q.width = w, ~HasUnknown(q), IntOf(q, t) < 0
    PROVE  LET v == wide_pow_negative(Digits(p), Digits(q), w, s, s)
               b == IntOf(p, s)
           IN  /\ b = 0 => v = xs(w, s)
               /\ b # 0 => Holds(v, w, s, Raised(b, IntOf(q, t), w))
<1> DEFINE n == NWords(w)  a == Digits(p)  c == Digits(q)  o == mw_one(n)  d == mw_mask(mw_neg(o), w)
           b == IntOf(p, s)  e == IntOf(q, t)  v == wide_pow_negative(a, c, w, s, s)
           even == e % 2 = 0
<1>1. DOMAIN a = 0 .. n - 1 /\ n \in Nat
  BY HeldDigits, WordsHold
<1>2. Cardinality(DOMAIN a) = n
  <2> HIDE DEF n, a
  <2>1. 0 \in Int /\ n - 1 \in Int
    BY <1>1
  <2>2. Cardinality(0 .. n - 1) = IF 0 > n - 1 THEN 0 ELSE (n - 1) - 0 + 1
    BY <2>1, FS_Interval, Zenon
  <2> QED BY <1>1, <2>2
<1>3. /\ a = o <=> b = 1
      /\ s => (a = d <=> b = -1)
      /\ b = -1 => s
  BY UnitsOfWords
<1>4. (c[0] % 2 = 0) <=> even
  BY LowestBit
<1>5. mw_is_zero(a) <=> b = 0
  <2>1. Region(p, w, s)
    BY DEF Region
  <2> QED BY <2>1, DividesHolds
<1>6. v = IF a = o THEN OfDigits(a, w, s)
          ELSE IF s /\ a = d THEN OfDigits(IF c[0] % 2 = 0 THEN o ELSE d, w, s)
          ELSE IF mw_is_zero(a) THEN xs(w, s) ELSE zeros(w, s)
  <2> HIDE DEF a, c, n
  <2> QED BY <1>2 DEF wide_pow_negative
<1>7. Holds(OfDigits(o, w, s), w, s, 1) /\ Holds(OfDigits(d, w, s), w, s, -1) /\ Holds(zeros(w, s), w, s, 0)
  BY OneHeld, MinusOneIs, ZeroHeld
<1>8. b \in Int /\ e \in Int /\ e < 0
  BY SignIs
<1>9. Raised(b, e, w) = IF b = 1 \/ (b = -1 /\ even) THEN 1 ELSE IF b = -1 THEN -1 ELSE 0
  <2> HIDE DEF b, e
  <2> QED BY <1>8 DEF Raised
<1> HIDE DEF a, c, n, o, d, b, e, v, even
<1> DEFINE y == -1
<1>10. y # 0 /\ y # 1
  OBVIOUS
<1>11. Raised(b, e, w) = IF b = 1 \/ (b = y /\ even) THEN 1 ELSE IF b = y THEN y ELSE 0
  BY <1>9
<1>12. Holds(OfDigits(d, w, s), w, s, y) /\ (s => (a = d <=> b = y)) /\ (b = y => s)
  BY <1>3, <1>7
<1> HIDE DEF y
<1>13. b = 0 => v = xs(w, s)
  BY <1>3, <1>5, <1>6, <1>10, <1>12
<1>14. b # 0 => Holds(v, w, s, Raised(b, e, w))
  <2>1. CASE b = 1
    BY <1>3, <1>6, <1>7, <1>11, <2>1
  <2>2. CASE b = y
    BY <1>3, <1>4, <1>6, <1>7, <1>10, <1>11, <1>12, <2>2
  <2>3. CASE b # 1 /\ b # y
    BY <1>3, <1>5, <1>6, <1>7, <1>11, <1>12, <2>3
  <2> QED BY <2>1, <2>2, <2>3
<1> QED BY <1>13, <1>14 DEF a, c, b, e, v

\* ** in the kernels.
LEMMA WideRaises ==
    ASSUME NEW p \in Values, NEW q \in Values, NEW w \in Nat, w >= 2, p.width <= w, q.width <= w,
           ~HasUnknown(p), ~HasUnknown(q), NEW s \in BOOLEAN, p.signed = s, NEW t \in BOOLEAN, q.signed = t
    PROVE  LET b == IntOf(p, s)
               e == IntOf(q, t)
               v == arith_wide("**", p, q, w, [lhs |-> s, rhs |-> t, res |-> s])
           IN  /\ w > WideCap => v = xs(w, s)
               /\ b = 0 /\ e < 0 => v = xs(w, s)
               /\ w <= WideCap /\ (b # 0 \/ e >= 0) => Holds(v, w, s, Raised(b, e, w))
<1> DEFINE b == IntOf(p, s)
           e == IntOf(q, t)
           sg == [lhs |-> s, rhs |-> t, res |-> s]
           v == arith_wide("**", p, q, w, sg)
           le == resize_keep_sign(p, w, s)
           re == resize_keep_sign(q, w, t)
           x == Digits(le)
           y == Digits(re)
           sb == t /\ Negative(re)
           n == NWords(w)
<1>1. (p.signed /\ s) = s /\ (q.signed /\ t) = t
  OBVIOUS
<1>2. le \in Values /\ le.width = w /\ le.signed = s /\ ~HasUnknown(le) /\ IntOf(le, s) = b
  BY <1>1, SizedKnown
<1>3. re \in Values /\ re.width = w /\ re.signed = t /\ ~HasUnknown(re) /\ IntOf(re, t) = e
  BY <1>1, SizedKnown
<1>4. sg.lhs = s /\ sg.rhs = t /\ sg.res = s
  OBVIOUS
<1>5. w <= WideCap => v = IF sb THEN wide_pow_negative(x, y, w, s, s) ELSE OfDigits(mw_mask(mw_pow(x, y, w), w), w, s)
  <2> HIDE DEF sg
  <2>1. w <= WideCap => ~(w > WideCap)
    BY WideCapAssumption
  <2> QED BY <1>4, <2>1 DEF arith_wide
<1>6. w > WideCap => v = xs(w, s)
  <2> HIDE DEF sg
  <2> QED BY <1>4 DEF arith_wide
<1> HIDE DEF sg, v, le, re
<1>7. b \in Int /\ e \in Int
  <2>1. p \in Values /\ q \in Values
    OBVIOUS
  <2> QED BY SignIs
<1>8. sb <=> e < 0
  BY <1>3, SignIs
<1>9. e < 0 => /\ b = 0 => wide_pow_negative(x, y, w, s, s) = xs(w, s)
               /\ b # 0 => Holds(wide_pow_negative(x, y, w, s, s), w, s, Raised(b, e, w))
  <2> SUFFICES ASSUME e < 0
               PROVE  /\ b = 0 => wide_pow_negative(x, y, w, s, s) = xs(w, s)
                      /\ b # 0 => Holds(wide_pow_negative(x, y, w, s, s), w, s, Raised(b, e, w))
    OBVIOUS
  <2> HIDE DEF b, e
  <2> QED BY <1>2, <1>3, NegativeTable
<1>10. e >= 0 => Holds(OfDigits(mw_mask(mw_pow(x, y, w), w), w, s), w, s, Raised(b, e, w))
  <2> SUFFICES ASSUME e >= 0
               PROVE  Holds(OfDigits(mw_mask(mw_pow(x, y, w), w), w, s), w, s, Raised(b, e, w))
    OBVIOUS
  <2>1. x \in Arrays(n) /\ Val(x, n, n) = SumAt(OnesOf(le))
    BY <1>2, HeldArray
  <2>2. y \in Arrays(n) /\ Val(y, n, n) = e
    <3>1. y \in Arrays(n) /\ Val(y, n, n) = SumAt(OnesOf(re))
      BY <1>3, HeldArray
    <3>2. e = SumAt(OnesOf(re))
      BY <1>3, <1>7, <1>8, SignIs
    <3> QED BY <3>1, <3>2
  <2>3. Alike(Val(x, n, n), b, w)
    BY <1>2, <2>1, OnesAlike
  <2> DEFINE d == mw_pow(x, y, w)  k == PowMod(b, e, w)
  <2>4. DigitArray(d, n) /\ Alike(Val(d, n, n), k, w)
    <3> HIDE DEF x, y, b, e
    <3> QED BY <1>7, <2>1, <2>2, <2>3, PowWords
  <2>5. k = Raised(b, e, w)
    BY DEF Raised
  <2>6. k \in Int
    <3> HIDE DEF b, e
    <3>1. e \in Nat
      BY <1>7
    <3> QED BY <1>7, <3>1, PowModType
  <2> HIDE DEF d, k
  <2>7. Holds(OfDigits(mw_mask(d, w), w, s), w, s, k)
    BY <2>4, <2>6, ArrayHolds
  <2> QED BY <2>5, <2>7 DEF d
<1> HIDE DEF b, e, x, y, sb
<1>11. b = 0 /\ e < 0 => v = xs(w, s)
  <2>1. w <= WideCap \/ w > WideCap
    BY WideCapAssumption
  <2> QED BY <1>5, <1>6, <1>8, <1>9, <2>1
<1>12. w <= WideCap /\ (b # 0 \/ e >= 0) => Holds(v, w, s, Raised(b, e, w))
  <2>1. e < 0 \/ e >= 0
    BY <1>7
  <2>2. e < 0 <=> ~(e >= 0)
    BY <1>7
  <2> QED BY <1>5, <1>8, <1>9, <1>10, <2>1, <2>2
<1> QED BY <1>6, <1>11, <1>12 DEF b, e, v, sg

\* ** of two values, the exponent the wider.
LEMMA RaisesHolds ==
    ASSUME NEW p \in Values, NEW q \in Values, p.width <= q.width
    PROVE  LET w == q.width
               s == p.signed
               b == IntOf(p, s)
               e == IntOf(q, q.signed)
               v == arith("**", p, q)
           IN  /\ HasUnknown(p) \/ HasUnknown(q) => v = xs(w, s)
               /\ ~HasUnknown(p) /\ ~HasUnknown(q) =>
                    /\ w > WideCap => v = xs(w, s)
                    /\ b = 0 /\ e < 0 /\ w > 2 * WordBits => v = xs(w, s)
                    /\ w <= WideCap /\ (b # 0 \/ e >= 0) => Holds(v, w, s, Raised(b, e, w))
<1> DEFINE w == q.width
           s == p.signed
           t == q.signed
           b == IntOf(p, s)
           e == IntOf(q, t)
           v == arith("**", p, q)
           sg == [lhs |-> s, rhs |-> t, res |-> s]
           us == s \/ (t /\ Negative(q))
           lane == IF us THEN SignedLane ELSE UnsignedLane
           le == resize_keep_sign(p, w, s)
           re == resize_keep_sign(q, w, t)
<1>1. w \in Nat /\ p.width \in Nat /\ s \in BOOLEAN /\ t \in BOOLEAN /\ w <= w /\ (s /\ s) = s /\ (t /\ t) = t
  BY ValueParts
<1>2. Mx(p.width, q.width) = w
  BY <1>1 DEF Mx
<1>3. sg.lhs = s /\ sg.rhs = t /\ sg.res = s
  OBVIOUS
<1>4. /\ has_xz(p) <=> HasUnknown(p)
      /\ has_xz(q) <=> HasUnknown(q)
  BY UnknownIsUnknown
<1>5. HasUnknown(p) \/ HasUnknown(q) => v = xs(w, s)
  BY <1>2, <1>4 DEF arith
<1>6. ~HasUnknown(p) /\ ~HasUnknown(q) /\ w > lane => v = arith_wide("**", p, q, w, sg)
  BY <1>2, <1>4 DEF arith
<1> DEFINE i == IF us THEN ReadInt(le, s) ELSE ReadInt(p, FALSE)
           j == IF us THEN ReadInt(re, t) ELSE ReadInt(q, FALSE)
<1>7. ~HasUnknown(p) /\ ~HasUnknown(q) /\ ~(w > lane) => v = native("**", i, j, w, s)
  BY <1>2, <1>4 DEF arith
<1>8. lane \in Nat /\ 1 <= lane /\ lane <= 2 * WordBits /\ 2 * WordBits \in Nat /\ lane <= WideCap /\ WideCap \in Nat
  BY WordBitsAssumption, WideCapAssumption DEF SignedLane, UnsignedLane
<1> SUFFICES ASSUME ~HasUnknown(p), ~HasUnknown(q)
             PROVE  /\ w > WideCap => v = xs(w, s)
                    /\ b = 0 /\ e < 0 /\ w > 2 * WordBits => v = xs(w, s)
                    /\ w <= WideCap /\ (b # 0 \/ e >= 0) => Holds(v, w, s, Raised(b, e, w))
  BY <1>5
<1>9. CASE w > lane
  <2>1. v = arith_wide("**", p, q, w, sg)
    BY <1>6, <1>9
  <2>2. w >= 2
    <3> HIDE DEF w, lane
    <3> QED BY <1>1, <1>8, <1>9
  <2>3. LET k == arith_wide("**", p, q, w, [lhs |-> s, rhs |-> t, res |-> s])
        IN  /\ w > WideCap => k = xs(w, s)
            /\ b = 0 /\ e < 0 => k = xs(w, s)
            /\ w <= WideCap /\ (b # 0 \/ e >= 0) => Holds(k, w, s, Raised(b, e, w))
    BY <1>1, <2>2, WideRaises
  <2> HIDE DEF v, b, e, w, s, t
  <2> QED BY <2>1, <2>3 DEF sg
<1>10. CASE ~(w > lane)
  <2>1. v = native("**", i, j, w, s)
    BY <1>7, <1>10
  <2>2. le \in Values /\ le.signed = s /\ ~HasUnknown(le) /\ IntOf(le, s) = b
    BY <1>1, SizedKnown
  <2>3. re \in Values /\ re.signed = t /\ ~HasUnknown(re) /\ IntOf(re, t) = e
    BY <1>1, SizedKnown
  <2>4. e \in Int /\ b \in Int /\ ((t /\ Negative(q)) <=> e < 0)
    BY <1>1, SignIs
  <2>5. i = b
    <3>1. us => ReadInt(le, s) = b
      <4>1. ReadInt(le, s) = IntOf(le, s /\ le.signed)
        BY <1>1, <2>2, ReadIntIs
      <4> QED BY <1>1, <2>2, <4>1
    <3>2. ~us => ReadInt(p, FALSE) = b
      <4>1. ReadInt(p, FALSE) = IntOf(p, FALSE /\ p.signed)
        BY ReadIntIs
      <4>2. (FALSE /\ p.signed) = FALSE
        OBVIOUS
      <4>3. ~us => s = FALSE
        BY <1>1
      <4> QED BY <4>1, <4>2, <4>3
    <3> QED BY <3>1, <3>2
  <2>6. j = e
    <3>1. us => ReadInt(re, t) = e
      <4>1. ReadInt(re, t) = IntOf(re, t /\ re.signed)
        BY <1>1, <2>3, ReadIntIs
      <4> QED BY <1>1, <2>3, <4>1
    <3>2. ~us => ReadInt(q, FALSE) = e
      <4>1. ReadInt(q, FALSE) = IntOf(q, FALSE /\ q.signed)
        BY ReadIntIs
      <4>2. (FALSE /\ q.signed) = FALSE
        OBVIOUS
      <4>3. IntOf(q, FALSE) = SumAt(OnesOf(q))
        <5>1. ~(IntOf(q, FALSE) < 0)
          BY SignIs
        <5> QED BY <5>1, SignIs
      <4>4. ~us => e = SumAt(OnesOf(q))
        BY <1>1, <2>4, SignIs
      <4> QED BY <4>1, <4>2, <4>3, <4>4
    <3> QED BY <3>1, <3>2
  <2>7. w <= 2 * WordBits
    <3> HIDE DEF w, lane
    <3> QED BY <1>1, <1>8, <1>10
  <2>8. e < 2 ^ (2 * WordBits)
    <3>1. IntOf(q, t) < 0 \/ (IntOf(q, t) = SumAt(OnesOf(q)) /\ SumAt(OnesOf(q)) < 2 ^ q.width /\ SumAt(OnesOf(q)) \in Nat)
      BY <1>1, SignIs
    <3> DEFINE m == 2 * WordBits
    <3>2. m \in Nat /\ w <= m
      BY <1>8, <2>7
    <3> HIDE DEF m, w, e
    <3>3. 2 ^ w <= 2 ^ m /\ 2 ^ w \in Nat /\ 2 ^ m \in Nat
      BY <1>1, <3>2, PowerOrder, PowerOfTwo
    <3>4. e < 2 ^ m
      <4>1. e < 0 \/ e < 2 ^ w
        BY <3>1 DEF e, w
      <4> DEFINE y == 2 ^ w  z == 2 ^ m
      <4>2. y <= z /\ y \in Nat /\ z \in Nat /\ (e < 0 \/ e < y)
        BY <3>3, <4>1
      <4> HIDE DEF y, z
      <4>3. e < z
        BY <2>4, <4>2
      <4> QED BY <4>3 DEF z
    <3> QED BY <3>4 DEF m
  <2>9. v = native("**", b, e, w, s)
    BY <2>1, <2>5, <2>6
  <2> HIDE DEF v, b, e, w, s, t, i, j, lane
  <2>10. Holds(v, w, s, Raised(b, e, w))
    BY <1>1, <2>4, <2>7, <2>8, <2>9, LaneRaises
  <2>11. ~(w > WideCap) /\ ~(w > 2 * WordBits)
    BY <1>1, <1>8, <1>10, <2>7
  <2> QED BY <2>10, <2>11
<1> QED BY <1>9, <1>10

\* A value grown as its own sign has it keeps its number.
LEMMA GrownValue ==
    ASSUME NEW v \in Values, NEW w \in Nat, v.width <= w
    PROVE  LET u == resize(v, w)
           IN  /\ u \in Values /\ u.width = w /\ u.signed = v.signed /\ (HasUnknown(u) <=> HasUnknown(v))
               /\ ~HasUnknown(v) => IntOf(u, v.signed) = IntOf(v, v.signed)
<1> DEFINE u == resize(v, w)  s == v.signed
<1>1. u \in Values /\ u.width = w /\ u.signed = s /\ \A i \in Nat : i < w => BitOf(u, i) = Ext(v, s, i)
  BY ResizeExtends
<1>2. s \in BOOLEAN /\ v.width \in Nat
  BY ValueParts
<1> HIDE DEF u
<1>3. ~HasUnknown(v) => ~HasUnknown(u) /\ IntOf(u, s) = IntOf(v, s)
  <2> HIDE DEF s
  <2> QED BY <1>1, <1>2, IntKept
<1>4. HasUnknown(v) => HasUnknown(u)
  <2> SUFFICES ASSUME HasUnknown(v) PROVE HasUnknown(u)
    OBVIOUS
  <2>1. PICK i \in Nat : i < v.width /\ BitOf(v, i) \notin Defined
    BY DEF HasUnknown
  <2>2. i < w
    BY <1>2, <2>1
  <2>3. BitOf(u, i) = BitOf(v, i)
    BY <1>1, <2>1, <2>2 DEF Ext
  <2> QED BY <1>1, <2>1, <2>2, <2>3 DEF HasUnknown
<1> QED BY <1>1, <1>3, <1>4 DEF u

\* A power modulo 2 ^ m is the power modulo 2 ^ w, for w below m.
LEMMA RaisedAlike ==
    ASSUME NEW m \in Nat, NEW w \in Nat, w <= m, NEW b \in Int, NEW e \in Int
    PROVE  Alike(Raised(b, e, m), Raised(b, e, w), w)
<1>1. CASE e >= 0
  <2>1. e \in Nat /\ e \in 0 .. e
    BY <1>1
  <2> DEFINE x == PowMod(b, e, m)  y == PowMod(b, e, w)  z == PowerTable(b, e)[e]
  <2>2. x \in Nat /\ Alike(x, z, m)
    BY <2>1, PowModIs
  <2>3. y \in Nat /\ Alike(y, z, w)
    BY <2>1, PowModIs
  <2>4. z \in Int
    BY <2>1, PowerTableIs
  <2>5. Raised(b, e, m) = x /\ Raised(b, e, w) = y
    BY <1>1 DEF Raised
  <2> HIDE DEF x, y, z
  <2>6. x \in Int /\ y \in Int
    BY <2>2, <2>3
  <2>7. Alike(x, z, w)
    BY <2>2, <2>4, <2>6, AlikeBelow
  <2>8. Alike(z, y, w)
    BY <2>3, <2>4, <2>6, AlikeSteps
  <2>9. Alike(x, y, w)
    BY <2>4, <2>6, <2>7, <2>8, AlikeSteps
  <2> QED BY <2>5, <2>9
<1>2. CASE ~(e >= 0)
  <2>1. Raised(b, e, m) = Raised(b, e, w)
    BY <1>2 DEF Raised
  <2>2. Raised(b, e, w) \in Int
    BY RaisedType
  <2> DEFINE x == Raised(b, e, w)
  <2>3. x \in Int
    BY <2>2
  <2> HIDE DEF x
  <2>4. Alike(x, x, w)
    BY <2>3, AlikeSelf
  <2> QED BY <2>1, <2>4 DEF x
<1> QED BY <1>1, <1>2

\* ** in the evaluator: the base in its region, the exponent as it is.
LEMMA PowerIs ==
    ASSUME NEW p \in Values, NEW q \in Values, NEW w \in Nat, p.width = w, NEW s \in BOOLEAN, p.signed = s
    PROVE  LET m == Mx(w, q.width)
               b == IntOf(p, s)
               e == IntOf(q, q.signed)
               v == power(p, q, w)
           IN  IF HasUnknown(p) \/ HasUnknown(q) \/ (b = 0 /\ e < 0) \/ m > WideCap
               THEN AllUnknown(v, w, s)
               ELSE Raised(b, e, w) \in Int /\ Holds(v, w, s, Raised(b, e, w))
<1> DEFINE m == Mx(w, q.width)
           b == IntOf(p, s)
           e == IntOf(q, q.signed)
           v == power(p, q, w)
           x == resize(q, m)
           y == arith("**", p, x)
           negative == x.signed /\ Negative(x) /\ x.width <= 2 * WordBits
           early == ~has_xz(p) /\ ~has_xz(x) /\ ones(p) = 0 /\ negative
           k == Raised(b, e, w)
           h == Raised(b, e, m)
<1>1. /\ m \in Nat /\ q.width <= m /\ w <= m /\ m = Mx(q.width, w) /\ q.signed \in BOOLEAN
      /\ 2 * WordBits \in Nat /\ WideCap \in Nat /\ 2 * WordBits <= WideCap
  BY ValueParts, WordBitsAssumption, WideCapAssumption DEF Mx
<1>2. v = IF early THEN xs(w, s) ELSE resize(y, w)
  <2>1. Mx(q.width, w) = m
    BY <1>1
  <2> HIDE DEF m
  <2> QED BY <2>1 DEF power
<1> HIDE DEF m, v
<1>3. /\ x \in Values /\ x.width = m /\ x.signed = q.signed /\ (HasUnknown(x) <=> HasUnknown(q))
      /\ ~HasUnknown(q) => IntOf(x, q.signed) = e
  BY <1>1, GrownValue
<1> HIDE DEF x
<1>4. b \in Int /\ e \in Int
  BY <1>1, OnesAlike
<1>5. k \in Int /\ h \in Int
  <2> HIDE DEF b, e
  <2> QED BY <1>1, <1>4, RaisedType
<1>6. ~HasUnknown(p) => (ones(p) = 0 <=> b = 0)
  <2>1. ones(p) = 0 <=> OnesOf(p) = {}
    BY CountsOnes, FS_CardinalityType, FS_EmptySet
  <2>2. ~HasUnknown(p) => (b = 0 <=> OnesOf(p) = {})
    BY SignIs
  <2> QED BY <2>1, <2>2
<1>7. ~HasUnknown(q) => (x.signed /\ Negative(x) <=> e < 0)
  <2> SUFFICES ASSUME ~HasUnknown(q) PROVE x.signed /\ Negative(x) <=> e < 0
    OBVIOUS
  <2> DEFINE t == q.signed
  <2>1. x \in Values /\ ~HasUnknown(x) /\ t \in BOOLEAN /\ x.signed = t /\ IntOf(x, t) = e
    BY <1>1, <1>3
  <2> HIDE DEF t, e
  <2>2. (t /\ Negative(x)) <=> IntOf(x, t) < 0
    BY <2>1, SignIs
  <2> QED BY <2>1, <2>2
<1>8. /\ has_xz(p) <=> HasUnknown(p)
      /\ has_xz(x) <=> HasUnknown(q)
  BY <1>3, UnknownIsUnknown
<1>9. early <=> ~HasUnknown(p) /\ ~HasUnknown(q) /\ b = 0 /\ e < 0 /\ m <= 2 * WordBits
  <2> HIDE DEF b, e
  <2> QED BY <1>3, <1>6, <1>7, <1>8
<1> HIDE DEF early
<1>10. /\ HasUnknown(p) \/ HasUnknown(q) => y = xs(m, s)
       /\ ~HasUnknown(p) /\ ~HasUnknown(q) =>
            /\ m > WideCap => y = xs(m, s)
            /\ b = 0 /\ e < 0 /\ m > 2 * WordBits => y = xs(m, s)
            /\ m <= WideCap /\ (b # 0 \/ e >= 0) => Holds(y, m, s, h)
  <2>1. p.width <= x.width
    BY <1>1, <1>3
  <2>2. /\ HasUnknown(p) \/ HasUnknown(x) => y = xs(x.width, p.signed)
        /\ ~HasUnknown(p) /\ ~HasUnknown(x) =>
             /\ x.width > WideCap => y = xs(x.width, p.signed)
             /\ IntOf(p, p.signed) = 0 /\ IntOf(x, x.signed) < 0 /\ x.width > 2 * WordBits => y = xs(x.width, p.signed)
             /\ x.width <= WideCap /\ (IntOf(p, p.signed) # 0 \/ IntOf(x, x.signed) >= 0) =>
                   Holds(y, x.width, p.signed, Raised(IntOf(p, p.signed), IntOf(x, x.signed), x.width))
    BY <1>3, <2>1, RaisesHolds
  <2> HIDE DEF y, e
  <2> QED BY <1>3, <2>2
<1>11. y \in Values
  <2>1. "**" \in Arith \cup {"**"}
    OBVIOUS
  <2> QED BY <1>3, <2>1, ArithType DEF Region
<1> HIDE DEF y
<1> DEFINE none == HasUnknown(p) \/ HasUnknown(q) \/ (b = 0 /\ e < 0) \/ m > WideCap
<1>12. ASSUME none PROVE AllUnknown(v, w, s)
  <2>1. CASE early
    BY <1>2, <2>1, XsAreBlank
  <2>2. CASE ~early
    <3>1. y = xs(m, s)
      <4> HIDE DEF b, e, h
      <4>1. b = 0 /\ e < 0 => (m <= 2 * WordBits \/ m > 2 * WordBits)
        BY <1>1
      <4> QED BY <1>9, <1>10, <1>12, <2>2, <4>1
    <3>2. v = resize(xs(m, s), w)
      BY <1>2, <2>2, <3>1
    <3> QED BY <1>1, <3>2, CutBlank
  <2> QED BY <2>1, <2>2
<1>13. ASSUME ~none PROVE Holds(v, w, s, k)
  <2>1. ~early
    BY <1>9, <1>13
  <2>2. v = resize(y, w)
    BY <1>2, <2>1
  <2>3. Holds(y, m, s, h)
    <3> HIDE DEF b, e, h
    <3>1. m <= WideCap /\ (b # 0 \/ e >= 0)
      BY <1>1, <1>4, <1>13
    <3> QED BY <1>10, <1>13, <3>1
  <2>4. y.width = m /\ y.signed = s
    BY <2>3 DEF Holds, Region
  <2>5. v \in Values /\ v.width = w /\ v.signed = s /\ \A i \in Nat : i < w => BitOf(v, i) = BitOf(y, i)
    <3>1. v \in Values /\ v.width = w /\ v.signed = s /\ \A i \in Nat : i < w => BitOf(v, i) = Ext(y, s, i)
      BY <1>11, <2>2, <2>4, ResizeExtends
    <3>2. \A i \in Nat : i < w => Ext(y, s, i) = BitOf(y, i)
      <4>1. \A i \in Nat : i < w => i < m
        BY <1>1
      <4> QED BY <2>4, <4>1 DEF Ext
    <3> QED BY <3>1, <3>2
  <2>6. Region(v, w, s)
    BY <2>5 DEF Region
  <2>7. Alike(h, k, w)
    <3> HIDE DEF b, e
    <3> QED BY <1>1, <1>4, RaisedAlike
  <2> HIDE DEF h, k
  <2> QED BY <1>1, <1>5, <2>3, <2>5, <2>6, <2>7, HoldsAlike
<1> QED BY <1>5, <1>12, <1>13 DEF m, v

\* What ** asks for.
PowerSays(v) ==
    LET b == IntOf(l, LeftSigned)
        e == IntOf(r, r.signed)
    IN  IF ~Known(l) \/ ~Known(r) \/ (b = 0 /\ e < 0) \/ Mx(LeftWidth, r.width) > WideCap
        THEN AllUnknown(v, LeftWidth, LeftSigned)
        ELSE Counts(v, LeftWidth, LeftSigned, Raised(b, e, LeftWidth))

\* ** in a context.
LEMMA PowerAnswer ==
    ASSUME l \in Values, r \in Values, ctx \in Context
    PROVE  PowerSays(eval(Source("**", 0), ctx))
<1> DEFINE v == eval(Source("**", 0), ctx)
           w == LeftWidth
           s == LeftSigned
<1>1. w \in Nat /\ s \in BOOLEAN /\ l.width <= w /\ (l.signed /\ s) = s
  BY RegionSizes
<1>2. "**" \in Binary /\ "**" \in Operators \ {"leaf"} /\ "**" \notin Selects /\ "**" \notin Unary
  BY DEF Binary, Unary, Operators, Selects, Reductions, Signing, Predicates
<1>3. PICK node, A, X : OneNode("**", 0, 0, node, A, X, v)
  BY <1>2, Operates
<1> HIDE DEF v
<1>4. Evals(node, A, X, w, s, v)
  <2>1. RegionWidth(node, A, ctx) = w /\ RegionSigned(node, A, ctx) = s
    BY <1>2, <1>3, Regions
  <2> QED BY <1>3, <2>1 DEF OneNode
<1>5. node.op = "**" /\ Given(A, X, 1, l) /\ Given(A, X, 2, r)
  BY <1>2, <1>3 DEF OneNode
<1> DEFINE p == X[1][Ctx(w, s)]
<1>6. X[2][A[2]] = r
  BY <1>5, ReadsOwn DEF Given
<1>7. v = power(p, r, w)
  <2>1. v = power(X[1][Ctx(w, s)], X[2][A[2]], w)
    BY <1>4, <1>5 DEF Evals
  <2> QED BY <1>6, <2>1
<1> HIDE DEF w, s
<1>8. Prolongs(p, l, w, s)
  BY <1>1, <1>5, SizedOperand DEF Given
<1> HIDE DEF p
<1>9. p \in Values /\ p.width = w /\ p.signed = s
  BY <1>8 DEF Prolongs, Region
<1> DEFINE b == IntOf(l, s)
           e == IntOf(r, r.signed)
           k == Raised(b, e, w)
<1>10. /\ Known(l) <=> ~HasUnknown(p)
       /\ Known(r) <=> ~HasUnknown(r)
       /\ Known(l) => IntOf(p, s) = b
  BY <1>8, <1>9, KnownIs DEF Prolongs
<1>11. IF HasUnknown(p) \/ HasUnknown(r) \/ (IntOf(p, s) = 0 /\ e < 0) \/ Mx(w, r.width) > WideCap
       THEN AllUnknown(v, w, s)
       ELSE Raised(IntOf(p, s), e, w) \in Int /\ Holds(v, w, s, Raised(IntOf(p, s), e, w))
  BY <1>1, <1>7, <1>9, PowerIs
<1> DEFINE none == ~Known(l) \/ ~Known(r) \/ (b = 0 /\ e < 0) \/ Mx(w, r.width) > WideCap
<1> HIDE DEF b, e
<1>12. ASSUME none PROVE AllUnknown(v, w, s)
  BY <1>10, <1>11, <1>12
<1>13. ASSUME ~none PROVE Counts(v, w, s, k)
  <2>1. k \in Int /\ Holds(v, w, s, k)
    BY <1>10, <1>11, <1>13
  <2> HIDE DEF k
  <2> QED BY <1>1, <2>1, HeldBits DEF Counts
<1> QED BY <1>12, <1>13 DEF PowerSays, v, w, s, b, e

-----------------------------------------------------------------------------
(* $countones and $clog2.                                                  *)

\* A number of the width of an integer, in words.
LEMMA IntegerBits ==
    ASSUME NEW n \in Nat, n < 2 ^ IntBits, NEW s \in BOOLEAN
    PROVE  /\ Region(Integer(n, s), IntBits, s)
           /\ \A i \in Nat : i < IntBits => BitOf(Integer(n, s), i) = IF (n \div 2 ^ i) % 2 = 1 THEN "1" ELSE "0"
<1>1. IntBits \in Nat
  BY EvaluateAssumption
<1>2. PICK B \in SUBSET (0 .. IntBits - 1) : PlaceSet(B) /\ SumAt(B) = n
  BY <1>1, EveryNumber
<1> DEFINE a == [k \in Index(IntBits) |-> Num(WordAt(B, k))]
<1>3. ASSUME NEW k \in Index(IntBits) PROVE BitsOf(n \div 2 ^ (k * WordBits)) = WordAt(B, k)
  <2> DEFINE m == k * WordBits  low == {i \in B : i < m}  high == {j \in Nat : m + j \in B}  p == 2 ^ m
             x == SumAt(low)  y == SumAt(high)
  <2>1. k \in Nat /\ m \in Nat
    <3>1. k \in Nat
      BY <1>1, WordsHold DEF Index
    <3> QED BY <3>1, WordBitsAssumption
  <2> HIDE DEF m
  <2>2. PlaceSet(high) /\ x \in Nat /\ x < p /\ y \in Nat /\ SumAt(B) = x + p * y
    BY <1>2, <2>1, Cut
  <2>3. p \in Nat \ {0}
    BY <2>1, PowerOfTwo
  <2>4. n \div p = y
    <3> HIDE DEF p, x, y
    <3>1. n = p * y + x
      BY <1>2, <2>2, <2>3
    <3>2. (p * y + x) \div p = y
      BY <2>2, <2>3, DividedParts
    <3> QED BY <3>1, <3>2
  <2>5. \A b \in Bit : b \in Nat
    BY WordBitsAssumption DEF Bit
  <2>6. \A b \in Nat : (b \in high) <=> ((y \div 2 ^ b) % 2 = 1)
    <3> HIDE DEF high
    <3> QED BY <2>2, BitOfSum
  <2>7. \A b \in Bit : (m + b \in B) <=> ((y \div 2 ^ b) % 2 = 1)
    BY <2>5, <2>6
  <2> HIDE DEF y, p
  <2> QED BY <2>4, <2>7 DEF BitsOf, WordAt, m, p
<1>4. Integer(n, s) = OfDigits(a, IntBits, s)
  <2>1. \A k \in Index(IntBits) : BitsOf(a[k]) = BitsOf(n \div 2 ^ (k * WordBits))
    BY <1>3, WordsOf, BitsOfNum
  <2>2. DOMAIN a = Index(IntBits)
    OBVIOUS
  <2> DEFINE f == [k \in Index(IntBits) |-> BitsOf(n \div 2 ^ (k * WordBits))]  g == [k \in DOMAIN a |-> BitsOf(a[k])]
  <2> HIDE DEF a
  <2>3. f = g
    BY <2>1, <2>2
  <2>4. Integer(n, s) = Value(f, <<>>, IntBits, s)
    BY DEF Integer
  <2>5. OfDigits(a, IntBits, s) = Value(g, <<>>, IntBits, s)
    BY DEF OfDigits
  <2> QED BY <2>3, <2>4, <2>5
<1>5. DigitsOf(a, NWords(IntBits), B)
  BY DEF DigitsOf, Index
<1> HIDE DEF a
<1>6. /\ Region(OfDigits(a, IntBits, s), IntBits, s)
      /\ \A i \in Nat : i < IntBits => BitOf(OfDigits(a, IntBits, s), i) = IF i \in B THEN "1" ELSE "0"
  BY <1>1, <1>2, <1>5, DigitsStand
<1>7. \A i \in Nat : (i \in B) <=> ((n \div 2 ^ i) % 2 = 1)
  BY <1>2, BitOfSum
<1> QED BY <1>4, <1>6, <1>7

\* A count answered as an integer keeps its value in any context.
LEMMA IntegerGrows ==
    ASSUME NEW n \in Nat, NEW t \in BOOLEAN, NEW w \in Nat, IntBits <= w, NEW s \in BOOLEAN,
           n < 2 ^ IntBits, t => n < 2 ^ (IntBits - 1)
    PROVE  Counts(resize_keep_sign(Integer(n, t), w, s), w, s, n)
<1> DEFINE v == Integer(n, t)  u == resize_keep_sign(v, w, s)  m == IntBits
           Bits1(i) == IF (n \div 2 ^ i) % 2 = 1 THEN "1" ELSE "0"
<1>1. m \in Nat \ {0} /\ m - 1 \in Nat
  BY EvaluateAssumption
<1>2. v \in Values /\ v.width = m /\ v.signed = t /\ \A i \in Nat : i < m => BitOf(v, i) = Bits1(i)
  BY IntegerBits DEF Region
<1> HIDE DEF v
<1>3. u \in Values /\ u.width = w /\ u.signed = s /\ \A i \in Nat : i < w => BitOf(u, i) = Ext(v, v.signed /\ s, i)
  <2> HIDE DEF Bits1, m
  <2>1. v \in Values
    BY <1>2
  <2> QED BY <2>1, ContextExtends
<1> HIDE DEF u
<1>4. ASSUME NEW i \in Nat, i < w PROVE BitOf(u, i) = Bits1(i)
  <2>1. CASE i < m
    BY <1>2, <1>3, <1>4, <2>1 DEF Ext
  <2>2. CASE ~(i < m)
    <3>1. Bits1(i) = "0"
      <4>1. m <= i
        BY <1>1, <2>2
      <4> QED BY <1>1, <4>1, HighBits
    <3>2. t => BitOf(v, m - 1) = "0"
      <4>1. m - 1 < m /\ m - 1 <= m - 1
        BY <1>1
      <4>2. t => (n \div 2 ^ (m - 1)) % 2 # 1
        <5> DEFINE k == m - 1
        <5>1. k \in Nat /\ k <= k /\ (t => n < 2 ^ k)
          BY <1>1, <4>1
        <5> HIDE DEF k
        <5>2. t => (n \div 2 ^ k) % 2 # 1
          BY <5>1, HighBits
        <5> QED BY <5>2 DEF k
      <4> QED BY <1>1, <1>2, <4>1, <4>2
    <3>3. Ext(v, v.signed /\ s, i) = "0"
      BY <1>2, <2>2, <3>2 DEF Ext
    <3> QED BY <1>3, <1>4, <3>1, <3>3
  <2> QED BY <2>1, <2>2
<1> HIDE DEF Bits1
<1>5. \A i \in Nat : i < w => BitOf(u, i) = Bits1(i)
  BY <1>4
<1> QED BY <1>3, <1>5 DEF Counts, Region, u, v, Bits1

\* An unknown integer that is unsigned grows by zeros.
LEMMA UnknownGrows ==
    ASSUME NEW w \in Nat, IntBits <= w, NEW s \in BOOLEAN
    PROVE  LET u == resize_keep_sign(xs(IntBits, FALSE), w, s)
           IN  Region(u, w, s) /\ \A i \in Nat : i < w => BitOf(u, i) = IF i < IntBits THEN "x" ELSE "0"
<1> DEFINE v == xs(IntBits, FALSE)  u == resize_keep_sign(v, w, s)
<1>1. IntBits \in Nat
  BY EvaluateAssumption
<1>2. v \in Values /\ v.width = IntBits /\ v.signed = FALSE /\ \A i \in Nat : i < IntBits => BitOf(v, i) = "x"
  BY <1>1, FilledBits
<1> HIDE DEF v
<1>3. u \in Values /\ u.width = w /\ u.signed = s /\ \A i \in Nat : i < w => BitOf(u, i) = Ext(v, v.signed /\ s, i)
  BY <1>2, ContextExtends
<1> HIDE DEF u
<1>4. \A i \in Nat : i < w => BitOf(u, i) = IF i < IntBits THEN "x" ELSE "0"
  BY <1>2, <1>3 DEF Ext
<1> QED BY <1>3, <1>4 DEF Region, u, v

\* What $clog2 and $countones ask for.
CountSays(o, v) ==
    LET n == IntOf(l, FALSE)
        w == Mx(IntBits, ctx.width)
    IN  IF o = "$clog2" /\ ~Known(l)
        THEN /\ Region(v, w, ctx.signed)
             /\ \A i \in Nat : i < w => BitOf(v, i) = IF i < IntBits THEN "x" ELSE "0"
        ELSE Counts(v, w, ctx.signed,
                    IF o = "$countones" THEN Cardinality(OnesOf(l)) ELSE Min({k \in 0 .. l.width : 2 ^ k >= n}))

\* $countones and $clog2 in a context.
LEMMA CountAnswer ==
    ASSUME l \in Operands, r \in Values, ctx \in Context, NEW o \in {"$clog2", "$countones"}
    PROVE  CountSays(o, eval(Source(o, 0), ctx))
<1> DEFINE v == eval(Source(o, 0), ctx)
           w == Mx(IntBits, ctx.width)
           s == ctx.signed
           n == IntOf(l, FALSE)
<1>0. l \in Values
  BY SuppliedValues
<1>1. w \in Nat /\ s \in BOOLEAN /\ IntBits <= w /\ IntBits \in Nat \ {0}
  <2>1. ctx.width \in Nat /\ ctx.signed \in BOOLEAN /\ IntBits \in Nat \ {0}
    BY EvaluateAssumption DEF Context
  <2> QED BY <2>1 DEF Mx
<1>2. o \in Unary /\ o \in Operators \ {"leaf"} /\ o \notin Selects /\ o # "?:" /\ o # "{n{}}"
  BY DEF Unary, Operators, Selects
<1>3. PICK node, A, X : OneNode(o, 0, 0, node, A, X, v)
  BY <1>0, <1>2, Operates
<1> HIDE DEF v
<1>4. Evals(node, A, X, w, s, v)
  <2>1. RegionWidth(node, A, ctx) = w /\ RegionSigned(node, A, ctx) = s
    BY <1>0, <1>2, <1>3, Regions
  <2> QED BY <1>3, <2>1 DEF OneNode
<1>5. node.op = o /\ X[1][A[1]] = l
  <2>1. node.op = o /\ Given(A, X, 1, l)
    BY <1>2, <1>3 DEF OneNode
  <2> QED BY <1>0, <2>1, ReadsOwn DEF Given
<1>6. v = resize_keep_sign(eval_sysfunc(o, l), w, s)
  <2>1. o \in Predicates \cup {"$clog2", "$countones"}
    OBVIOUS
  <2>2. v = resize_keep_sign(eval_sysfunc(o, X[1][A[1]]), w, s)
    BY <1>4, <1>5, <2>1 DEF Evals
  <2> QED BY <1>5, <2>2
<1>7. l.width \in Nat /\ l.width < 2 ^ (IntBits - 1) /\ l.width < 2 ^ IntBits
  <2>1. l.width \in Nat
    BY <1>0, ValueParts
  <2>2. l.width < 2 ^ (IntBits - 1)
    BY WidthAssumption DEF Supplied
  <2> DEFINE m == IntBits - 1  p == 2 ^ m
  <2>3. m \in Nat /\ IntBits = m + 1
    BY <1>1
  <2> HIDE DEF m
  <2>4. 2 ^ (m + 1) = 2 * p /\ p \in Nat
    BY <2>3, PowerOfTwo
  <2>5. l.width < p
    BY <2>2 DEF m
  <2> HIDE DEF p
  <2>6. l.width < 2 * p
    BY <2>1, <2>4, <2>5
  <2>7. l.width < 2 ^ IntBits
    BY <2>3, <2>4, <2>6
  <2> QED BY <2>1, <2>2, <2>7
<1> HIDE DEF w, s
<1>8. CASE o = "$countones"
  <2> DEFINE k == Cardinality(OnesOf(l))
  <2>1. k \in Nat /\ k <= l.width
    BY <1>0, CountFits
  <2>2. k < 2 ^ IntBits /\ k < 2 ^ (IntBits - 1)
    <3> DEFINE p == 2 ^ IntBits  q == 2 ^ (IntBits - 1)
    <3>1. p \in Nat /\ q \in Nat /\ l.width < p /\ l.width < q
      <4>1. IntBits \in Nat /\ IntBits - 1 \in Nat
        BY <1>1
      <4> QED BY <1>7, <4>1, PowerOfTwo
    <3> HIDE DEF p, q, k
    <3>2. k < p /\ k < q
      BY <1>7, <2>1, <3>1
    <3> QED BY <3>2 DEF p, q
  <2>3. v = resize_keep_sign(Integer(k, TRUE), w, s)
    <3>1. eval_sysfunc(o, l) = Integer(k, TRUE)
      BY <1>0, <1>8, CountsOnes DEF eval_sysfunc
    <3> QED BY <1>6, <3>1
  <2> HIDE DEF k
  <2>4. Counts(v, w, s, k)
    BY <1>1, <2>1, <2>2, <2>3, IntegerGrows
  <2> QED BY <1>8, <2>4 DEF CountSays, k, w, s, v
<1>9. CASE o = "$clog2"
  <2>1. /\ has_xz(l) <=> ~Known(l)
        /\ Known(l) <=> ~HasUnknown(l)
        /\ n \in Nat
    BY <1>0, OffsetIs, KnownIs
  <2>2. eval_sysfunc(o, l) = clog2(l)
    BY <1>9 DEF eval_sysfunc
  <2>3. CASE ~Known(l)
    <3>1. v = resize_keep_sign(xs(IntBits, FALSE), w, s)
      BY <1>6, <2>1, <2>2, <2>3 DEF clog2
    <3>2. Region(v, w, s) /\ \A i \in Nat : i < w => BitOf(v, i) = IF i < IntBits THEN "x" ELSE "0"
      BY <1>1, <3>1, UnknownGrows
    <3> QED BY <1>9, <2>3, <3>2 DEF CountSays, w, s, v
  <2>4. CASE Known(l)
    <3> DEFINE k == Min(Reaching(l.width, n))
    <3>1. ReadInt(l, FALSE) = n
      <4>1. ReadInt(l, FALSE) = IntOf(l, FALSE /\ l.signed)
        BY <1>0, <2>1, <2>4, ReadIntIs
      <4>2. (FALSE /\ l.signed) = FALSE
        OBVIOUS
      <4> QED BY <4>1, <4>2
    <3>2. n < 2 ^ l.width
      BY <1>0, <2>1, <2>4, SignIs
    <3>3. LET j == Logarithm(l.width, n) IN j \in Nat /\ j <= l.width /\ j = Min(Reaching(l.width, n))
      <4> HIDE DEF n
      <4> QED BY <1>7, <2>1, <3>2, LeastPower
    <3>4. clog2(l) = Integer(Logarithm(l.width, n), FALSE)
      BY <2>1, <2>4, <3>1 DEF clog2, Logarithm, BitsBefore
    <3>5. clog2(l) = Integer(k, FALSE) /\ k \in Nat /\ k <= l.width
      BY <3>3, <3>4
    <3>6. v = resize_keep_sign(Integer(k, FALSE), w, s)
      BY <1>6, <2>2, <3>5
    <3> HIDE DEF k
    <3>7. k < 2 ^ IntBits
      <4> DEFINE p == 2 ^ IntBits
      <4>1. p \in Nat /\ l.width < p
        BY <1>1, <1>7, PowerOfTwo
      <4> HIDE DEF p
      <4>2. k < p
        BY <1>7, <3>5, <4>1
      <4> QED BY <4>2 DEF p
    <3>8. Counts(v, w, s, k)
      BY <1>1, <3>5, <3>6, <3>7, IntegerGrows
    <3> QED BY <1>9, <2>4, <3>8 DEF CountSays, Reaching, k, w, s, v, n
  <2> QED BY <2>3, <2>4
<1> QED BY <1>8, <1>9

-----------------------------------------------------------------------------
(* Every answer of arithmetic.                                             *)

\* The operators of ArithmeticExact are of kinds apart.
LEMMA Arithmetics ==
    /\ Arith \subseteq Binary /\ "**" \in Binary /\ {"neg", "$clog2", "$countones"} \subseteq Unary
    /\ \A o \in Arith : o \notin {"**", "neg", "$clog2", "$countones"}
    /\ \A o \in Selects \cup Wired \cup {"?:", "{n{}}", "=[]", "tree", "none"} :
          o \notin Arith /\ o \notin {"**", "neg", "$clog2", "$countones"}
BY DEF Arith, Wired, Unary, Binary, Selects

\* What the operators of ArithmeticExact answer.
SumsAnswered(o, v) ==
    /\ o \in Arith => ArithSays(o, v)
    /\ o = "**" => PowerSays(v)
    /\ o = "neg" => NegSays(v)
    /\ o \in {"$clog2", "$countones"} => CountSays(o, v)

SumsInv == CanonicalInv /\ SumsAnswered(op, out)

\* A step answers with the number.
LEMMA StepCounts ==
    ASSUME CanonicalInv, Next
    PROVE  SumsAnswered(op', out')
<1>0. l \in Values /\ r \in Values /\ ctx \in Context /\ l \in Operands
  BY SuppliedValues DEF CanonicalInv
<1>1. ASSUME NEW o \in Unary \cup Binary, op' = o, out' = eval(Source(o, 0), ctx)
      PROVE  SumsAnswered(op', out')
  <2>1. o \in Arith => ArithSays(o, out')
    BY <1>0, <1>1, ArithAnswer
  <2>2. o = "**" => PowerSays(out')
    BY <1>0, <1>1, PowerAnswer
  <2>3. o = "neg" => NegSays(out')
    BY <1>0, <1>1, NegAnswer
  <2>4. o \in {"$clog2", "$countones"} => CountSays(o, out')
    BY <1>0, <1>1, CountAnswer
  <2> QED BY <1>1, <2>1, <2>2, <2>3, <2>4 DEF SumsAnswered
<1>2. ASSUME op' \in Selects \cup Wired \cup {"?:", "{n{}}", "=[]", "tree"} PROVE SumsAnswered(op', out')
  <2>1. op' \notin Arith /\ op' \notin {"**", "neg", "$clog2", "$countones"}
    BY <1>2, Arithmetics
  <2> QED BY <2>1 DEF SumsAnswered
<1> QED BY <1>1, <1>2, StepIs

\* The predicate is about the numbers the property speaks of.
LEMMA SumsAnsweredIs ==
    ASSUME SumsInv
    PROVE  ArithmeticExact
<1>0. l \in Values /\ r \in Values /\ ctx \in Context
  BY SuppliedValues DEF CanonicalInv, SumsInv
<1>1. SumsAnswered(op, out)
  BY DEF SumsInv
<1>2. ASSUME NEW w \in Nat, NEW s, NEW n, Counts(out, w, s, n) PROVE IsInt(w, s, n)
  BY <1>2 DEF Counts, Region, IsInt, Is
<1>3. ASSUME NEW w \in Nat, NEW s, AllUnknown(out, w, s) PROVE IsUnknown(w, s)
  BY <1>3 DEF AllUnknown, Region, IsUnknown, Is
<1>4. Width \in Nat /\ LeftWidth \in Nat
  BY <1>0, RegionSizes
<1>5. op \in Arith =>
        LET a == IntOf(l, Signed)  b == IntOf(r, Signed)
        IN  IF ~Known(l) \/ ~Known(r) \/ (op \in {"/", "%"} /\ b = 0)
               \/ (op # "+" /\ op # "-" /\ Width > WideCap)
            THEN IsUnknown(Width, Signed)
            ELSE IsInt(Width, Signed, CASE op = "+" -> a + b [] op = "-" -> a - b
                                        [] op = "*" -> a * b [] op = "/" -> Quot(a, b)
                                        [] op = "%" -> Rest(a, b))
  <2> SUFFICES ASSUME op \in Arith
               PROVE  LET a == IntOf(l, Signed)  b == IntOf(r, Signed)
                      IN  IF ~Known(l) \/ ~Known(r) \/ (op \in {"/", "%"} /\ b = 0)
                             \/ (op # "+" /\ op # "-" /\ Width > WideCap)
                          THEN IsUnknown(Width, Signed)
                          ELSE IsInt(Width, Signed, CASE op = "+" -> a + b [] op = "-" -> a - b
                                                      [] op = "*" -> a * b [] op = "/" -> Quot(a, b)
                                                      [] op = "%" -> Rest(a, b))
    OBVIOUS
  <2> DEFINE a == IntOf(l, Signed)
             b == IntOf(r, Signed)
             w == Width
             s == Signed
             none == ~Known(l) \/ ~Known(r) \/ (op \in {"/", "%"} /\ b = 0)
                        \/ (op # "+" /\ op # "-" /\ w > WideCap)
             k == Computed(op, a, b)
  <2>1. IF none THEN AllUnknown(out, w, s) ELSE Counts(out, w, s, k)
    BY <1>1 DEF SumsAnswered, ArithSays
  <2>2. k = CASE op = "+" -> a + b [] op = "-" -> a - b [] op = "*" -> a * b
              [] op = "/" -> Quot(a, b) [] op = "%" -> Rest(a, b)
    BY DEF Computed
  <2>3. w \in Nat
    BY <1>4
  <2> HIDE DEF none, k, w, s
  <2>4. IF none THEN IsUnknown(w, s) ELSE IsInt(w, s, k)
    BY <1>2, <1>3, <2>1, <2>3
  <2> QED BY <2>2, <2>4 DEF none, w, s
<1>6. op = "**" =>
        LET b == IntOf(l, LeftSigned)  e == IntOf(r, r.signed)
            w == LeftWidth  s == LeftSigned
        IN  IF ~Known(l) \/ ~Known(r) \/ (b = 0 /\ e < 0) \/ Mx(w, r.width) > WideCap
            THEN IsUnknown(w, s)
            ELSE IsInt(w, s, IF e >= 0 THEN PowMod(b, e, w)
                             ELSE IF b = 1 \/ (b = -1 /\ e % 2 = 0) THEN 1
                             ELSE IF b = -1 THEN -1 ELSE 0)
  <2> DEFINE b == IntOf(l, LeftSigned)
             e == IntOf(r, r.signed)
             w == LeftWidth
             s == LeftSigned
             none == ~Known(l) \/ ~Known(r) \/ (b = 0 /\ e < 0) \/ Mx(w, r.width) > WideCap
             k == Raised(b, e, w)
  <2>1. op = "**" => IF none THEN AllUnknown(out, w, s) ELSE Counts(out, w, s, k)
    BY <1>1 DEF SumsAnswered, PowerSays
  <2>2. k = IF e >= 0 THEN PowMod(b, e, w)
            ELSE IF b = 1 \/ (b = -1 /\ e % 2 = 0) THEN 1
            ELSE IF b = -1 THEN -1 ELSE 0
    BY DEF Raised
  <2>3. w \in Nat
    BY <1>4
  <2> HIDE DEF none, k, w, s
  <2>4. op = "**" => IF none THEN IsUnknown(w, s) ELSE IsInt(w, s, k)
    BY <1>2, <1>3, <2>1, <2>3
  <2> QED BY <2>2, <2>4 DEF none, w, s
<1>7. op = "neg" => IF Known(l) THEN IsInt(LeftWidth, LeftSigned, -IntOf(l, LeftSigned))
                    ELSE IsUnknown(LeftWidth, LeftSigned)
  BY <1>1, <1>2, <1>3, <1>4 DEF SumsAnswered, NegSays
<1>8. op \in {"$clog2", "$countones"} =>
        LET n == IntOf(l, FALSE)
            w == Mx(IntBits, ctx.width)
        IN  IF op = "$clog2" /\ ~Known(l)
            THEN Is(w, ctx.signed, LAMBDA i : IF i < IntBits THEN "x" ELSE "0")
            ELSE IsInt(w, ctx.signed,
                       IF op = "$countones" THEN Cardinality({i \in 0 .. l.width - 1 : BitOf(l, i) = "1"})
                       ELSE Min({k \in 0 .. l.width : 2 ^ k >= n}))
  <2> DEFINE n == IntOf(l, FALSE)
             w == Mx(IntBits, ctx.width)
             s == ctx.signed
             none == op = "$clog2" /\ ~Known(l)
             k == IF op = "$countones" THEN Cardinality(OnesOf(l)) ELSE Min({j \in 0 .. l.width : 2 ^ j >= n})
  <2>1. op \in {"$clog2", "$countones"} =>
           IF none
           THEN Region(out, w, s) /\ \A i \in Nat : i < w => BitOf(out, i) = IF i < IntBits THEN "x" ELSE "0"
           ELSE Counts(out, w, s, k)
    BY <1>1 DEF SumsAnswered, CountSays
  <2>2. w \in Nat
    <3>1. ctx.width \in Nat /\ IntBits \in Nat
      BY <1>0, EvaluateAssumption DEF Context
    <3> QED BY <3>1 DEF Mx
  <2>3. k = IF op = "$countones" THEN Cardinality({i \in 0 .. l.width - 1 : BitOf(l, i) = "1"})
            ELSE Min({j \in 0 .. l.width : 2 ^ j >= n})
    BY DEF OnesOf
  <2> HIDE DEF w, s, none, k
  <2>4. op \in {"$clog2", "$countones"} =>
           IF none THEN Is(w, s, LAMBDA i : IF i < IntBits THEN "x" ELSE "0") ELSE IsInt(w, s, k)
    BY <1>2, <2>1, <2>2 DEF Is, Region
  <2> QED BY <2>3, <2>4 DEF w, s, none
<1> QED BY <1>5, <1>6, <1>7, <1>8 DEF ArithmeticExact

\* + - * / % ** and negation are the integer operations at the width and the sign
\* of their region, whichever lane they run in, and $clog2 and $countones count
\* (arith, arith_wide, power, negate, eval_sysfunc and the kernels of mw.rs).
THEOREM ArithmeticExactHolds == Spec => []ArithmeticExact
<1>1. Init => SumsInv
  <2> SUFFICES ASSUME Init PROVE SumsInv
    OBVIOUS
  <2>1. CanonicalInv
    BY SuppliedValues DEF Init, CanonicalInv
  <2>2. op \notin Arith /\ op \notin {"**", "neg", "$clog2", "$countones"}
    BY Arithmetics DEF Init
  <2> QED BY <2>1, <2>2 DEF SumsInv, SumsAnswered
<1>2. SumsInv /\ [Next]_vars => SumsInv'
  <2> SUFFICES ASSUME SumsInv, [Next]_vars PROVE SumsInv'
    OBVIOUS
  <2> USE DEF SumsAnswered, ArithSays, PowerSays, NegSays, CountSays, Width, Signed, LeftWidth, LeftSigned
  <2>1. CASE Next
    <3>1. CanonicalInv' /\ UNCHANGED <<l, r, ctx>>
      BY <2>1, StepAnswers DEF SumsInv, CanonicalInv
    <3>2. SumsAnswered(op', out')
      BY <2>1, StepCounts DEF SumsInv
    <3>3. SumsAnswered(op, out)'
      BY <3>1, <3>2
    <3> QED BY <3>1, <3>3 DEF SumsInv
  <2>2. CASE UNCHANGED vars
    BY <2>2 DEF vars, SumsInv, CanonicalInv
  <2> QED BY <2>1, <2>2
<1> QED BY <1>1, <1>2, SumsAnsweredIs, PTL DEF Spec
=============================================================================
