---------------------------- MODULE WorkLibProofs ----------------------------
(***************************************************************************)
(* The work library, for any files, units, directories and command lines,  *)
(* and for any number of racing, interrupted vcmp runs: manifests stay     *)
(* consistent, a library always reads, velab's closure is the search       *)
(* order's, and what vrun accepts is current.                              *)
(***************************************************************************)
EXTENDS WorkLib, WellFoundedInduction, SequenceTheorems, TLAPS

-----------------------------------------------------------------------------
(* Induction over the naturals, for sets: the prover cannot instantiate the *)
(* library's induction rules, whose predicate is an operator.               *)

\* A set of naturals has a least element.
LEMMA LeastNat ==
    ASSUME NEW S \in SUBSET Nat, S # {}
    PROVE  \E m \in S : \A n \in S : m <= n
<1> DEFINE R == {ss \in Nat \X Nat : ss[1] < ss[2]}
<1>1. IsWellFoundedOn(R, Nat)
  BY NatLessThanWellFounded DEF OpToRel
<1>2. \A x, y \in Nat : <<y, x>> \in R <=> y < x
  OBVIOUS
<1> HIDE DEF R
<1>3. PICK x \in S : \A y \in S : ~(<<y, x>> \in R)
  BY <1>1, WFMin
<1>4. ASSUME NEW y \in S
      PROVE  x <= y
  <2>1. x \in Nat /\ y \in Nat /\ ~(<<y, x>> \in R)
    BY <1>3
  <2>2. ~(y < x)
    BY <1>2, <2>1
  <2> QED BY <2>1, <2>2
<1> QED BY <1>4

\* A set that holds 0 and the successor of each member holds every natural.
LEMMA SetInduction ==
    ASSUME NEW P, 0 \in P, \A n \in Nat : n \in P => n + 1 \in P
    PROVE  Nat \subseteq P
<1> SUFFICES ASSUME Nat \ P # {} PROVE FALSE
  OBVIOUS
<1>1. PICK m \in Nat \ P : \A n \in Nat \ P : m <= n
  BY LeastNat
<1>2. m - 1 \in Nat /\ m - 1 \in P
  BY <1>1
<1> QED BY <1>1, <1>2

-----------------------------------------------------------------------------
(* The entries kept of a queue.                                            *)

\* What `Kept` keeps of the first places of q, up to place N.
KeptTo(q, I, N) ==
    LET upto[n \in 0 .. N] ==
            IF n = 0 THEN <<>>
            ELSE IF n \in I THEN Append(upto[n - 1], q[n]) ELSE upto[n - 1]
    IN  upto

\* That function exists, so that its equations hold.
LEMMA KeptEquations ==
    ASSUME NEW N \in Nat, NEW q, NEW I
    PROVE  \A n \in 0 .. N :
              KeptTo(q, I, N)[n] =
                 IF n = 0 THEN <<>>
                 ELSE IF n \in I THEN Append(KeptTo(q, I, N)[n - 1], q[n])
                                 ELSE KeptTo(q, I, N)[n - 1]
<1> DEFINE Next_(f, m) == [n \in 0 .. m |->
                             IF n = 0 THEN <<>>
                             ELSE IF n \in I THEN Append(f[n - 1], q[n]) ELSE f[n - 1]]
           P == {m \in Nat : \E f : f = Next_(f, m)}
<1>1. 0 \in P
  <2>1. [n \in 0 .. 0 |-> <<>>] = Next_([n \in 0 .. 0 |-> <<>>], 0)
    OBVIOUS
  <2> HIDE DEF Next_
  <2> QED BY <2>1
<1>2. ASSUME NEW m \in Nat, m \in P
      PROVE  m + 1 \in P
  <2>1. PICK f : f = Next_(f, m)
    BY <1>2
  <2> DEFINE g == [n \in 0 .. m + 1 |->
                      IF n <= m THEN f[n]
                      ELSE IF n \in I THEN Append(f[m], q[n]) ELSE f[m]]
  <2>2. \A n \in 0 .. m + 1 :
            g[n] = IF n = 0 THEN <<>>
                   ELSE IF n \in I THEN Append(g[n - 1], q[n]) ELSE g[n - 1]
    <3> TAKE n \in 0 .. m + 1
    <3>1. CASE n = 0
      BY <2>1, <3>1
    <3>2. CASE n \in 1 .. m
      <4>1. f[n] = Next_(f, m)[n]
        <5> HIDE DEF Next_
        <5> QED BY <2>1
      <4>2. f[n] = IF n \in I THEN Append(f[n - 1], q[n]) ELSE f[n - 1]
        BY <3>2, <4>1
      <4> QED BY <3>2, <4>2
    <3>3. CASE n = m + 1
      BY <3>3
    <3> QED BY <3>1, <3>2, <3>3
  <2>3. g = Next_(g, m + 1)
    <3>1. g = [n \in 0 .. m + 1 |-> g[n]]
      OBVIOUS
    <3> HIDE DEF g
    <3>2. \A n \in 0 .. m + 1 : Next_(g, m + 1)[n] = g[n]
      BY <2>2
    <3>3. Next_(g, m + 1) = [n \in 0 .. m + 1 |-> Next_(g, m + 1)[n]]
      OBVIOUS
    <3> HIDE DEF Next_
    <3> QED BY <3>1, <3>2, <3>3
  <2>4. \E h : h = Next_(h, m + 1)
    <3> HIDE DEF g, Next_
    <3> QED BY <2>3
  <2> QED BY <2>4
<1> HIDE DEF P
<1>3. N \in P
  BY <1>1, <1>2, SetInduction
<1>4. \E f : f = Next_(f, N)
  BY <1>3 DEF P
<1>5. KeptTo(q, I, N) = (CHOOSE f : f = Next_(f, N))
  BY DEF KeptTo
<1>6. KeptTo(q, I, N) = Next_(KeptTo(q, I, N), N)
  <2> HIDE DEF Next_
  <2> QED BY <1>4, <1>5
<1>7. \A n \in 0 .. N : KeptTo(q, I, N)[n] = Next_(KeptTo(q, I, N), N)[n]
  <2> HIDE DEF Next_
  <2> QED BY <1>6
<1> QED BY <1>7

\* What is kept of q: the entries at the places I, each once and in order.
Keeps(q, I, n, s) ==
    \E g \in [1 .. Len(s) -> I \cap (1 .. n)] :
        /\ \A k \in 1 .. Len(s) : s[k] = q[g[k]]
        /\ \A j, k \in 1 .. Len(s) : j < k => g[j] < g[k]
        /\ \A i \in I \cap (1 .. n) : \E k \in 1 .. Len(s) : g[k] = i

\* One more place of q is kept.
LEMMA KeepsOneMore ==
    ASSUME NEW T, NEW q, NEW I, NEW n \in Nat, NEW s \in Seq(T), Keeps(q, I, n, s),
           n + 1 \in I, q[n + 1] \in T
    PROVE  Append(s, q[n + 1]) \in Seq(T) /\ Keeps(q, I, n + 1, Append(s, q[n + 1]))
<1>1. PICK g \in [1 .. Len(s) -> I \cap (1 .. n)] :
            /\ \A k \in 1 .. Len(s) : s[k] = q[g[k]]
            /\ \A j, k \in 1 .. Len(s) : j < k => g[j] < g[k]
            /\ \A i \in I \cap (1 .. n) : \E k \in 1 .. Len(s) : g[k] = i
  BY DEF Keeps
<1> DEFINE t == Append(s, q[n + 1])
           h == [k \in 1 .. Len(t) |-> IF k <= Len(s) THEN g[k] ELSE n + 1]
<1>2. /\ t \in Seq(T) /\ Len(s) \in Nat /\ Len(t) = Len(s) + 1
      /\ t[Len(t)] = q[n + 1] /\ \A k \in 1 .. Len(s) : t[k] = s[k]
  OBVIOUS
<1> HIDE DEF t
<1>3. ASSUME NEW k \in 1 .. Len(s)
      PROVE  g[k] \in I \cap (1 .. n) /\ h[k] = g[k]
  <2>1. g[k] \in I \cap (1 .. n)
    BY <1>1
  <2>2. k \in 1 .. Len(t) /\ k <= Len(s)
    BY <1>2
  <2> QED BY <2>1, <2>2
<1>4. h[Len(t)] = n + 1
  BY <1>2
<1>5. h \in [1 .. Len(t) -> I \cap (1 .. n + 1)]
  BY <1>2, <1>3, <1>4
<1> HIDE DEF h
<1>6. \A k \in 1 .. Len(t) : k \in 1 .. Len(s) \/ k = Len(t)
  BY <1>2
<1>7. \A k \in 1 .. Len(t) : t[k] = q[h[k]]
  BY <1>1, <1>2, <1>3, <1>4, <1>6
<1>8. ASSUME NEW j \in 1 .. Len(t), NEW k \in 1 .. Len(t), j < k
      PROVE  h[j] < h[k]
  <2>1. j \in 1 .. Len(s)
    BY <1>2, <1>8
  <2>2. h[j] = g[j] /\ g[j] \in 1 .. n
    BY <1>3, <2>1
  <2>3. CASE k = Len(t)
    BY <1>4, <2>2, <2>3
  <2>4. CASE k \in 1 .. Len(s)
    BY <1>1, <1>3, <1>8, <2>1, <2>4
  <2> QED BY <1>6, <2>3, <2>4
<1>9. ASSUME NEW i \in I \cap (1 .. n + 1)
      PROVE  \E k \in 1 .. Len(t) : h[k] = i
  <2>1. CASE i = n + 1
    <3>1. Len(t) \in 1 .. Len(t)
      BY <1>2
    <3> QED BY <1>4, <2>1, <3>1
  <2>2. CASE i \in 1 .. n
    <3>1. PICK k \in 1 .. Len(s) : g[k] = i
      BY <1>1, <2>2
    <3>2. k \in 1 .. Len(t) /\ h[k] = i
      BY <1>2, <1>3, <3>1
    <3> QED BY <3>2
  <2> QED BY <2>1, <2>2
<1>10. Keeps(q, I, n + 1, t)
  BY <1>5, <1>7, <1>8, <1>9 DEF Keeps
<1> QED BY <1>2, <1>10 DEF t

\* `Kept` keeps the entries at the places I.
LEMMA KeptKeeps ==
    ASSUME NEW T, NEW q \in Seq(T), NEW I
    PROVE  Kept(q, I) \in Seq(T) /\ Keeps(q, I, Len(q), Kept(q, I))
<1> DEFINE upto == KeptTo(q, I, Len(q))
<1>1. Len(q) \in Nat /\ \A n \in 1 .. Len(q) : q[n] \in T
  OBVIOUS
<1>2. Kept(q, I) = upto[Len(q)]
  BY DEF Kept, KeptTo
<1>3. \A n \in 0 .. Len(q) :
          upto[n] = IF n = 0 THEN <<>>
                    ELSE IF n \in I THEN Append(upto[n - 1], q[n]) ELSE upto[n - 1]
  BY <1>1, KeptEquations
<1> HIDE DEF upto
<1> DEFINE P == {n \in Nat : n <= Len(q) => upto[n] \in Seq(T) /\ Keeps(q, I, n, upto[n])}
<1>4. 0 \in P
  <2>1. upto[0] = <<>>
    BY <1>1, <1>3
  <2>2. Keeps(q, I, 0, <<>>)
    <3> DEFINE g == [k \in 1 .. 0 |-> k]
    <3>1. 1 .. Len(<<>>) = {} /\ I \cap (1 .. 0) = {}
      OBVIOUS
    <3>2. g \in [1 .. Len(<<>>) -> I \cap (1 .. 0)]
      BY <3>1
    <3> HIDE DEF g
    <3> QED BY <3>1, <3>2 DEF Keeps
  <2>3. <<>> \in Seq(T)
    OBVIOUS
  <2> QED BY <2>1, <2>2, <2>3
<1>5. ASSUME NEW n \in Nat, n \in P
      PROVE  n + 1 \in P
  <2> SUFFICES ASSUME n + 1 <= Len(q)
               PROVE  upto[n + 1] \in Seq(T) /\ Keeps(q, I, n + 1, upto[n + 1])
    OBVIOUS
  <2>1. upto[n] \in Seq(T) /\ Keeps(q, I, n, upto[n])
    BY <1>1, <1>5
  <2>2. upto[n + 1] = IF n + 1 \in I THEN Append(upto[n], q[n + 1]) ELSE upto[n]
    <3>1. n + 1 \in 0 .. Len(q) /\ n + 1 # 0 /\ (n + 1) - 1 = n
      BY <1>1
    <3> QED BY <1>3, <3>1
  <2>3. CASE n + 1 \in I
    BY <1>1, <2>1, <2>2, <2>3, KeepsOneMore
  <2>4. CASE n + 1 \notin I
    <3>1. I \cap (1 .. n + 1) = I \cap (1 .. n)
      BY <2>4
    <3> DEFINE t == upto[n]
    <3> HIDE DEF t
    <3>2. Keeps(q, I, n, t)
      BY <2>1 DEF t
    <3>3. Keeps(q, I, n + 1, t)
      BY <3>1, <3>2 DEF Keeps
    <3>4. upto[n + 1] = t
      BY <2>2, <2>4 DEF t
    <3> QED BY <2>1, <3>3, <3>4 DEF t
  <2> QED BY <2>3, <2>4
<1> HIDE DEF P
<1>6. Len(q) \in P
  BY <1>1, <1>4, <1>5, SetInduction
<1> QED BY <1>1, <1>2, <1>6 DEF P

-----------------------------------------------------------------------------
(* Nothing else has that property.                                         *)

\* If the first m places are kept, they come first.
LEMMA KeepsFirst ==
    ASSUME NEW T, NEW q, NEW I, NEW n \in Nat, NEW s \in Seq(T), Keeps(q, I, n, s),
           NEW m \in 0 .. n, 1 .. m \subseteq I
    PROVE  m <= Len(s) /\ \A k \in 1 .. m : s[k] = q[k]
<1>1. PICK g \in [1 .. Len(s) -> I \cap (1 .. n)] :
            /\ \A k \in 1 .. Len(s) : s[k] = q[g[k]]
            /\ \A j, k \in 1 .. Len(s) : j < k => g[j] < g[k]
            /\ \A i \in I \cap (1 .. n) : \E k \in 1 .. Len(s) : g[k] = i
  BY DEF Keeps
<1>2. Len(s) \in Nat /\ \A k \in 1 .. Len(s) : g[k] \in 1 .. n
  BY <1>1
<1> DEFINE P == {k \in Nat : k \in 1 .. m => k <= Len(s) /\ g[k] = k}
<1>3. 0 \in P
  OBVIOUS
<1>4. ASSUME NEW k \in Nat, k \in P
      PROVE  k + 1 \in P
  <2> SUFFICES ASSUME k + 1 \in 1 .. m
               PROVE  k + 1 <= Len(s) /\ g[k + 1] = k + 1
    OBVIOUS
  <2>1. k = 0 \/ (k \in 1 .. Len(s) /\ g[k] = k)
    BY <1>2, <1>4
  <2>2. k + 1 \in I \cap (1 .. n)
    OBVIOUS
  <2>3. PICK j \in 1 .. Len(s) : g[j] = k + 1
    BY <1>1, <2>2
  <2>4. k < j
    <3>1. ASSUME k # 0, j <= k PROVE FALSE
      BY <1>1, <1>2, <2>1, <2>3, <3>1
    <3> QED BY <3>1
  <2>5. k + 1 \in 1 .. Len(s)
    BY <1>2, <2>4
  <2>6. g[k + 1] <= k + 1
    BY <1>1, <1>2, <2>3, <2>4, <2>5
  <2>7. k < g[k + 1]
    BY <1>1, <1>2, <2>1, <2>5
  <2> QED BY <1>2, <2>5, <2>6, <2>7
<1> HIDE DEF P
<1>5. Nat \subseteq P
  BY <1>3, <1>4, SetInduction
<1>6. \A k \in 1 .. m : k \in 1 .. Len(s) /\ g[k] = k
  BY <1>2, <1>5 DEF P
<1>7. m <= Len(s)
  BY <1>2, <1>6
<1> QED BY <1>1, <1>6, <1>7

\* g lists S, of a elements, in increasing order.
Lists(g, a, S) ==
    /\ g \in [1 .. a -> S]
    /\ \A j, k \in 1 .. a : j < k => g[j] < g[k]
    /\ \A i \in S : \E k \in 1 .. a : g[k] = i

\* Two increasing enumerations of one set agree as far as the first goes.
LEMMA SamePlaces ==
    ASSUME NEW S \in SUBSET Nat, NEW a \in Nat, NEW b \in Nat, NEW g, NEW h,
           Lists(g, a, S), Lists(h, b, S)
    PROVE  a <= b /\ \A k \in 1 .. a : g[k] = h[k]
<1> USE DEF Lists
<1>0. /\ \A k \in 1 .. a : g[k] \in S /\ g[k] \in Nat
      /\ \A k \in 1 .. b : h[k] \in S /\ h[k] \in Nat
  OBVIOUS
<1> DEFINE P == {k \in Nat : k \in 1 .. a => k <= b /\ g[k] = h[k]}
<1>1. 0 \in P
  OBVIOUS
<1>2. ASSUME NEW k \in Nat, k \in P
      PROVE  k + 1 \in P
  <2> SUFFICES ASSUME k + 1 \in 1 .. a
               PROVE  k + 1 <= b /\ g[k + 1] = h[k + 1]
    OBVIOUS
  <2>1. k = 0 \/ (k \in 1 .. a /\ k \in 1 .. b /\ g[k] = h[k])
    BY <1>2
  <2>2. g[k + 1] \in S
    OBVIOUS
  <2>3. PICK j \in 1 .. b : h[j] = g[k + 1]
    BY <2>2
  <2>4. k < j
    <3>1. ASSUME k # 0, j <= k PROVE FALSE
      <4>1. j = k \/ h[j] < h[k]
        BY <2>1, <3>1
      <4>2. g[k] < g[k + 1]
        BY <2>1, <3>1
      <4> QED BY <1>0, <2>1, <2>3, <3>1, <4>1, <4>2
    <3> QED BY <3>1
  <2>5. k + 1 \in 1 .. b
    BY <2>4
  <2>6. h[k + 1] <= g[k + 1]
    <3>1. k + 1 = j \/ h[k + 1] < h[j]
      BY <2>4, <2>5
    <3>2. h[k + 1] \in Nat /\ h[j] \in Nat
      BY <1>0, <2>5
    <3> QED BY <2>3, <3>1, <3>2
  <2>7. PICK i \in 1 .. a : g[i] = h[k + 1]
    BY <2>5
  <2>8. k < i
    <3>1. ASSUME k # 0, i <= k PROVE FALSE
      <4>1. i = k \/ g[i] < g[k]
        BY <2>1, <3>1
      <4>2. h[k] < h[k + 1]
        BY <2>1, <2>5, <3>1
      <4>3. /\ g[i] \in Nat /\ g[k] \in Nat
            /\ h[k] \in Nat /\ h[k + 1] \in Nat
        BY <1>0, <2>1, <2>5, <3>1
      <4> QED BY <2>1, <2>7, <3>1, <4>1, <4>2, <4>3
    <3> QED BY <3>1
  <2>9. g[k + 1] <= h[k + 1]
    <3>1. k + 1 = i \/ g[k + 1] < g[i]
      BY <2>8
    <3>2. g[k + 1] \in Nat /\ g[i] \in Nat
      BY <1>0
    <3> QED BY <2>7, <3>1, <3>2
  <2> QED BY <1>0, <2>5, <2>6, <2>9
<1> HIDE DEF P
<1>3. Nat \subseteq P
  BY <1>1, <1>2, SetInduction
<1>4. \A k \in 1 .. a : k <= b /\ g[k] = h[k]
  BY <1>3 DEF P
<1>5. a <= b
  BY <1>4
<1> QED BY <1>4, <1>5

\* Only one sequence keeps the entries of q at the places I, once each and in order.
LEMMA KeepsOnly ==
    ASSUME NEW T, NEW q, NEW I, NEW n \in Nat, NEW s \in Seq(T), NEW t \in Seq(T),
           Keeps(q, I, n, s), Keeps(q, I, n, t)
    PROVE  s = t
<1> DEFINE S == I \cap (1 .. n)
<1>1. PICK g \in [1 .. Len(s) -> S] :
            /\ \A k \in 1 .. Len(s) : s[k] = q[g[k]]
            /\ \A j, k \in 1 .. Len(s) : j < k => g[j] < g[k]
            /\ \A i \in S : \E k \in 1 .. Len(s) : g[k] = i
  BY DEF Keeps
<1>2. PICK h \in [1 .. Len(t) -> S] :
            /\ \A k \in 1 .. Len(t) : t[k] = q[h[k]]
            /\ \A j, k \in 1 .. Len(t) : j < k => h[j] < h[k]
            /\ \A i \in S : \E k \in 1 .. Len(t) : h[k] = i
  BY DEF Keeps
<1>3. S \in SUBSET Nat /\ Len(s) \in Nat /\ Len(t) \in Nat
  OBVIOUS
<1> HIDE DEF S
<1>7. Lists(g, Len(s), S) /\ Lists(h, Len(t), S)
  BY <1>1, <1>2 DEF Lists
<1>4. Len(s) <= Len(t) /\ \A k \in 1 .. Len(s) : g[k] = h[k]
  BY <1>3, <1>7, SamePlaces
<1>5. Len(t) <= Len(s)
  BY <1>3, <1>7, SamePlaces
<1>6. Len(s) = Len(t) /\ \A k \in 1 .. Len(s) : s[k] = t[k]
  BY <1>1, <1>2, <1>3, <1>4, <1>5
<1> QED BY <1>6

-----------------------------------------------------------------------------
(* Compilations.                                                           *)

\* What a compilation read: contents that its files may have.
Compiled == {t \in UNION {[S -> Contents] : S \in SUBSET Paths} :
                \A f \in DOMAIN t : t[f] \in Texts[f]}

Unit    == {cu \in [src : Compiled, inc : Compiled] : DOMAIN cu.src # {}}
Library == [name : {r.name : r \in Requests}, cus : Seq(Unit)]

-----------------------------------------------------------------------------
(* Manifests.                                                              *)

\* What a sequence holds.
LEMMA SeqRange ==
    ASSUME NEW T, NEW s \in Seq(T)
    PROVE  /\ Range(s) = {s[k] : k \in 1 .. Len(s)} /\ Range(s) \subseteq T
           /\ Len(s) \in Nat /\ DOMAIN s = 1 .. Len(s)
BY DEF Range

\* A sequence with one entry more.
LEMMA Inserted ==
    ASSUME NEW T, NEW s \in Seq(T), NEW i \in 1 .. Len(s) + 1, NEW e \in T
    PROVE  /\ InsertAt(s, i, e) \in Seq(T)
           /\ Len(InsertAt(s, i, e)) = Len(s) + 1
           /\ \A j \in 1 .. Len(s) + 1 :
                 InsertAt(s, i, e)[j] = IF j < i THEN s[j] ELSE IF j = i THEN e ELSE s[j - 1]
<1> DEFINE a == SubSeq(s, 1, i - 1)  b == SubSeq(s, i, Len(s))
<1>1. Len(s) \in Nat /\ i \in Int /\ \A j \in 1 .. Len(s) : s[j] \in T
  OBVIOUS
<1>2. /\ a \in Seq(T) /\ Len(a) = i - 1 /\ \A j \in 1 .. i - 1 : a[j] = s[j]
  <2>1. \A j \in 1 .. i - 1 : s[j] \in T
    BY <1>1
  <2>2. /\ a \in Seq(T)
        /\ Len(a) = IF 1 <= i - 1 THEN (i - 1) - 1 + 1 ELSE 0
        /\ \A j \in 1 .. (i - 1) - 1 + 1 : a[j] = s[1 + j - 1]
    BY <1>1, <2>1, SubSeqProperties
  <2> QED BY <1>1, <2>2
<1>3. /\ b \in Seq(T) /\ Len(b) = Len(s) - i + 1
      /\ \A j \in 1 .. Len(s) - i + 1 : b[j] = s[i + j - 1]
  <2>1. \A j \in i .. Len(s) : s[j] \in T
    BY <1>1
  <2>2. /\ b \in Seq(T)
        /\ Len(b) = IF i <= Len(s) THEN Len(s) - i + 1 ELSE 0
        /\ \A j \in 1 .. Len(s) - i + 1 : b[j] = s[i + j - 1]
    BY <1>1, <2>1, SubSeqProperties
  <2> QED BY <1>1, <2>2
<1>4. InsertAt(s, i, e) = (a \o <<e>>) \o b
  BY DEF InsertAt
<1> HIDE DEF a, b
<1> DEFINE c == a \o <<e>>
<1>5. c \in Seq(T) /\ Len(c) = i /\ \A j \in 1 .. i : c[j] = IF j < i THEN s[j] ELSE e
  BY <1>1, <1>2
<1> HIDE DEF c
<1>6. /\ c \o b \in Seq(T) /\ Len(c \o b) = Len(s) + 1
      /\ \A j \in 1 .. Len(s) + 1 : (c \o b)[j] = IF j <= i THEN c[j] ELSE b[j - i]
  <2>1. /\ c \o b \in Seq(T) /\ Len(c \o b) = Len(c) + Len(b)
        /\ \A j \in 1 .. Len(c) + Len(b) :
              (c \o b)[j] = IF j <= Len(c) THEN c[j] ELSE b[j - Len(c)]
    BY <1>3, <1>5, ConcatProperties
  <2>2. Len(c) = i /\ Len(c) + Len(b) = Len(s) + 1
    BY <1>1, <1>3, <1>5
  <2> QED BY <2>1, <2>2
<1>7. ASSUME NEW j \in 1 .. Len(s) + 1
      PROVE  (c \o b)[j] = IF j < i THEN s[j] ELSE IF j = i THEN e ELSE s[j - 1]
  <2>1. CASE j <= i
    BY <1>1, <1>5, <1>6, <2>1
  <2>2. CASE j > i
    <3>1. j - i \in 1 .. Len(s) - i + 1 /\ i + (j - i) - 1 = j - 1
      BY <1>1, <2>2
    <3>2. b[j - i] = s[j - 1]
      BY <1>3, <3>1
    <3>3. (c \o b)[j] = b[j - i]
      BY <1>1, <1>6, <2>2
    <3> QED BY <1>1, <2>2, <3>2, <3>3
  <2>3. j <= i \/ j > i
    BY <1>1
  <2> QED BY <2>1, <2>2, <2>3
<1> QED BY <1>4, <1>6, <1>7 DEF c

\* The least of some places.
LEMMA LeastPlace ==
    ASSUME NEW S \in SUBSET Nat, S # {}
    PROVE  Min(S) \in S /\ \A n \in S : Min(S) <= n
BY LeastNat DEF Min

\* The places of a manifest that a new unit leaves, and what is left.
Left(cus, cu) == {i \in 1 .. Len(cus) : ~Supersedes(cu, cus[i])}

\* R is what is left of cus, N is R with cu put in at place s.
Placed(T, cus, cu, R, s, N) ==
    /\ R \in Seq(T) /\ Keeps(cus, Left(cus, cu), Len(cus), R)
    /\ s \in 1 .. Len(R) + 1 /\ s <= Len(cus) + 1
    /\ \A i \in 1 .. s - 1 : ~Supersedes(cu, cus[i])
    /\ s = Len(cus) + 1 \/ (s \in 1 .. Len(cus) /\ Supersedes(cu, cus[s]))
    /\ N \in Seq(T) /\ Len(N) = Len(R) + 1
    /\ \A j \in 1 .. Len(R) + 1 : N[j] = IF j < s THEN R[j] ELSE IF j = s THEN cu ELSE R[j - 1]

\* A recorded unit stands where the first superseded one stood; everything else
\* keeps its order, and everything before it its place.
LEMMA RecordedEntries ==
    ASSUME NEW T, NEW cus \in Seq(T), NEW cu \in T
    PROVE  Placed(T, cus, cu, Retained(cus, cu), Slot(cus, cu), Recorded(cus, cu))
<1> DEFINE R == Retained(cus, cu)
           s == Slot(cus, cu)
           Hit == {i \in 1 .. Len(cus) : Supersedes(cu, cus[i])} \cup {Len(cus) + 1}
<1>1. R \in Seq(T) /\ Keeps(cus, Left(cus, cu), Len(cus), R)
  BY KeptKeeps DEF Retained, Left
<1>2. Len(cus) \in Nat /\ Hit \in SUBSET Nat /\ Hit # {}
  OBVIOUS
<1>3. s = Min(Hit)
  BY DEF Slot
<1>4. s \in Hit /\ \A n \in Hit : s <= n
  <2> HIDE DEF Hit, s
  <2> QED BY <1>2, <1>3, LeastPlace
<1>5. s \in 1 .. Len(cus) + 1
  BY <1>2, <1>4
<1>6. \A i \in 1 .. s - 1 : i \in 1 .. Len(cus) /\ ~Supersedes(cu, cus[i])
  <2> SUFFICES ASSUME NEW i \in 1 .. s - 1, Supersedes(cu, cus[i]) PROVE FALSE
    BY <1>2, <1>5
  <2>1. i \in Hit
    BY <1>2, <1>5
  <2> HIDE DEF s, Hit
  <2> QED BY <1>4, <1>5, <2>1
<1>7. s - 1 <= Len(R)
  <2>1. 1 .. s - 1 \subseteq Left(cus, cu)
    BY <1>6 DEF Left
  <2>2. s - 1 \in 0 .. Len(cus)
    BY <1>2, <1>5
  <2> HIDE DEF s, R
  <2> QED BY <1>1, <1>2, <2>1, <2>2, KeepsFirst
<1>8. s \in 1 .. Len(R) + 1
  <2>1. Len(R) \in Nat
    BY <1>1
  <2> HIDE DEF s, R
  <2> QED BY <1>2, <1>5, <1>7, <2>1
<1>9. Recorded(cus, cu) = InsertAt(R, s, cu)
  BY DEF Recorded
<1>10. \/ s = Len(cus) + 1
       \/ s \in 1 .. Len(cus) /\ Supersedes(cu, cus[s])
  <2> HIDE DEF s
  <2> QED BY <1>4
<1> HIDE DEF s, R
<1>11. /\ InsertAt(R, s, cu) \in Seq(T) /\ Len(InsertAt(R, s, cu)) = Len(R) + 1
       /\ \A j \in 1 .. Len(R) + 1 :
             InsertAt(R, s, cu)[j] = IF j < s THEN R[j] ELSE IF j = s THEN cu ELSE R[j - 1]
  BY <1>1, <1>8, Inserted
<1> QED BY <1>1, <1>2, <1>5, <1>6, <1>8, <1>9, <1>10, <1>11 DEF s, R, Placed

\* The units of a manifest have nothing in common.
AllApart(cus) == \A i, j \in 1 .. Len(cus) : i # j => Apart(cus[i], cus[j])

\* What a manifest lists after a unit is recorded.
LEMMA RecordedRange ==
    ASSUME NEW T, NEW cus \in Seq(T), NEW cu \in T
    PROVE  /\ Range(Recorded(cus, cu)) = Range(Retained(cus, cu)) \cup {cu}
           /\ Range(Retained(cus, cu)) = {old \in Range(cus) : ~Supersedes(cu, old)}
<1> DEFINE R == Retained(cus, cu)
           s == Slot(cus, cu)
           N == Recorded(cus, cu)
<1>1. /\ R \in Seq(T) /\ Keeps(cus, Left(cus, cu), Len(cus), R)
      /\ s \in 1 .. Len(R) + 1
      /\ N \in Seq(T) /\ Len(N) = Len(R) + 1
      /\ \A j \in 1 .. Len(R) + 1 : N[j] = IF j < s THEN R[j] ELSE IF j = s THEN cu ELSE R[j - 1]
  <2>1. Placed(T, cus, cu, R, s, N)
    BY RecordedEntries
  <2> HIDE DEF R, s, N
  <2> QED BY <2>1 DEF Placed
<1> HIDE DEF R, s, N
<1>2. /\ Range(R) = {R[k] : k \in 1 .. Len(R)} /\ Range(N) = {N[k] : k \in 1 .. Len(R) + 1}
      /\ Range(cus) = {cus[k] : k \in 1 .. Len(cus)} /\ Len(R) \in Nat
  BY <1>1, SeqRange
<1>3. Range(N) \subseteq Range(R) \cup {cu}
  <2> SUFFICES ASSUME NEW j \in 1 .. Len(R) + 1 PROVE N[j] \in Range(R) \cup {cu}
    BY <1>2
  <2>1. CASE j < s
    <3>1. N[j] = R[j] /\ j \in 1 .. Len(R)
      BY <1>1, <1>2, <2>1
    <3> QED BY <1>2, <3>1
  <2>2. CASE j = s
    BY <1>1, <2>2
  <2>3. CASE j > s
    <3>1. N[j] = R[j - 1] /\ j - 1 \in 1 .. Len(R)
      BY <1>1, <1>2, <2>3
    <3> QED BY <1>2, <3>1
  <2>4. j < s \/ j = s \/ j > s
    BY <1>1, <1>2
  <2> QED BY <2>1, <2>2, <2>3, <2>4
<1>4. cu \in Range(N)
  <2>1. s \in 1 .. Len(R) + 1 /\ N[s] = cu
    BY <1>1, <1>2
  <2> QED BY <1>2, <2>1
<1>5. Range(R) \subseteq Range(N)
  <2> SUFFICES ASSUME NEW k \in 1 .. Len(R) PROVE R[k] \in Range(N)
    BY <1>2
  <2>1. CASE k < s
    <3>1. k \in 1 .. Len(R) + 1 /\ N[k] = R[k]
      BY <1>1, <1>2, <2>1
    <3> QED BY <1>2, <3>1
  <2>2. CASE k >= s
    <3>1. k + 1 \in 1 .. Len(R) + 1 /\ ~(k + 1 < s) /\ k + 1 # s /\ (k + 1) - 1 = k
      BY <1>1, <1>2, <2>2
    <3>2. N[k + 1] = R[k]
      BY <1>1, <3>1
    <3> QED BY <1>2, <3>1, <3>2
  <2>3. k < s \/ k >= s
    BY <1>1, <1>2
  <2> QED BY <2>1, <2>2, <2>3
<1>6. PICK g \in [1 .. Len(R) -> Left(cus, cu) \cap (1 .. Len(cus))] :
            /\ \A k \in 1 .. Len(R) : R[k] = cus[g[k]]
            /\ \A i \in Left(cus, cu) \cap (1 .. Len(cus)) : \E k \in 1 .. Len(R) : g[k] = i
  BY <1>1 DEF Keeps
<1>7. Range(R) \subseteq {old \in Range(cus) : ~Supersedes(cu, old)}
  BY <1>2, <1>6 DEF Left
<1>8. {old \in Range(cus) : ~Supersedes(cu, old)} \subseteq Range(R)
  <2> SUFFICES ASSUME NEW i \in 1 .. Len(cus), ~Supersedes(cu, cus[i])
               PROVE  cus[i] \in Range(R)
    BY <1>2
  <2>1. PICK k \in 1 .. Len(R) : g[k] = i
    BY <1>6 DEF Left
  <2> QED BY <1>2, <1>6, <2>1
<1> QED BY <1>3, <1>4, <1>5, <1>7, <1>8 DEF R, N

\* Recording a unit that redefines nothing keeps the units apart.
LEMMA RecordedApart ==
    ASSUME NEW T, NEW cus \in Seq(T), NEW cu \in T, AllApart(cus), ~Redefines(cus, cu)
    PROVE  AllApart(Recorded(cus, cu))
<1> DEFINE R == Retained(cus, cu)
           s == Slot(cus, cu)
           N == Recorded(cus, cu)
<1>1. /\ R \in Seq(T) /\ Keeps(cus, Left(cus, cu), Len(cus), R)
      /\ s \in 1 .. Len(R) + 1
      /\ N \in Seq(T) /\ Len(N) = Len(R) + 1
      /\ \A j \in 1 .. Len(R) + 1 : N[j] = IF j < s THEN R[j] ELSE IF j = s THEN cu ELSE R[j - 1]
  <2>1. Placed(T, cus, cu, R, s, N)
    BY RecordedEntries
  <2> HIDE DEF R, s, N
  <2> QED BY <2>1 DEF Placed
<1>2. \A k \in 1 .. Len(R) : Units(R[k]) \cap Units(cu) = {}
  BY <1>1, SeqRange DEF Redefines
<1> HIDE DEF R, s, N
<1>3. PICK g \in [1 .. Len(R) -> Left(cus, cu) \cap (1 .. Len(cus))] :
            /\ \A k \in 1 .. Len(R) : R[k] = cus[g[k]]
            /\ \A j, k \in 1 .. Len(R) : j < k => g[j] < g[k]
  BY <1>1 DEF Keeps
<1>4. Len(R) \in Nat /\ s \in Nat
  BY <1>1
<1>5. \A k \in 1 .. Len(R) : g[k] \in 1 .. Len(cus) /\ ~Supersedes(cu, cus[g[k]])
  BY <1>3 DEF Left
<1>6. \A k \in 1 .. Len(R) : Apart(cu, R[k]) /\ Apart(R[k], cu)
  BY <1>2, <1>3, <1>5 DEF Apart, Supersedes
<1>7. \A j, k \in 1 .. Len(R) : j # k => Apart(R[j], R[k])
  <2> SUFFICES ASSUME NEW j \in 1 .. Len(R), NEW k \in 1 .. Len(R), j # k
               PROVE  Apart(R[j], R[k])
    OBVIOUS
  <2>1. j < k \/ k < j
    BY <1>4
  <2>2. g[j] # g[k]
    BY <1>3, <1>5, <2>1
  <2> QED BY <1>3, <1>5, <2>2 DEF AllApart
\* Where an entry of the new manifest was.
<1> DEFINE At(j) == IF j < s THEN j ELSE j - 1
<1>8. \A j \in 1 .. Len(R) + 1 : j # s => At(j) \in 1 .. Len(R) /\ N[j] = R[At(j)]
  BY <1>1, <1>4
<1>9. \A i, j \in 1 .. Len(R) + 1 : i # s /\ j # s /\ i # j => At(i) # At(j)
  BY <1>4
<1> HIDE DEF At
<1>10. N[s] = cu
  BY <1>1, <1>4
<1>11. ASSUME NEW i \in 1 .. Len(R) + 1, NEW j \in 1 .. Len(R) + 1, i # j
       PROVE  Apart(N[i], N[j])
  <2>1. CASE i = s
    BY <1>6, <1>8, <1>10, <1>11, <2>1
  <2>2. CASE j = s
    BY <1>6, <1>8, <1>10, <1>11, <2>2
  <2>3. CASE i # s /\ j # s
    BY <1>7, <1>8, <1>9, <1>11, <2>3
  <2> QED BY <2>1, <2>2, <2>3
<1> QED BY <1>1, <1>11 DEF AllApart, N

\* `Retained`, `Slot` and `Recorded` of a manifest, as `Placed` has them.
LEMMA PlacedTypes ==
    ASSUME NEW T, NEW cus \in Seq(T), NEW cu \in T, NEW R, NEW s, NEW N,
           Placed(T, cus, cu, R, s, N)
    PROVE  /\ Len(R) \in Nat /\ s \in Nat /\ s \in 1 .. Len(N)
           /\ Len(N) = Len(R) + 1 /\ Len(cus) \in Nat
           /\ N[s] = cu
           /\ \A k \in 1 .. Len(R) : k < s => k \in 1 .. Len(N) /\ N[k] = R[k]
           /\ \A k \in 1 .. Len(R) : s <= k => k + 1 \in 1 .. Len(N) /\ N[k + 1] = R[k]
<1>1. /\ R \in Seq(T) /\ s \in 1 .. Len(R) + 1 /\ Len(N) = Len(R) + 1
      /\ \A j \in 1 .. Len(R) + 1 : N[j] = IF j < s THEN R[j] ELSE IF j = s THEN cu ELSE R[j - 1]
  BY DEF Placed
<1>2. Len(R) \in Nat /\ s \in Nat /\ Len(cus) \in Nat
  BY <1>1
<1>3. N[s] = cu
  BY <1>1, <1>2
<1>4. ASSUME NEW k \in 1 .. Len(R), k < s PROVE k \in 1 .. Len(N) /\ N[k] = R[k]
  BY <1>1, <1>2, <1>4
<1>5. ASSUME NEW k \in 1 .. Len(R), s <= k PROVE k + 1 \in 1 .. Len(N) /\ N[k + 1] = R[k]
  <2>1. k + 1 \in 1 .. Len(R) + 1 /\ ~(k + 1 < s) /\ k + 1 # s /\ (k + 1) - 1 = k
    BY <1>2, <1>5
  <2> QED BY <1>1, <2>1
<1> QED BY <1>1, <1>2, <1>3, <1>4, <1>5

\* A new unit takes the place of the first unit it supersedes; without it, and
\* without those, the manifest is what it was.
LEMMA RecordedReplaces ==
    ASSUME NEW T, NEW cus \in Seq(T), NEW cu \in T, cu \notin Range(cus)
    PROVE  \E i \in DOMAIN Recorded(cus, cu) :
              LET new  == Recorded(cus, cu)
                  gone == {old \in Range(cus) : Supersedes(new[i], old)}
              IN  /\ Without(new, {new[i]}) = Without(cus, gone)
                  /\ new[i] \notin Range(cus)
                  /\ gone # {} => i <= Len(cus) /\ cus[i] \in gone
<1> DEFINE R == Retained(cus, cu)
           s == Slot(cus, cu)
           N == Recorded(cus, cu)
           gone == {old \in Range(cus) : Supersedes(cu, old)}
<1>1. Placed(T, cus, cu, R, s, N)
  BY RecordedEntries
<1>2. Range(R) \subseteq Range(cus)
  BY RecordedRange
<1>3. Without(cus, gone) = R
  <2>1. {i \in 1 .. Len(cus) : cus[i] \notin gone}
           = {i \in 1 .. Len(cus) : ~Supersedes(cu, cus[i])}
    BY SeqRange
  <2> QED BY <2>1 DEF Without, Retained
<1> HIDE DEF R, s, N
<1>4. /\ Len(R) \in Nat /\ s \in Nat /\ s \in 1 .. Len(N)
      /\ Len(N) = Len(R) + 1 /\ Len(cus) \in Nat /\ N[s] = cu
      /\ \A k \in 1 .. Len(R) : k < s => k \in 1 .. Len(N) /\ N[k] = R[k]
      /\ \A k \in 1 .. Len(R) : s <= k => k + 1 \in 1 .. Len(N) /\ N[k + 1] = R[k]
  BY <1>1, PlacedTypes
<1>5. R \in Seq(T) /\ N \in Seq(T)
  BY <1>1 DEF Placed
<1>6. \A k \in 1 .. Len(R) : R[k] # cu
  BY <1>2, <1>5, SeqRange
<1> DEFINE J == {j \in 1 .. Len(N) : N[j] \notin {cu}}
           At(k) == IF k < s THEN k ELSE k + 1
<1>7. \A k \in 1 .. Len(R) : At(k) \in J /\ At(k) \in 1 .. Len(N) /\ N[At(k)] = R[k]
  BY <1>4, <1>6
<1>8. \A j, k \in 1 .. Len(R) : j < k => At(j) < At(k)
  BY <1>4
<1>9. \A j \in J \cap (1 .. Len(N)) : \E k \in 1 .. Len(R) : At(k) = j
  <2> SUFFICES ASSUME NEW j \in 1 .. Len(N), N[j] # cu
               PROVE  \E k \in 1 .. Len(R) : At(k) = j
    OBVIOUS
  <2>1. CASE j < s
    BY <1>4, <2>1
  <2>2. CASE j > s
    <3>1. j - 1 \in 1 .. Len(R) /\ At(j - 1) = j
      BY <1>4, <2>2
    <3> QED BY <3>1
  <2> QED BY <1>4, <2>1, <2>2
<1> HIDE DEF At, J
<1>10. Keeps(N, J, Len(N), R)
  <2> DEFINE g == [k \in 1 .. Len(R) |-> At(k)]
  <2>1. \A k \in 1 .. Len(R) : g[k] = At(k)
    OBVIOUS
  <2>2. g \in [1 .. Len(R) -> J \cap (1 .. Len(N))]
    BY <1>7
  <2> HIDE DEF g
  <2>3. \A k \in 1 .. Len(R) : R[k] = N[g[k]]
    BY <1>7, <2>1
  <2>4. \A j, k \in 1 .. Len(R) : j < k => g[j] < g[k]
    BY <1>8, <2>1
  <2>5. \A j \in J \cap (1 .. Len(N)) : \E k \in 1 .. Len(R) : g[k] = j
    BY <1>9, <2>1
  <2> QED BY <2>2, <2>3, <2>4, <2>5 DEF Keeps
<1>11. Kept(N, J) \in Seq(T) /\ Keeps(N, J, Len(N), Kept(N, J))
  BY <1>5, KeptKeeps
<1>12. Kept(N, J) = R
  <2>1. Len(N) \in Nat
    BY <1>4
  <2> QED BY <1>5, <1>10, <1>11, <2>1, KeepsOnly
<1>13. Without(N, {cu}) = R
  BY <1>12 DEF Without, J
<1>14. gone # {} => s <= Len(cus) /\ cus[s] \in gone
  <2> SUFFICES ASSUME NEW i \in 1 .. Len(cus), Supersedes(cu, cus[i])
               PROVE  s <= Len(cus) /\ cus[s] \in gone
    BY SeqRange
  <2>1. s # Len(cus) + 1
    BY <1>1, <1>4 DEF Placed
  <2>2. s \in 1 .. Len(cus) /\ Supersedes(cu, cus[s])
    BY <1>1, <2>1 DEF Placed
  <2> QED BY <1>4, <2>2, SeqRange
<1>15. s \in DOMAIN N
  BY <1>4, <1>5, SeqRange
<1> QED BY <1>3, <1>4, <1>13, <1>14, <1>15 DEF N

\* Recording a unit that is recorded already changes nothing.
LEMMA RecordedSame ==
    ASSUME NEW T, NEW cus \in Seq(T), NEW cu \in T, cu \in Range(cus),
           AllApart(cus), DOMAIN cu.src # {}
    PROVE  Recorded(cus, cu) = cus
<1> DEFINE R == Retained(cus, cu)
           s == Slot(cus, cu)
           N == Recorded(cus, cu)
           n == Len(cus)
<1>1. Placed(T, cus, cu, R, s, N)
  BY RecordedEntries
<1> HIDE DEF R, s, N
<1>2. /\ Len(R) \in Nat /\ s \in Nat /\ s \in 1 .. Len(N)
      /\ Len(N) = Len(R) + 1 /\ n \in Nat /\ N[s] = cu
      /\ \A k \in 1 .. Len(R) : k < s => k \in 1 .. Len(N) /\ N[k] = R[k]
      /\ \A k \in 1 .. Len(R) : s <= k => k + 1 \in 1 .. Len(N) /\ N[k + 1] = R[k]
  BY <1>1, PlacedTypes
<1>3. PICK m \in 1 .. n : cus[m] = cu
  BY SeqRange
<1>4. \A i \in 1 .. n : Supersedes(cu, cus[i]) <=> i = m
  <2>1. Supersedes(cu, cu)
    BY DEF Supersedes
  <2>2. \A i \in 1 .. n : i # m => ~Supersedes(cu, cus[i])
    BY <1>3 DEF AllApart, Apart
  <2> QED BY <1>3, <2>1, <2>2
<1>5. s = m
  <2>1. s # n + 1
    BY <1>1, <1>2, <1>4 DEF Placed
  <2> QED BY <1>1, <1>4, <2>1 DEF Placed
<1> DEFINE Q == [k \in 1 .. n - 1 |-> IF k < m THEN cus[k] ELSE cus[k + 1]]
           g == [k \in 1 .. n - 1 |-> IF k < m THEN k ELSE k + 1]
<1>6. n - 1 \in Nat /\ m \in Nat
  BY <1>2
<1>7. Q \in Seq(T) /\ Len(Q) = n - 1
  <2>1. \A k \in 1 .. n - 1 : (k < m => k \in 1 .. n) /\ k + 1 \in 1 .. n
    BY <1>2
  <2>2. \A k \in 1 .. n - 1 : Q[k] \in T
    BY <2>1
  <2> QED BY <1>6, <2>2
<1>8. \A k \in 1 .. n - 1 : Q[k] = cus[g[k]]
  OBVIOUS
<1>9. Left(cus, cu) = (1 .. n) \ {m}
  BY <1>4 DEF Left
<1>10. \A k \in 1 .. n - 1 : g[k] \in (1 .. n) \ {m}
  BY <1>2
<1>11. \A j, k \in 1 .. n - 1 : j < k => g[j] < g[k]
  BY <1>2
<1>12. ASSUME NEW i \in (1 .. n) \ {m} PROVE \E k \in 1 .. n - 1 : g[k] = i
  <2>1. CASE i < m
    <3>1. i \in 1 .. n - 1 /\ g[i] = i
      BY <1>2, <2>1
    <3> QED BY <3>1
  <2>2. CASE i > m
    <3>1. i - 1 \in 1 .. n - 1 /\ g[i - 1] = i
      BY <1>2, <2>2
    <3> QED BY <3>1
  <2> QED BY <1>6, <2>1, <2>2
<1>13. g \in [1 .. n - 1 -> Left(cus, cu) \cap (1 .. n)]
  BY <1>9, <1>10
<1> HIDE DEF Q, g
<1>14. Keeps(cus, Left(cus, cu), n, Q)
  <2>1. /\ g \in [1 .. Len(Q) -> Left(cus, cu) \cap (1 .. n)]
        /\ \A k \in 1 .. Len(Q) : Q[k] = cus[g[k]]
        /\ \A j, k \in 1 .. Len(Q) : j < k => g[j] < g[k]
    BY <1>7, <1>8, <1>11, <1>13
  <2>2. \A i \in Left(cus, cu) \cap (1 .. n) : \E k \in 1 .. Len(Q) : g[k] = i
    BY <1>7, <1>9, <1>12
  <2> QED BY <2>1, <2>2 DEF Keeps
<1>15. R = Q
  BY <1>1, <1>2, <1>7, <1>14, KeepsOnly DEF Placed
<1>16. Len(N) = n
  BY <1>2, <1>6, <1>7, <1>15
<1>17. ASSUME NEW j \in 1 .. n PROVE N[j] = cus[j]
  <2>1. CASE j < m
    <3>1. j \in 1 .. n - 1 /\ Q[j] = cus[j]
      BY <1>2, <2>1 DEF Q
    <3>2. N[j] = R[j]
      BY <1>2, <1>5, <1>7, <1>15, <2>1, <3>1
    <3> QED BY <1>15, <3>1, <3>2
  <2>2. CASE j = m
    BY <1>2, <1>3, <1>5, <2>2
  <2>3. CASE j > m
    <3>1. j - 1 \in 1 .. n - 1 /\ ~(j - 1 < m) /\ (j - 1) + 1 = j /\ m <= j - 1
      BY <1>2, <2>3
    <3>2. Q[j - 1] = cus[j]
      BY <3>1 DEF Q
    <3>3. N[j] = R[j - 1]
      BY <1>2, <1>5, <1>7, <1>15, <3>1
    <3> QED BY <1>15, <3>2, <3>3
  <2>4. j < m \/ j = m \/ j > m
    BY <1>2
  <2> QED BY <2>1, <2>2, <2>3, <2>4
<1>18. N \in Seq(T)
  BY <1>1 DEF Placed
<1> QED BY <1>16, <1>17, <1>18 DEF N

-----------------------------------------------------------------------------
(* The library's invariant.                                                *)

\* What a vcmp process holds while it reads, and once it is in add_cu.
Reading == [pc : {"read"}, job : Requests, src : Compiled, inc : Compiled]
Writing == [pc : {"blob", "commit", "list", "sweep"}, job : Requests, cu : Unit,
            new : Library, victims : SUBSET Unit]

LibTypes ==
    /\ text \in [Paths -> Contents] /\ \A f \in Paths : text[f] \in Texts[f]
    /\ manifest \in [Dirs -> Library \cup {None}]
    /\ blobs \in [Dirs -> SUBSET Unit]
    /\ vcmp \in [Vcmps -> {Idle} \cup Reading \cup Writing]
    /\ overlapped \in [Dirs -> BOOLEAN]

\* What a vcmp is about to write is of its command line, and consistent.
Jobs ==
    \A p \in Vcmps : InLibrary(p) =>
        /\ DOMAIN vcmp[p].cu.src = vcmp[p].job.sources
        /\ vcmp[p].job.name = vcmp[p].new.name
        /\ ConsistentIn(vcmp[p].job.dir, vcmp[p].new)

\* The manifest a vcmp makes of what is on disk.
Base(d, name) == IF manifest[d] = None THEN [name |-> name, cus |-> <<>>] ELSE manifest[d]
Updated(d, name, cu) == [Base(d, name) EXCEPT !.cus = Recorded(@, cu)]

\* A vcmp that nobody overlapped is alone in its directory, and what it knows of
\* the directory is true.
Undisturbed(p) ==
    LET v == vcmp[p]
        d == vcmp[p].job.dir
    IN  /\ \A q \in Vcmps : InLibrary(q) /\ vcmp[q].job.dir = d => q = p
        /\ v.pc \in {"blob", "commit"} => v.new = Updated(d, v.job.name, v.cu)
        /\ v.pc = "commit" => v.cu \in blobs[d]
        /\ v.pc \in {"list", "sweep"} => manifest[d] = v.new
        /\ v.pc = "sweep" => v.victims = Victims(p) /\ v.victims # {}

Steady == \A p \in Vcmps : InLibrary(p) /\ ~overlapped[vcmp[p].job.dir] => Undisturbed(p)

LInv == LibTypes /\ ManifestConsistent /\ Jobs /\ Steady /\ BlobsPresent

-----------------------------------------------------------------------------
(* Types.                                                                  *)

\* What a process holds in each of its phases.
LEMMA Phases ==
    ASSUME LibTypes, NEW p \in Vcmps
    PROVE  /\ vcmp[p].pc = "read" => vcmp[p] \in Reading
           /\ InLibrary(p) => vcmp[p] \in Writing /\ vcmp[p].job.dir \in Dirs
           /\ vcmp[p] \in Reading => ~InLibrary(p)
           /\ vcmp[p] = Idle => vcmp[p].pc = "idle" /\ ~InLibrary(p)
<1>1. vcmp[p] \in {Idle} \cup Reading \cup Writing
  BY DEF LibTypes
<1> QED BY <1>1, WorkLibAssumption DEF Idle, Reading, Writing, InLibrary

\* One more file read is one of the contents it may have.
LEMMA ReadMore ==
    ASSUME LibTypes, NEW t \in Compiled, NEW f \in Paths
    PROVE  /\ Put(t, f, text[f]) \in Compiled
           /\ DOMAIN Put(t, f, text[f]) = {f} \cup DOMAIN t
<1> DEFINE u == Put(t, f, text[f])
           S == {f} \cup DOMAIN t
<1>1. u = [x \in S |-> IF x = f THEN text[f] ELSE t[x]]
  BY DEF Put
<1>2. S \in SUBSET Paths /\ \A x \in DOMAIN t : t[x] \in Texts[x] /\ t[x] \in Contents
  BY DEF Compiled
<1>3. text[f] \in Texts[f] /\ text[f] \in Contents
  BY DEF LibTypes
<1>4. u \in [S -> Contents] /\ \A x \in DOMAIN u : u[x] \in Texts[x]
  BY <1>1, <1>2, <1>3
<1> QED BY <1>1, <1>2, <1>4 DEF Compiled

\* The manifest a vcmp computes.
LEMMA UpdatedTypes ==
    ASSUME LibTypes, NEW d \in Dirs, NEW r \in Requests, NEW cu \in Unit
    PROVE  /\ Base(d, r.name) \in Library
           /\ Updated(d, r.name, cu) \in Library
           /\ Updated(d, r.name, cu).name = Base(d, r.name).name
           /\ Updated(d, r.name, cu).cus = Recorded(Base(d, r.name).cus, cu)
<1>1. Base(d, r.name) \in Library
  BY DEF Base, LibTypes, Library
<1>2. Recorded(Base(d, r.name).cus, cu) \in Seq(Unit)
  BY <1>1, RecordedEntries DEF Library, Placed
<1> QED BY <1>1, <1>2 DEF Updated, Library

\* Reading files keeps the types.
LEMMA ReadingTypes ==
    ASSUME LibTypes, NEW p \in Vcmps,
           \/ \E r \in Requests : Start(p, r)
           \/ \E f \in Paths : ReadSource(p, f) \/ ReadInclude(p, f)
    PROVE  /\ LibTypes' /\ UNCHANGED <<text, manifest, blobs, overlapped>>
           /\ vcmp' = [vcmp EXCEPT ![p] = vcmp'[p]] /\ vcmp'[p] \in Reading
           /\ ~InLibrary(p)
<1>1. CASE \E r \in Requests : Start(p, r)
  <2>1. PICK r \in Requests : Start(p, r)
    BY <1>1
  <2> DEFINE new == [pc |-> "read", job |-> r, src |-> <<>>, inc |-> <<>>]
  <2>2. <<>> \in Compiled
    <3>1. DOMAIN <<>> = {} /\ <<>> = [x \in {} |-> 0]
      OBVIOUS
    <3>2. <<>> \in [{} -> Contents]
      BY <3>1
    <3> QED BY <3>1, <3>2 DEF Compiled
  <2>3. new \in Reading
    BY <2>2 DEF Reading
  <2>4. vcmp' = [vcmp EXCEPT ![p] = new] /\ vcmp[p] = Idle
    BY <2>1 DEF Start
  <2> HIDE DEF new
  <2>5. vcmp' = [vcmp EXCEPT ![p] = vcmp'[p]] /\ vcmp'[p] \in Reading
    BY <2>3, <2>4 DEF LibTypes
  <2> QED BY <2>1, <2>4, <2>5, Phases DEF Start, files, lib, LibTypes
<1>2. CASE \E f \in Paths : ReadSource(p, f)
  <2>1. PICK f \in Paths : ReadSource(p, f)
    BY <1>2
  <2>2. vcmp[p] \in Reading
    BY <2>1, Phases DEF ReadSource
  <2> DEFINE new == [vcmp[p] EXCEPT !.src = Put(@, f, text[f])]
  <2>3. new \in Reading
    BY <2>2, ReadMore DEF Reading
  <2>4. vcmp' = [vcmp EXCEPT ![p] = new]
    BY <2>1 DEF ReadSource
  <2> HIDE DEF new
  <2>5. vcmp' = [vcmp EXCEPT ![p] = vcmp'[p]] /\ vcmp'[p] \in Reading
    BY <2>3, <2>4 DEF LibTypes
  <2> QED BY <2>1, <2>2, <2>4, <2>5, Phases DEF ReadSource, files, lib, LibTypes
<1>3. CASE \E f \in Paths : ReadInclude(p, f)
  <2>1. PICK f \in Paths : ReadInclude(p, f)
    BY <1>3
  <2>2. vcmp[p] \in Reading
    BY <2>1, Phases DEF ReadInclude
  <2> DEFINE new == [vcmp[p] EXCEPT !.inc = Put(@, f, text[f])]
  <2>3. new \in Reading
    BY <2>2, ReadMore DEF Reading
  <2>4. vcmp' = [vcmp EXCEPT ![p] = new]
    BY <2>1 DEF ReadInclude
  <2> HIDE DEF new
  <2>5. vcmp' = [vcmp EXCEPT ![p] = vcmp'[p]] /\ vcmp'[p] \in Reading
    BY <2>3, <2>4 DEF LibTypes
  <2> QED BY <2>1, <2>2, <2>4, <2>5, Phases DEF ReadInclude, files, lib, LibTypes
<1> QED BY <1>1, <1>2, <1>3

-----------------------------------------------------------------------------
(* Each step keeps the library's invariant.                                *)

\* A step that leaves the libraries, and every process that goes on in one, alone.
LEMMA LibraryAlone ==
    ASSUME LInv, LibTypes', UNCHANGED <<manifest, blobs, overlapped>>,
           \A p \in Vcmps : InLibrary(p)' => InLibrary(p) /\ vcmp'[p] = vcmp[p]
    PROVE  LInv'
<1>1. ManifestConsistent' /\ BlobsPresent'
  <2>1. /\ manifest' = manifest /\ blobs' = blobs /\ overlapped' = overlapped
        /\ ManifestConsistent /\ BlobsPresent
    BY DEF LInv
  <2>2. ManifestConsistent'
    BY <2>1 DEF ManifestConsistent
  <2>3. BlobsPresent'
    BY <2>1 DEF BlobsPresent
  <2> QED BY <2>2, <2>3
<1>2. Jobs'
  BY DEF LInv, Jobs
<1>3. Steady'
  <2> SUFFICES ASSUME NEW p \in Vcmps, InLibrary(p)', ~overlapped'[vcmp'[p].job.dir]
               PROVE  Undisturbed(p)'
    BY DEF Steady
  <2>1. InLibrary(p) /\ vcmp'[p] = vcmp[p] /\ Undisturbed(p)
    BY DEF LInv, Steady
  <2>2. \A q \in Vcmps : InLibrary(q)' /\ vcmp'[q].job.dir = vcmp'[p].job.dir => q = p
    BY <2>1 DEF Undisturbed
  <2>3. Victims(p)' = Victims(p)
    BY <2>1 DEF Victims
  <2>4. Updated(vcmp[p].job.dir, vcmp[p].job.name, vcmp[p].cu)'
           = Updated(vcmp[p].job.dir, vcmp[p].job.name, vcmp[p].cu)
    BY <2>1 DEF Updated, Base
  <2> QED BY <2>1, <2>2, <2>3, <2>4 DEF Undisturbed
<1> QED BY <1>1, <1>2, <1>3 DEF LInv

\* Edits, reads of files, velab, an interrupted vcmp and one that has nothing to
\* remove leave the libraries alone.
LEMMA QuietSteps ==
    ASSUME LInv,
           \/ \E f \in Paths : Edit(f)
           \/ \E p \in Vcmps : \/ \E r \in Requests : Start(p, r)
                               \/ \E f \in Paths : ReadSource(p, f) \/ ReadInclude(p, f)
                               \/ Stop(p)
           \/ Velab \/ UNCHANGED vars
    PROVE  LInv' /\ UNCHANGED <<manifest, blobs, overlapped>>
<1>1. CASE \E f \in Paths : Edit(f)
  <2>1. PICK f \in Paths : Edit(f)
    BY <1>1
  <2>2. PICK c \in Texts[f] : text' = [text EXCEPT ![f] = c]
    BY <2>1 DEF Edit
  <2>3. c \in Contents
    BY WorkLibAssumption
  <2>4. /\ UNCHANGED <<manifest, blobs, vcmp, overlapped>>
        /\ text' \in [Paths -> Contents] /\ \A g \in Paths : text'[g] \in Texts[g]
    BY <2>1, <2>2, <2>3 DEF Edit, LInv, LibTypes
  <2>5. LibTypes'
    BY <2>4 DEF LInv, LibTypes
  <2> QED BY <2>4, <2>5, LibraryAlone DEF InLibrary
<1>2. ASSUME NEW p \in Vcmps,
             \/ \E r \in Requests : Start(p, r)
             \/ \E f \in Paths : ReadSource(p, f) \/ ReadInclude(p, f)
      PROVE  LInv' /\ UNCHANGED <<manifest, blobs, overlapped>>
  <2>1. LibTypes
    BY DEF LInv
  <2>2. /\ LibTypes' /\ UNCHANGED <<text, manifest, blobs, overlapped>>
        /\ vcmp' = [vcmp EXCEPT ![p] = vcmp'[p]] /\ vcmp'[p] \in Reading
    BY <1>2, <2>1, ReadingTypes
  <2>3. ~InLibrary(p)'
    BY <2>2 DEF Reading, InLibrary
  <2>4. \A q \in Vcmps \ {p} : vcmp'[q] = vcmp[q]
    BY <2>1, <2>2 DEF LibTypes
  <2>5. \A q \in Vcmps : InLibrary(q)' => InLibrary(q) /\ vcmp'[q] = vcmp[q]
    BY <2>3, <2>4 DEF InLibrary
  <2> QED BY <2>2, <2>5, LibraryAlone
<1>3. ASSUME NEW p \in Vcmps, Stop(p)
      PROVE  LInv' /\ UNCHANGED <<manifest, blobs, overlapped>>
  <2>1. LibTypes
    BY DEF LInv
  <2>2. vcmp' = [vcmp EXCEPT ![p] = Idle] /\ UNCHANGED <<text, manifest, blobs, overlapped>>
    BY <1>3 DEF Stop, files, lib
  <2>3. LibTypes'
    BY <2>1, <2>2 DEF LibTypes
  <2>4. \A q \in Vcmps : InLibrary(q)' => InLibrary(q) /\ vcmp'[q] = vcmp[q]
    BY <2>1, <2>2 DEF LibTypes, InLibrary, Idle
  <2> QED BY <2>2, <2>3, <2>4, LibraryAlone
<1>4. CASE Velab \/ UNCHANGED vars
  <2>1. UNCHANGED <<text, manifest, blobs, overlapped, vcmp>>
    BY <1>4 DEF Velab, LoadManifest, ResolveTops, LoadUnit, Elaborate, Rehash, Stat,
                WriteSnapshot, vars, files, lib
  <2>2. LibTypes'
    BY <2>1 DEF LInv, LibTypes
  <2> QED BY <2>1, <2>2, LibraryAlone DEF InLibrary
<1> QED BY <1>1, <1>2, <1>3, <1>4

\* What a manifest lists is what its sequence holds.
LEMMA Listed ==
    ASSUME LibTypes, NEW d \in Dirs, NEW name
    PROVE  /\ Range(Base(d, name).cus) = CUs(manifest[d])
           /\ \A m : CUs(m) \subseteq Range(m.cus)
<1>1. CASE manifest[d] = None
  <2>1. Range(<<>>) = {}
    BY DEF Range
  <2> QED BY <1>1, <2>1 DEF Base, CUs
<1>2. CASE manifest[d] # None
  BY <1>2 DEF Base, CUs
<1>3. \A m : CUs(m) \subseteq Range(m.cus)
  BY DEF CUs
<1> QED BY <1>1, <1>2, <1>3

\* The manifest a vcmp computes is consistent if the one it read is.
LEMMA UpdatedConsistent ==
    ASSUME LibTypes, ManifestConsistent, NEW r \in Requests, NEW cu \in Unit,
           DOMAIN cu.src = r.sources,
           ~OtherLibrary(manifest[r.dir], r.name),
           ~Redefines(Base(r.dir, r.name).cus, cu)
    PROVE  /\ Updated(r.dir, r.name, cu).name = r.name
           /\ ConsistentIn(r.dir, Updated(r.dir, r.name, cu))
<1> DEFINE base == Base(r.dir, r.name)
           new == Updated(r.dir, r.name, cu)
<1>1. r.dir \in Dirs
  BY WorkLibAssumption
<1>2. /\ base \in Library /\ new \in Library
      /\ new.name = base.name /\ new.cus = Recorded(base.cus, cu)
  BY <1>1, UpdatedTypes
<1>3. base.name = r.name
  BY DEF Base, OtherLibrary
<1>4. ConsistentIn(r.dir, base)
  <2>1. CASE manifest[r.dir] = None
    <3>1. base.cus = <<>>
      BY <2>1 DEF Base
    <3>2. Range(base.cus) = {} /\ Len(base.cus) = 0
      BY <3>1 DEF Range
    <3> QED BY <3>2 DEF ConsistentIn
  <2>2. CASE manifest[r.dir] # None
    BY <1>1, <2>2 DEF Base, ManifestConsistent
  <2> QED BY <2>1, <2>2
<1>5. base.cus \in Seq(Unit)
  BY <1>2 DEF Library
<1> HIDE DEF base, new
<1>6. AllApart(base.cus) /\ ~Redefines(base.cus, cu)
  BY <1>4 DEF ConsistentIn, AllApart, base
<1>7. AllApart(new.cus)
  BY <1>2, <1>5, <1>6, RecordedApart
<1>8. Range(new.cus) \subseteq Range(base.cus) \cup {cu}
  BY <1>2, <1>5, RecordedRange
<1>9. ASSUME NEW x \in Range(new.cus)
      PROVE  \E q \in Requests : q.dir = r.dir /\ q.name = new.name /\ q.sources = DOMAIN x.src
  <2>1. CASE x = cu
    BY <1>2, <1>3, <2>1
  <2>2. CASE x \in Range(base.cus)
    BY <1>2, <1>4, <2>2 DEF ConsistentIn
  <2> QED BY <1>8, <2>1, <2>2
<1> QED BY <1>2, <1>3, <1>7, <1>9 DEF ConsistentIn, AllApart, new

\* What one process's step leaves of the others.
LEMMA OthersUndisturbed ==
    ASSUME LInv, NEW p \in Vcmps, NEW q \in Vcmps, q # p, InLibrary(q), vcmp'[q] = vcmp[q],
           ~overlapped[vcmp[q].job.dir],
           manifest'[vcmp[q].job.dir] = manifest[vcmp[q].job.dir],
           blobs'[vcmp[q].job.dir] = blobs[vcmp[q].job.dir],
           \A o \in Vcmps \ {p} : vcmp'[o] = vcmp[o],
           InLibrary(p)' => vcmp'[p].job.dir # vcmp[q].job.dir
    PROVE  Undisturbed(q)'
<1>1. Undisturbed(q)
  BY DEF LInv, Steady
<1>2. \A o \in Vcmps : InLibrary(o)' /\ vcmp'[o].job.dir = vcmp[q].job.dir => o = q
  <2> SUFFICES ASSUME NEW o \in Vcmps, InLibrary(o)', vcmp'[o].job.dir = vcmp[q].job.dir
               PROVE  o = q
    OBVIOUS
  <2>1. o # p
    OBVIOUS
  <2>2. vcmp'[o] = vcmp[o] /\ InLibrary(o)
    BY <2>1 DEF InLibrary
  <2> QED BY <1>1, <2>2 DEF Undisturbed
<1>3. Victims(q)' = Victims(q)
  BY DEF Victims
<1>4. Updated(vcmp[q].job.dir, vcmp[q].job.name, vcmp[q].cu)'
         = Updated(vcmp[q].job.dir, vcmp[q].job.name, vcmp[q].cu)
  BY DEF Updated, Base
<1> QED BY <1>1, <1>2, <1>3, <1>4 DEF Undisturbed

\* A vcmp enters add_cu with a consistent manifest, made of what is on disk; it is
\* alone there, or the directory counts as overlapped from now on.
LEMMA ReadLibraryStep ==
    ASSUME LInv, NEW p \in Vcmps, ReadLibrary(p)
    PROVE  LInv' /\ UNCHANGED <<manifest, blobs>> /\ ~InLibrary(p)
<1> DEFINE job == vcmp[p].job
           d   == job.dir
           cu  == [src |-> vcmp[p].src, inc |-> vcmp[p].inc]
<1>1. vcmp[p] \in Reading /\ ~InLibrary(p) /\ LibTypes
  BY Phases DEF LInv, ReadLibrary
<1>2. job \in Requests /\ d \in Dirs /\ job.sources # {}
  BY <1>1, WorkLibAssumption DEF Reading
<1>3. cu \in Unit /\ DOMAIN cu.src = job.sources
  BY <1>1, <1>2 DEF Reading, Unit, ReadLibrary
<1>4. UNCHANGED <<text, manifest, blobs>>
  BY DEF ReadLibrary, files
<1>5. CASE OtherLibrary(manifest[d], job.name) \/ Redefines(Base(d, job.name).cus, cu)
  <2>1. vcmp' = [vcmp EXCEPT ![p] = Idle] /\ UNCHANGED overlapped
    BY <1>5 DEF ReadLibrary, Base
  <2>2. LibTypes'
    BY <1>1, <1>4, <2>1 DEF LibTypes
  <2>3. \A q \in Vcmps : InLibrary(q)' => InLibrary(q) /\ vcmp'[q] = vcmp[q]
    BY <1>1, <2>1 DEF LibTypes, InLibrary, Idle
  <2> QED BY <1>1, <1>4, <2>1, <2>2, <2>3, LibraryAlone
<1>6. CASE ~OtherLibrary(manifest[d], job.name) /\ ~Redefines(Base(d, job.name).cus, cu)
  <2> DEFINE new == [pc |-> "blob", job |-> job, cu |-> cu,
                     new |-> Updated(d, job.name, cu), victims |-> {}]
  <2>1. /\ vcmp' = [vcmp EXCEPT ![p] = new]
        /\ overlapped' = [overlapped EXCEPT ![d] =
              @ \/ \E q \in Vcmps \ {p} : InLibrary(q) /\ vcmp[q].job.dir = d]
    BY <1>6 DEF ReadLibrary, Base, Updated
  <2>2. Updated(d, job.name, cu) \in Library
    BY <1>1, <1>2, <1>3, UpdatedTypes
  <2>3. new \in Writing
    BY <1>2, <1>3, <2>2 DEF Writing
  <2>4. /\ Updated(d, job.name, cu).name = job.name
        /\ ConsistentIn(d, Updated(d, job.name, cu))
    BY <1>1, <1>2, <1>3, <1>6, UpdatedConsistent DEF LInv
  <2>5. /\ vcmp'[p] = new
        /\ \A q \in Vcmps \ {p} : vcmp'[q] = vcmp[q]
    BY <1>1, <2>1 DEF LibTypes
  <2>6. /\ overlapped'[d] = (overlapped[d] \/ \E q \in Vcmps \ {p} : InLibrary(q) /\ vcmp[q].job.dir = d)
        /\ \A e \in Dirs \ {d} : overlapped'[e] = overlapped[e]
    BY <1>1, <1>2, <2>1 DEF LibTypes
  <2>7. LibTypes'
    <3>1. vcmp' \in [Vcmps -> {Idle} \cup Reading \cup Writing]
      BY <1>1, <2>1, <2>3 DEF LibTypes
    <3>2. overlapped' \in [Dirs -> BOOLEAN]
      BY <1>1, <2>1 DEF LibTypes
    <3> QED BY <1>1, <1>4, <3>1, <3>2 DEF LibTypes
  <2>8. \A q \in Vcmps \ {p} : InLibrary(q)' <=> InLibrary(q)
    BY <2>5 DEF InLibrary
  <2>9. ManifestConsistent'
    BY <1>4 DEF LInv, ManifestConsistent
  <2>10. BlobsPresent'
    <3> SUFFICES ASSUME NEW e \in Dirs, ~overlapped'[e]
                 PROVE  CUs(manifest[e]) \subseteq blobs[e]
      BY <1>4 DEF BlobsPresent
    <3>1. ~overlapped[e]
      BY <2>6
    <3> QED BY <3>1 DEF LInv, BlobsPresent
  <2>11. Jobs'
    <3> SUFFICES ASSUME NEW q \in Vcmps, InLibrary(q)'
                 PROVE  /\ DOMAIN vcmp'[q].cu.src = vcmp'[q].job.sources
                        /\ vcmp'[q].job.name = vcmp'[q].new.name
                        /\ ConsistentIn(vcmp'[q].job.dir, vcmp'[q].new)
      BY DEF Jobs
    <3>1. CASE q = p
      BY <1>3, <2>4, <2>5, <3>1
    <3>2. CASE q # p
      BY <2>5, <2>8, <3>2 DEF LInv, Jobs
    <3> QED BY <3>1, <3>2
  <2>12. Steady'
    <3> SUFFICES ASSUME NEW q \in Vcmps, InLibrary(q)', ~overlapped'[vcmp'[q].job.dir]
                 PROVE  Undisturbed(q)'
      BY DEF Steady
    <3>1. CASE q = p
      <4>0. vcmp'[p].job.dir = d
        BY <2>5
      <4>1. \A o \in Vcmps \ {p} : InLibrary(o) => vcmp[o].job.dir # d
        <5> HIDE DEF d, job, new, cu
        <5> QED BY <2>6, <3>1, <4>0
      <4>2. \A o \in Vcmps : InLibrary(o)' /\ vcmp'[o].job.dir = d => o = p
        BY <2>5, <2>8, <4>1
      <4>3. /\ vcmp'[p].pc = "blob" /\ vcmp'[p].job = job /\ vcmp'[p].cu = cu
            /\ vcmp'[p].new = Updated(d, job.name, cu)
        BY <2>5
      <4>4. Updated(vcmp[p].job.dir, vcmp[p].job.name, vcmp[p].cu)'
               = Updated(d, job.name, cu)
        <5> HIDE DEF job, d, cu
        <5> QED BY <1>4, <4>3 DEF Updated, Base, d
      <4> QED BY <3>1, <4>2, <4>3, <4>4 DEF Undisturbed
    <3>2. CASE q # p
      <4>1. InLibrary(q) /\ vcmp'[q] = vcmp[q] /\ vcmp[q].job.dir \in Dirs
        BY <1>1, <2>5, <2>8, <3>2, Phases
      <4>2. ~overlapped[vcmp[q].job.dir] /\ vcmp[q].job.dir # d
        BY <2>6, <3>2, <4>1
      <4>3. vcmp'[p].job.dir # vcmp[q].job.dir
        BY <2>5, <4>2
      <4> QED BY <1>4, <2>5, <3>2, <4>1, <4>2, <4>3, OthersUndisturbed
    <3> QED BY <3>1, <3>2
  <2> QED BY <1>1, <1>4, <2>7, <2>9, <2>10, <2>11, <2>12 DEF LInv
<1> QED BY <1>5, <1>6

\* A step of a process that is in add_cu: it goes on with what it holds or ends, it
\* writes in no directory but its own, and there only the manifest it computed.
LEMMA LibraryStep ==
    ASSUME LInv, NEW p \in Vcmps, InLibrary(p), LibTypes', UNCHANGED overlapped,
           \A q \in Vcmps \ {p} : vcmp'[q] = vcmp[q],
           \A e \in Dirs \ {vcmp[p].job.dir} : manifest'[e] = manifest[e] /\ blobs'[e] = blobs[e],
           manifest'[vcmp[p].job.dir] \in {manifest[vcmp[p].job.dir], vcmp[p].new},
           InLibrary(p)' => /\ vcmp'[p].job = vcmp[p].job /\ vcmp'[p].cu = vcmp[p].cu
                            /\ vcmp'[p].new = vcmp[p].new,
           ~overlapped[vcmp[p].job.dir] =>
               /\ CUs(manifest'[vcmp[p].job.dir]) \subseteq blobs'[vcmp[p].job.dir]
               /\ InLibrary(p)' => Undisturbed(p)'
    PROVE  LInv'
<1> DEFINE d == vcmp[p].job.dir
<1>1. d \in Dirs /\ LibTypes
  BY Phases DEF LInv
<1>2. ManifestConsistent'
  <2> SUFFICES ASSUME NEW e \in Dirs, manifest'[e] # None PROVE ConsistentIn(e, manifest'[e])
    BY DEF ManifestConsistent
  <2>1. CASE manifest'[e] = manifest[e]
    BY <2>1 DEF LInv, ManifestConsistent
  <2>2. CASE e = d /\ manifest'[e] = vcmp[p].new
    BY <2>2 DEF LInv, Jobs
  <2> QED BY <2>1, <2>2
<1>3. BlobsPresent'
  <2> SUFFICES ASSUME NEW e \in Dirs, ~overlapped[e] PROVE CUs(manifest'[e]) \subseteq blobs'[e]
    BY DEF BlobsPresent
  <2>1. CASE e = d
    BY <2>1
  <2>2. CASE e # d
    <3>1. manifest'[e] = manifest[e] /\ blobs'[e] = blobs[e]
      BY <2>2
    <3>2. CUs(manifest[e]) \subseteq blobs[e]
      BY DEF LInv, BlobsPresent
    <3> QED BY <3>1, <3>2
  <2> QED BY <2>1, <2>2
<1>4. \A q \in Vcmps \ {p} : InLibrary(q)' <=> InLibrary(q)
  BY DEF InLibrary
<1>5. Jobs'
  <2> SUFFICES ASSUME NEW q \in Vcmps, InLibrary(q)'
               PROVE  /\ DOMAIN vcmp'[q].cu.src = vcmp'[q].job.sources
                      /\ vcmp'[q].job.name = vcmp'[q].new.name
                      /\ ConsistentIn(vcmp'[q].job.dir, vcmp'[q].new)
    BY DEF Jobs
  <2>1. CASE q = p
    BY <2>1 DEF LInv, Jobs
  <2>2. CASE q # p
    BY <1>4, <2>2 DEF LInv, Jobs
  <2> QED BY <2>1, <2>2
<1>6. Steady'
  <2> SUFFICES ASSUME NEW q \in Vcmps, InLibrary(q)', ~overlapped'[vcmp'[q].job.dir]
               PROVE  Undisturbed(q)'
    BY DEF Steady
  <2>1. CASE q = p
    BY <2>1
  <2>2. CASE q # p
    <3>1. InLibrary(q) /\ vcmp'[q] = vcmp[q] /\ ~overlapped[vcmp[q].job.dir]
      BY <1>4, <2>2
    <3>2. Undisturbed(q)
      BY <3>1 DEF LInv, Steady
    <3>3. vcmp[q].job.dir # d
      BY <2>2, <3>2 DEF Undisturbed
    <3>4. vcmp[q].job.dir \in Dirs
      BY <1>1, <3>1, Phases
    <3>5. /\ manifest'[vcmp[q].job.dir] = manifest[vcmp[q].job.dir]
          /\ blobs'[vcmp[q].job.dir] = blobs[vcmp[q].job.dir]
      BY <3>3, <3>4
    <3>6. InLibrary(p)' => vcmp'[p].job.dir # vcmp[q].job.dir
      BY <3>3
    <3> QED BY <2>2, <3>1, <3>5, <3>6, OthersUndisturbed
  <2> QED BY <2>1, <2>2
<1> QED BY <1>2, <1>3, <1>5, <1>6 DEF LInv

\* In a directory of its own, add_cu leaves a blob for every unit of its manifest.
LEMMA BlobsForNew ==
    ASSUME LInv, NEW p \in Vcmps, InLibrary(p), ~overlapped[vcmp[p].job.dir],
           vcmp[p].pc = "commit"
    PROVE  CUs(vcmp[p].new) \subseteq blobs[vcmp[p].job.dir]
<1> DEFINE d == vcmp[p].job.dir
           cu == vcmp[p].cu
           base == Base(d, vcmp[p].job.name)
<1>1. LibTypes /\ Undisturbed(p)
  BY DEF LInv, Steady
<1>2. /\ vcmp[p].job \in Requests /\ d \in Dirs /\ cu \in Unit
      /\ vcmp[p].new = Updated(d, vcmp[p].job.name, cu) /\ cu \in blobs[d]
  BY <1>1, Phases DEF Writing, Undisturbed
<1>3. base \in Library /\ vcmp[p].new.cus = Recorded(base.cus, cu)
  BY <1>1, <1>2, UpdatedTypes
<1>4. base.cus \in Seq(Unit)
  BY <1>3 DEF Library
<1>5. Range(base.cus) = CUs(manifest[d])
  BY <1>1, <1>2, Listed
<1>6. CUs(manifest[d]) \subseteq blobs[d]
  BY <1>2 DEF LInv, BlobsPresent
<1> HIDE DEF d, cu, base
<1>7. Range(Recorded(base.cus, cu)) \subseteq Range(base.cus) \cup {cu}
  BY <1>2, <1>4, RecordedRange
<1>8. CUs(vcmp[p].new) \subseteq Range(vcmp[p].new.cus)
  BY DEF CUs
<1> QED BY <1>2, <1>3, <1>5, <1>6, <1>7, <1>8 DEF d

\* The blob is written first.
LEMMA WriteBlobStep ==
    ASSUME LInv, NEW p \in Vcmps, WriteBlob(p)
    PROVE  LInv' /\ UNCHANGED manifest /\ InLibrary(p)
<1> DEFINE d == vcmp[p].job.dir
<1>1. InLibrary(p) /\ LibTypes
  BY DEF LInv, WriteBlob, InLibrary
<1>2. vcmp[p] \in Writing /\ d \in Dirs /\ vcmp[p].cu \in Unit
  BY <1>1, Phases DEF Writing
<1>3. /\ blobs' = [blobs EXCEPT ![d] = @ \cup {vcmp[p].cu}]
      /\ vcmp' = [vcmp EXCEPT ![p].pc = "commit"]
      /\ UNCHANGED <<text, manifest, overlapped>> /\ vcmp[p].pc = "blob"
  BY DEF WriteBlob, files
<1>4. /\ vcmp'[p] = [vcmp[p] EXCEPT !.pc = "commit"]
      /\ \A q \in Vcmps \ {p} : vcmp'[q] = vcmp[q]
  BY <1>1, <1>3 DEF LibTypes
<1>5. /\ vcmp'[p].pc = "commit" /\ vcmp'[p].job = vcmp[p].job /\ vcmp'[p].cu = vcmp[p].cu
      /\ vcmp'[p].new = vcmp[p].new
  BY <1>2, <1>4 DEF Writing
<1>6. blobs'[d] = blobs[d] \cup {vcmp[p].cu} /\ \A e \in Dirs \ {d} : blobs'[e] = blobs[e]
  BY <1>1, <1>2, <1>3 DEF LibTypes
<1>7. LibTypes'
  <2>1. [vcmp[p] EXCEPT !.pc = "commit"] \in Writing
    BY <1>2 DEF Writing
  <2>2. vcmp' \in [Vcmps -> {Idle} \cup Reading \cup Writing]
    BY <1>1, <1>3, <2>1 DEF LibTypes
  <2>3. blobs' \in [Dirs -> SUBSET Unit]
    BY <1>1, <1>2, <1>3 DEF LibTypes
  <2> QED BY <1>1, <1>3, <2>2, <2>3 DEF LibTypes
<1>8. ASSUME ~overlapped[d]
      PROVE  CUs(manifest'[d]) \subseteq blobs'[d] /\ Undisturbed(p)'
  <2>1. Undisturbed(p) /\ CUs(manifest[d]) \subseteq blobs[d]
    BY <1>1, <1>2, <1>8 DEF LInv, Steady, BlobsPresent
  <2>2. \A q \in Vcmps : InLibrary(q)' /\ vcmp'[q].job.dir = d => q = p
    BY <1>4, <2>1 DEF Undisturbed, InLibrary
  <2>3. Updated(vcmp[p].job.dir, vcmp[p].job.name, vcmp[p].cu)'
           = Updated(vcmp[p].job.dir, vcmp[p].job.name, vcmp[p].cu)
    BY <1>3, <1>5 DEF Updated, Base
  <2>4. vcmp[p].new = Updated(d, vcmp[p].job.name, vcmp[p].cu)
    BY <1>3, <2>1 DEF Undisturbed
  <2> QED BY <1>3, <1>5, <1>6, <2>1, <2>2, <2>3, <2>4 DEF Undisturbed
<1> QED BY <1>1, <1>3, <1>4, <1>5, <1>6, <1>7, <1>8, LibraryStep

\* Then the manifest, whose blobs are all there.
LEMMA CommitStep ==
    ASSUME LInv, NEW p \in Vcmps, Commit(p)
    PROVE  /\ LInv' /\ InLibrary(p)
           /\ manifest' = [manifest EXCEPT ![vcmp[p].job.dir] = vcmp[p].new]
<1> DEFINE d == vcmp[p].job.dir
<1>1. InLibrary(p) /\ LibTypes
  BY DEF LInv, Commit, InLibrary
<1>2. vcmp[p] \in Writing /\ d \in Dirs /\ vcmp[p].new \in Library
  BY <1>1, Phases DEF Writing
<1>3. /\ manifest' = [manifest EXCEPT ![d] = vcmp[p].new]
      /\ vcmp' = [vcmp EXCEPT ![p].pc = "list"]
      /\ UNCHANGED <<text, blobs, overlapped>> /\ vcmp[p].pc = "commit"
  BY DEF Commit, files
<1>4. /\ vcmp'[p] = [vcmp[p] EXCEPT !.pc = "list"]
      /\ \A q \in Vcmps \ {p} : vcmp'[q] = vcmp[q]
  BY <1>1, <1>3 DEF LibTypes
<1>5. /\ vcmp'[p].pc = "list" /\ vcmp'[p].job = vcmp[p].job /\ vcmp'[p].cu = vcmp[p].cu
      /\ vcmp'[p].new = vcmp[p].new
  BY <1>2, <1>4 DEF Writing
<1>6. manifest'[d] = vcmp[p].new /\ \A e \in Dirs \ {d} : manifest'[e] = manifest[e]
  BY <1>1, <1>2, <1>3 DEF LibTypes
<1>7. LibTypes'
  <2>1. [vcmp[p] EXCEPT !.pc = "list"] \in Writing
    BY <1>2 DEF Writing
  <2>2. vcmp' \in [Vcmps -> {Idle} \cup Reading \cup Writing]
    BY <1>1, <1>3, <2>1 DEF LibTypes
  <2>3. manifest' \in [Dirs -> Library \cup {None}]
    BY <1>1, <1>2, <1>3 DEF LibTypes
  <2> QED BY <1>1, <1>3, <2>2, <2>3 DEF LibTypes
<1>8. ASSUME ~overlapped[d]
      PROVE  CUs(manifest'[d]) \subseteq blobs'[d] /\ Undisturbed(p)'
  <2>1. Undisturbed(p)
    BY <1>1, <1>8 DEF LInv, Steady
  <2>2. \A q \in Vcmps : InLibrary(q)' /\ vcmp'[q].job.dir = d => q = p
    BY <1>4, <2>1 DEF Undisturbed, InLibrary
  <2>3. CUs(vcmp[p].new) \subseteq blobs[d]
    BY <1>1, <1>3, <1>8, BlobsForNew
  <2> QED BY <1>3, <1>5, <1>6, <2>2, <2>3 DEF Undisturbed
<1> QED BY <1>1, <1>3, <1>4, <1>5, <1>6, <1>7, <1>8, LibraryStep

\* With the manifest in place the directory is listed: with nothing to remove its
\* blobs are the manifest's.
LEMMA ListStep ==
    ASSUME LInv, NEW p \in Vcmps, List(p)
    PROVE  /\ LInv' /\ UNCHANGED <<manifest, blobs>> /\ InLibrary(p)
           /\ vcmp'[p] = Idle /\ ~overlapped[vcmp[p].job.dir]
                 => blobs[vcmp[p].job.dir] = CUs(manifest[vcmp[p].job.dir])
<1> DEFINE d == vcmp[p].job.dir
           new == [vcmp[p] EXCEPT !.pc = "sweep", !.victims = Victims(p)]
<1>1. InLibrary(p) /\ LibTypes
  BY DEF LInv, List, InLibrary
<1>2. vcmp[p] \in Writing /\ d \in Dirs
  BY <1>1, Phases DEF Writing
<1>3. /\ vcmp' = [vcmp EXCEPT ![p] = IF Victims(p) = {} THEN Idle ELSE new]
      /\ UNCHANGED <<text, manifest, blobs, overlapped>> /\ vcmp[p].pc = "list"
  BY DEF List, files, lib
<1>4. /\ vcmp'[p] = IF Victims(p) = {} THEN Idle ELSE new
      /\ \A q \in Vcmps \ {p} : vcmp'[q] = vcmp[q]
  <2> HIDE DEF new
  <2> QED BY <1>1, <1>3 DEF LibTypes
<1>5. Victims(p) \subseteq blobs[d] /\ Victims(p) \in SUBSET Unit
  BY <1>1, <1>2 DEF Victims, LibTypes
<1>6. /\ new \in Writing /\ new.pc = "sweep" /\ new.job = vcmp[p].job /\ new.cu = vcmp[p].cu
      /\ new.new = vcmp[p].new /\ new.victims = Victims(p)
  <2> HIDE DEF d
  <2> QED BY <1>2, <1>5 DEF Writing
<1> HIDE DEF new
<1>7. LibTypes'
  <2>1. vcmp' \in [Vcmps -> {Idle} \cup Reading \cup Writing]
    BY <1>1, <1>3, <1>6 DEF LibTypes
  <2> QED BY <1>1, <1>3, <2>1 DEF LibTypes
<1>8. InLibrary(p)' => Victims(p) # {} /\ vcmp'[p] = new
  BY <1>4 DEF InLibrary, Idle
<1>9. ASSUME ~overlapped[d]
      PROVE  /\ CUs(manifest[d]) \subseteq blobs[d] /\ manifest[d] = vcmp[p].new
             /\ InLibrary(p)' => Undisturbed(p)'
  <2>1. /\ Undisturbed(p) /\ CUs(manifest[d]) \subseteq blobs[d]
        /\ manifest[d] = vcmp[p].new
    BY <1>1, <1>2, <1>3, <1>9 DEF LInv, Steady, BlobsPresent, Undisturbed
  <2>2. \A q \in Vcmps : InLibrary(q)' /\ vcmp'[q].job.dir = d => q = p
    BY <1>4, <2>1 DEF Undisturbed, InLibrary
  <2>3. InLibrary(p)' => Victims(p)' = Victims(p)
    BY <1>3, <1>6, <1>8 DEF Victims
  <2> QED BY <1>3, <1>6, <1>8, <2>1, <2>2, <2>3 DEF Undisturbed
<1>10. LInv'
  BY <1>1, <1>3, <1>4, <1>6, <1>7, <1>8, <1>9, LibraryStep
<1>11. vcmp'[p] = Idle => Victims(p) = {}
  BY <1>4, <1>6 DEF Idle
<1> QED BY <1>1, <1>3, <1>9, <1>10, <1>11 DEF Victims

\* A blob that is removed is none of the manifest's, and after the last one the
\* blobs are the manifest's.
LEMMA SweepStep ==
    ASSUME LInv, NEW p \in Vcmps, Sweep(p)
    PROVE  /\ LInv' /\ UNCHANGED manifest /\ InLibrary(p)
           /\ vcmp'[p] = Idle /\ ~overlapped[vcmp[p].job.dir]
                 => blobs'[vcmp[p].job.dir] = CUs(manifest[vcmp[p].job.dir])
<1> DEFINE d == vcmp[p].job.dir
<1>1. InLibrary(p) /\ LibTypes
  BY DEF LInv, Sweep, InLibrary
<1>2. vcmp[p] \in Writing /\ d \in Dirs /\ vcmp[p].victims \in SUBSET Unit
  BY <1>1, Phases DEF Writing
<1>3. PICK b \in vcmp[p].victims :
         /\ blobs' = [blobs EXCEPT ![d] = @ \ {b}]
         /\ vcmp' = [vcmp EXCEPT ![p] = IF vcmp[p].victims = {b} THEN Idle
                          ELSE [vcmp[p] EXCEPT !.victims = @ \ {b}]]
  BY DEF Sweep
<1>4. UNCHANGED <<text, manifest, overlapped>> /\ vcmp[p].pc = "sweep"
  BY DEF Sweep, files
<1> DEFINE new == [vcmp[p] EXCEPT !.victims = @ \ {b}]
<1> DEFINE next == IF vcmp[p].victims = {b} THEN Idle ELSE new
<1>5. /\ vcmp'[p] = next /\ vcmp' = [vcmp EXCEPT ![p] = next]
      /\ \A q \in Vcmps \ {p} : vcmp'[q] = vcmp[q]
  <2>1. vcmp' = [vcmp EXCEPT ![p] = next]
    BY <1>3
  <2> HIDE DEF next
  <2> QED BY <1>1, <2>1 DEF LibTypes
<1>6. /\ new \in Writing /\ new.pc = "sweep" /\ new.job = vcmp[p].job /\ new.cu = vcmp[p].cu
      /\ new.new = vcmp[p].new /\ new.victims = vcmp[p].victims \ {b}
  <2> HIDE DEF d
  <2> QED BY <1>2, <1>4 DEF Writing
<1>7. blobs'[d] = blobs[d] \ {b} /\ \A e \in Dirs \ {d} : blobs'[e] = blobs[e]
  BY <1>1, <1>2, <1>3 DEF LibTypes
<1>8. LibTypes'
  <2> HIDE DEF new
  <2>1. vcmp' \in [Vcmps -> {Idle} \cup Reading \cup Writing]
    BY <1>1, <1>5, <1>6 DEF LibTypes
  <2>2. blobs' \in [Dirs -> SUBSET Unit]
    BY <1>1, <1>2, <1>3 DEF LibTypes
  <2> QED BY <1>1, <1>4, <2>1, <2>2 DEF LibTypes
<1> HIDE DEF new
<1>9. InLibrary(p)' => vcmp[p].victims # {b} /\ vcmp'[p] = new
  BY <1>5 DEF InLibrary, Idle
<1>10. ASSUME ~overlapped[d]
       PROVE  /\ CUs(manifest[d]) \subseteq blobs'[d]
              /\ vcmp[p].victims = {b} => blobs'[d] = CUs(manifest[d])
              /\ InLibrary(p)' => Undisturbed(p)'
  <2>1. /\ Undisturbed(p) /\ CUs(manifest[d]) \subseteq blobs[d]
        /\ manifest[d] = vcmp[p].new /\ vcmp[p].victims = Victims(p)
    BY <1>1, <1>2, <1>4, <1>10 DEF LInv, Steady, BlobsPresent, Undisturbed
  <2>2. \A q \in Vcmps : InLibrary(q)' /\ vcmp'[q].job.dir = d => q = p
    BY <1>5, <2>1 DEF Undisturbed, InLibrary
  <2>3. vcmp[p].victims = blobs[d] \ CUs(manifest[d])
    BY <2>1 DEF Victims
  <2>4. CUs(manifest[d]) \subseteq blobs'[d]
    BY <1>3, <1>7, <2>1, <2>3
  <2>5. vcmp[p].victims = {b} => blobs'[d] = CUs(manifest[d])
    BY <1>7, <2>1, <2>3
  <2>6. InLibrary(p)' => /\ Victims(p)' = vcmp'[p].victims
                         /\ vcmp'[p].victims # {}
    BY <1>3, <1>4, <1>6, <1>7, <1>9, <2>1, <2>3 DEF Victims
  <2> QED BY <1>4, <1>6, <1>9, <2>1, <2>2, <2>4, <2>5, <2>6 DEF Undisturbed
<1>11. LInv'
  BY <1>1, <1>4, <1>5, <1>6, <1>7, <1>8, <1>9, <1>10, LibraryStep
<1>12. vcmp'[p] = Idle => vcmp[p].victims = {b}
  BY <1>5, <1>6 DEF Idle
<1> QED BY <1>1, <1>4, <1>10, <1>11, <1>12

-----------------------------------------------------------------------------
(* The library, whatever races, stops and is edited.                       *)

\* No library at first.
LEMMA LibInit == Init => LInv
<1> SUFFICES ASSUME Init PROVE LInv
  OBVIOUS
<1>1. LibTypes
  BY WorkLibAssumption DEF Init, LibTypes
<1>2. \A p \in Vcmps : ~InLibrary(p)
  BY DEF Init, InLibrary, Idle
<1>3. ManifestConsistent /\ BlobsPresent
  BY DEF Init, ManifestConsistent, BlobsPresent, CUs
<1> QED BY <1>1, <1>2, <1>3 DEF LInv, Jobs, Steady

\* Which steps there are, by what they do to the library.
LEMMA LibSteps ==
    ASSUME Next \/ UNCHANGED vars
    PROVE  \/ \E f \in Paths : Edit(f)
           \/ \E p \in Vcmps : \/ \E r \in Requests : Start(p, r)
                               \/ \E f \in Paths : ReadSource(p, f) \/ ReadInclude(p, f)
                               \/ Stop(p)
           \/ Velab \/ UNCHANGED vars
           \/ \E p \in Vcmps : \/ ReadLibrary(p) \/ WriteBlob(p) \/ Commit(p)
                               \/ List(p) \/ Sweep(p)
BY DEF Next, Vcmp, Quiet

\* Every step keeps the invariant.
LEMMA LibNext == LInv /\ [Next]_vars => LInv'
<1> SUFFICES ASSUME LInv, Next \/ UNCHANGED vars PROVE LInv'
  OBVIOUS
<1>1. ASSUME NEW p \in Vcmps,
             ReadLibrary(p) \/ WriteBlob(p) \/ Commit(p) \/ List(p) \/ Sweep(p)
      PROVE  LInv'
  BY <1>1, ReadLibraryStep, WriteBlobStep, CommitStep, ListStep, SweepStep
<1> QED BY <1>1, LibSteps, QuietSteps

\* The library's inductive invariant, in every behaviour.
THEOREM LibInvariant == Spec => []LInv
<1> QED BY LibInit, LibNext, PTL DEF Spec

\* However many vcmp processes race and stop, no manifest lists two units of one
\* name or of one source file, or a unit of another library (add_cu).
THEOREM ManifestConsistentHolds == Spec => []ManifestConsistent
<1>1. LInv => ManifestConsistent
  BY DEF LInv
<1> QED BY <1>1, LibInvariant, PTL

\* Wherever a vcmp stops, every unit of a manifest has its blob, unless add_cu calls
\* overlapped on that directory.
THEOREM BlobsPresentHolds == Spec => []BlobsPresent
<1>1. LInv => BlobsPresent
  BY DEF LInv
<1> QED BY <1>1, LibInvariant, PTL

\* What a commit makes of a manifest nobody else is writing.
LEMMA CommitReplaces ==
    ASSUME LInv, NEW p \in Vcmps, Commit(p), manifest'[vcmp[p].job.dir] # manifest[vcmp[p].job.dir],
           ~overlapped[vcmp[p].job.dir]
    PROVE  LET d   == vcmp[p].job.dir
               old == IF manifest[d] = None THEN <<>> ELSE manifest[d].cus
               new == manifest'[d].cus
           IN  \E i \in DOMAIN new :
                  LET gone == {cu \in Range(old) : Supersedes(new[i], cu)}
                  IN  /\ Without(new, {new[i]}) = Without(old, gone)
                      /\ new[i] \notin Range(old)
                      /\ gone # {} => i <= Len(old) /\ old[i] \in gone
<1> DEFINE d    == vcmp[p].job.dir
           cu   == vcmp[p].cu
           base == Base(d, vcmp[p].job.name)
           old  == IF manifest[d] = None THEN <<>> ELSE manifest[d].cus
<1>1. InLibrary(p) /\ LibTypes /\ vcmp[p].pc = "commit"
  BY DEF LInv, Commit, InLibrary
<1>2. vcmp[p] \in Writing /\ d \in Dirs /\ vcmp[p].job \in Requests /\ cu \in Unit
  BY <1>1, Phases DEF Writing
<1>3. vcmp[p].new = Updated(d, vcmp[p].job.name, cu)
  BY <1>1 DEF LInv, Steady, Undisturbed
<1>4. manifest'[d] = vcmp[p].new
  BY <1>1, <1>2, CommitStep DEF LibTypes
<1>5. /\ base \in Library /\ manifest'[d].cus = Recorded(base.cus, cu)
      /\ manifest'[d] = [base EXCEPT !.cus = Recorded(base.cus, cu)]
  BY <1>1, <1>2, <1>3, <1>4, UpdatedTypes DEF Updated
<1>6. base.cus = old
  BY DEF Base
<1>7. base.cus \in Seq(Unit)
  BY <1>5 DEF Library
<1>8. cu \notin Range(old)
  <2> SUFFICES ASSUME cu \in Range(old) PROVE FALSE
    OBVIOUS
  <2>1. manifest[d] # None
    <3>1. Range(<<>>) = {}
      BY DEF Range
    <3> QED BY <3>1
  <2>2. base = manifest[d]
    BY <2>1 DEF Base
  <2>3. AllApart(base.cus)
    BY <1>2, <2>1, <2>2 DEF LInv, ManifestConsistent, ConsistentIn, AllApart
  <2>4. DOMAIN cu.src # {}
    BY <1>2 DEF Unit
  <2> HIDE DEF cu, base, old
  <2>5. Recorded(base.cus, cu) = base.cus
    BY <1>2, <1>6, <1>7, <2>3, <2>4, RecordedSame
  <2>6. [base EXCEPT !.cus = base.cus] = base
    BY <1>5 DEF Library
  <2> QED BY <1>5, <2>2, <2>5, <2>6 DEF d
<1> HIDE DEF cu, base
<1>9. \E i \in DOMAIN Recorded(base.cus, cu) :
         LET new  == Recorded(base.cus, cu)
             gone == {u \in Range(base.cus) : Supersedes(new[i], u)}
         IN  /\ Without(new, {new[i]}) = Without(base.cus, gone)
             /\ new[i] \notin Range(base.cus)
             /\ gone # {} => i <= Len(base.cus) /\ base.cus[i] \in gone
  BY <1>2, <1>6, <1>7, <1>8, RecordedReplaces
<1> QED BY <1>5, <1>6, <1>9

\* A manifest changes by one unit, which takes the place of the first one it
\* supersedes; everything else keeps its order (add_cu, no overlapping call).
THEOREM ReplacedInPlaceHolds == Spec => ReplacedInPlace
<1> DEFINE Replaces(d) ==
      LET old == IF manifest[d] = None THEN <<>> ELSE manifest[d].cus
          new == manifest'[d].cus
      IN  \E i \in DOMAIN new :
             LET gone == {cu \in Range(old) : Supersedes(new[i], cu)}
             IN  /\ Without(new, {new[i]}) = Without(old, gone)
                 /\ new[i] \notin Range(old)
                 /\ gone # {} => i <= Len(old) /\ old[i] \in gone
<1>1. ASSUME LInv, Next \/ UNCHANGED vars, NEW d \in Dirs,
             manifest'[d] # manifest[d], ~overlapped[d]
      PROVE  Replaces(d)
  <2>1. PICK p \in Vcmps : Commit(p)
    <3>1. manifest' # manifest
      BY <1>1
    <3> QED BY <1>1, <3>1, LibSteps, QuietSteps, ReadLibraryStep, WriteBlobStep, ListStep,
               SweepStep
  <2>2. manifest' = [manifest EXCEPT ![vcmp[p].job.dir] = vcmp[p].new]
    BY <1>1, <2>1, CommitStep
  <2>3. d = vcmp[p].job.dir
    BY <1>1, <2>2 DEF LInv, LibTypes
  <2> QED BY <1>1, <2>1, <2>3, CommitReplaces
<1>2. LInv /\ [Next]_vars =>
         [\A d \in Dirs : manifest'[d] # manifest[d] /\ ~overlapped[d] => Replaces(d)]_manifest
  BY <1>1
<1> QED BY <1>2, LibInvariant, PTL DEF Spec, ReplacedInPlace

Counted == stops \in Nat

\* Stops are counted.
LEMMA StopsCounted == Spec => []Counted
<1>1. Init => Counted
  BY DEF Init, Counted
<1>2. Counted /\ [Next]_vars => Counted'
  <2> SUFFICES ASSUME stops \in Nat, Next \/ UNCHANGED vars PROVE stops' \in Nat
    BY DEF Counted
  <2>1. CASE \E p \in Vcmps : Stop(p)
    BY <2>1 DEF Stop
  <2>2. CASE \E f \in Paths : Edit(f)
    BY <2>2 DEF Edit
  <2>3. ASSUME NEW p \in Vcmps,
               \/ \E r \in Requests : Start(p, r)
               \/ \E f \in Paths : ReadSource(p, f) \/ ReadInclude(p, f)
               \/ ReadLibrary(p) \/ WriteBlob(p) \/ Commit(p) \/ List(p) \/ Sweep(p)
        PROVE  UNCHANGED stops
    BY <2>3 DEF Start, ReadSource, ReadInclude, ReadLibrary, WriteBlob, Commit, List, Sweep
  <2>4. CASE Velab \/ UNCHANGED vars
    BY <2>4 DEF Velab, LoadManifest, ResolveTops, LoadUnit, Elaborate, Rehash, Stat,
                WriteSnapshot, vars
  <2> QED BY <2>1, <2>2, <2>3, <2>4, LibSteps
<1> QED BY <1>1, <1>2, PTL DEF Spec

\* A vcmp that ran to its end leaves no blob that the manifest does not name
\* (remove_orphans, no overlapping call).
THEOREM GarbageCollectedHolds == Spec => GarbageCollected
<1>1. ASSUME LInv, Counted, Next \/ UNCHANGED vars, NEW p \in Vcmps,
             vcmp[p].pc \in {"list", "sweep"}, vcmp'[p] = Idle, stops' = stops,
             ~overlapped[vcmp[p].job.dir]
      PROVE  blobs'[vcmp[p].job.dir] = CUs(manifest[vcmp[p].job.dir])
  <2>1. vcmp[p].pc \in {"list", "sweep"} /\ LibTypes /\ InLibrary(p)
    BY <1>1 DEF LInv, InLibrary
  <2>2. vcmp'[p] # vcmp[p]
    BY <1>1, <2>1, Phases DEF Idle
  <2>3. Vcmp(p)
    <3>1. ASSUME NEW q \in Vcmps, Vcmp(q), q # p PROVE vcmp'[p] = vcmp[p]
      <4>1. \/ vcmp' = [vcmp EXCEPT ![q] = vcmp'[q]]
            \/ \E x : vcmp' = [vcmp EXCEPT ![q] = x]
        BY <3>1 DEF Vcmp, Start, ReadSource, ReadInclude, ReadLibrary, WriteBlob, Commit,
                    List, Sweep, Stop
      <4> QED BY <2>1, <3>1, <4>1 DEF LibTypes
    <3>2. ~(\E f \in Paths : Edit(f)) /\ ~Velab /\ ~UNCHANGED vars
      BY <2>2 DEF Edit, Velab, LoadManifest, ResolveTops, LoadUnit, Elaborate, Rehash, Stat,
                  WriteSnapshot, vars
    <3> QED BY <1>1, <2>2, <3>1, <3>2 DEF Next, Quiet
  <2>4. List(p) \/ Sweep(p)
    <3>1. ~Stop(p)
      BY <1>1 DEF Stop, Counted
    <3> QED BY <2>1, <2>3, <3>1 DEF Vcmp, Start, ReadSource, ReadInclude, ReadLibrary, WriteBlob,
                                    Commit, Idle
  <2> QED BY <1>1, <2>4, ListStep, SweepStep
<1>2. LInv /\ Counted /\ [Next]_vars =>
         [\A p \in Vcmps :
             LET d == vcmp[p].job.dir
             IN  vcmp[p].pc \in {"list", "sweep"} /\ vcmp'[p] = Idle /\ stops' = stops
                    /\ ~overlapped[d]
                 => blobs'[d] = CUs(manifest[d])]_vcmp
  BY <1>1
<1> QED BY <1>2, LibInvariant, StopsCounted, PTL DEF Spec, GarbageCollected

-----------------------------------------------------------------------------
(* velab's walk of the libraries.                                          *)

Keys == Nat \X Unit

\* What velab holds in each of its phases.
Searching == [pc : {"libs", "tops"}, seen : Seq(Library)]
Walking   == [pc : {"load"}, seen : Seq(Library), loaded : SUBSET Keys, queue : SUBSET Keys]
Stamping  == {"stamp", "stat", "done"}

ElabTypes ==
    /\ elab.pc \notin Stamping => elab \in {Idle} \cup Searching \cup Walking
    /\ elab.pc = "libs" => Len(elab.seen) < Len(SearchOrder)
    /\ elab.pc \in Stamping => elab.seen \in Seq(Library) /\ elab.loaded \in SUBSET Keys
    /\ elab.pc \in {"stamp", "done"} =>
          elab = [pc |-> elab.pc, seen |-> elab.seen, loaded |-> elab.loaded,
                  stamps |-> elab.stamps]

\* The names that are looked up for some loaded units.
Named(loaded) == Tops \cup UNION {Uses(key[2]) : key \in loaded}

\* What is loaded and what is still to be loaded are the units the names lead to.
Closure ==
    /\ elab.pc = "load" =>
          elab.loaded \cup elab.queue = Winners(elab.seen, Named(elab.loaded))
    /\ elab.pc \in Stamping => elab.loaded = Winners(elab.seen, Named(elab.loaded))

\* Every file entry that has a stamp was stamped with the file's content and a time
\* of the file that was not later than its present one.
Stamped ==
    /\ mtime \in [Paths -> Nat]
    /\ elab.pc \in Stamping => \A key \in elab.loaded : \A dg \in Digests(key[2]) :
          LET e == <<"file", dg[1], dg[2]>>
              s == elab.stamps[e]
          IN  e \in DOMAIN elab.stamps /\ s # None =>
                 s[1] \in Nat /\ s[1] <= mtime[dg[1]] /\ (s[1] = mtime[dg[1]] => text[dg[1]] = dg[2])
    /\ elab.pc = "stat" =>
          /\ Unstamped # {}
          /\ LET e == CHOOSE x \in Unstamped : TRUE IN elab.size = Size(e, e[3])
    /\ elab.pc = "done" => Unstamped = {}

\* More names, more units.
LEMMA WinnersMore ==
    ASSUME NEW seen, NEW A, NEW B
    PROVE  Winners(seen, A \cup B) = Winners(seen, A) \cup Winners(seen, B)
BY DEF Winners

\* The units that names lead to are units of the libraries.
LEMMA WinnersKeys ==
    ASSUME NEW seen \in Seq(Library), NEW names
    PROVE  Winners(seen, names) \subseteq Keys
<1> SUFFICES ASSUME NEW i \in DOMAIN seen, NEW cu \in CUs(seen[i]) PROVE <<i, cu>> \in Keys
  BY DEF Winners
<1>1. i \in Nat /\ seen[i] \in Library
  OBVIOUS
<1>2. CUs(seen[i]) \subseteq Range(seen[i].cus) /\ seen[i].cus \in Seq(Unit)
  BY <1>1 DEF CUs, Library
<1>3. cu \in Unit
  BY <1>2, SeqRange
<1> QED BY <1>1, <1>3 DEF Keys

\* The first library that declares a name.
First(seen, n, i) == i \in Declaring(seen, n) /\ \A j \in Declaring(seen, n) : i <= j

\* The units that names lead to are those of the first library with each name.
LEMMA WinnersFirst ==
    ASSUME NEW seen \in Seq(Library), NEW names
    PROVE  /\ \A n \in names, i \in DOMAIN seen : First(seen, n, i) =>
                 \E key \in Winners(seen, names) : key[1] = i /\ n \in Units(key[2])
           /\ \A key \in Winners(seen, names) : \E n \in names \cap Units(key[2]) : First(seen, n, key[1])
<1>1. \A n : Declaring(seen, n) \in SUBSET Nat
  BY DEF Declaring
<1>2. ASSUME NEW n \in names, NEW i \in DOMAIN seen, First(seen, n, i)
      PROVE  \E key \in Winners(seen, names) : key[1] = i /\ n \in Units(key[2])
  <2>1. i \in Declaring(seen, n) /\ \A j \in Declaring(seen, n) : i <= j
    BY <1>2 DEF First
  <2>2. PICK cu \in CUs(seen[i]) : n \in Units(cu)
    BY <2>1 DEF Declaring
  <2>3. Min(Declaring(seen, n)) = i
    <3>1. /\ Min(Declaring(seen, n)) \in Declaring(seen, n)
          /\ \A j \in Declaring(seen, n) : Min(Declaring(seen, n)) <= j
      BY <1>1, <2>1, LeastPlace
    <3> QED BY <1>1, <2>1, <3>1
  <2>4. <<i, cu>> \in Winners(seen, names)
    BY <2>2, <2>3 DEF Winners
  <2> QED BY <2>2, <2>4
<1>3. ASSUME NEW key \in Winners(seen, names)
      PROVE  \E n \in names \cap Units(key[2]) : First(seen, n, key[1])
  <2>1. PICK n \in names \cap Units(key[2]) : key[1] = Min(Declaring(seen, n))
    BY DEF Winners
  <2>2. key[1] \in DOMAIN seen /\ key[2] \in CUs(seen[key[1]])
    <3>1. PICK i \in DOMAIN seen : \E cu \in CUs(seen[i]) : key = <<i, cu>>
      BY DEF Winners
    <3> QED BY <3>1
  <2>3. key[1] \in Declaring(seen, n)
    BY <2>1, <2>2 DEF Declaring
  <2>4. /\ key[1] \in Declaring(seen, n)
        /\ \A j \in Declaring(seen, n) : key[1] <= j
    BY <1>1, <2>1, <2>3, LeastPlace
  <2> QED BY <2>1, <2>4 DEF First
<1> QED BY <1>2, <1>3

\* velab keeps its invariant, whatever the libraries hold when it reads them.
LEMMA WalkStep ==
    ASSUME LInv, ElabTypes, Closure, Velab
    PROVE  ElabTypes' /\ Closure'
<1>1. CASE LoadManifest
  <2> DEFINE seen == IF elab.pc = "idle" THEN <<>> ELSE elab.seen
             l    == SearchOrder[Len(seen) + 1]
             m    == manifest[l.dir]
             pc   == IF Len(seen) + 1 = Len(SearchOrder) THEN "tops" ELSE "libs"
  <2>1. Len(SearchOrder) \in Nat /\ Len(SearchOrder) > 0
    BY WorkLibAssumption
  <2>2. elab.pc \in {"idle", "libs"}
    BY <1>1 DEF LoadManifest
  <2>3. seen \in Seq(Library) /\ Len(seen) < Len(SearchOrder)
    <3>1. CASE elab.pc = "idle"
      BY <2>1, <3>1
    <3>2. CASE elab.pc = "libs"
      BY <3>2 DEF ElabTypes, Stamping, Idle, Searching, Walking
    <3> QED BY <2>2, <3>1, <3>2
  <2>4. l.dir \in Dirs
    <3>1. Len(seen) + 1 \in 1 .. Len(SearchOrder)
      BY <2>1, <2>3
    <3>2. DOMAIN SearchOrder = 1 .. Len(SearchOrder)
      BY WorkLibAssumption
    <3> HIDE DEF seen
    <3> QED BY <3>1, <3>2, WorkLibAssumption
  <2>5. elab' = IF m = None \/ OtherLibrary(m, l.name) THEN Idle
                ELSE [pc |-> pc, seen |-> Append(seen, m)]
    BY <1>1 DEF LoadManifest
  <2>6. m \in Library \cup {None}
    <3> HIDE DEF l
    <3> QED BY <2>4 DEF LInv, LibTypes
  <2> HIDE DEF seen, l, m
  <2>7. CASE m = None \/ OtherLibrary(m, l.name)
    BY <2>5, <2>7 DEF ElabTypes, Closure, Idle, Stamping
  <2>8. CASE m \in Library /\ elab' = [pc |-> pc, seen |-> Append(seen, m)]
    <3>1. Append(seen, m) \in Seq(Library) /\ Len(Append(seen, m)) = Len(seen) + 1
      BY <2>3, <2>8
    <3>2. pc = "libs" => Len(seen) + 1 < Len(SearchOrder)
      BY <2>1, <2>3
    <3>3. pc \in {"libs", "tops"}
      OBVIOUS
    <3> HIDE DEF pc
    <3> QED BY <2>8, <3>1, <3>2, <3>3 DEF ElabTypes, Closure, Searching, Stamping
  <2> QED BY <2>5, <2>6, <2>7, <2>8
<1>2. CASE ResolveTops
  <2>1. elab.pc = "tops" /\ elab.seen \in Seq(Library)
    BY <1>2 DEF ResolveTops, ElabTypes, Stamping, Idle, Searching, Walking
  <2>2. CASE elab' = Idle
    BY <2>2 DEF ElabTypes, Closure, Idle, Stamping
  <2>3. CASE elab' = [pc |-> "load", seen |-> elab.seen, loaded |-> {},
                      queue |-> Winners(elab.seen, Tops)]
    <3>1. Winners(elab.seen, Tops) \subseteq Keys
      BY <2>1, WinnersKeys
    <3>2. Named({}) = Tops
      BY DEF Named
    <3> QED BY <2>1, <2>3, <3>1, <3>2 DEF ElabTypes, Closure, Walking, Stamping
  <2> QED BY <1>2, <2>2, <2>3 DEF ResolveTops
<1>3. CASE LoadUnit
  <2>1. elab.pc = "load" /\ elab \in Walking
    BY <1>3 DEF LoadUnit, ElabTypes, Stamping, Idle, Searching, Walking
  <2>2. PICK key \in elab.queue :
          elab' = IF key[2] \notin blobs[SearchOrder[key[1]].dir] THEN Idle
                  ELSE [elab EXCEPT !.loaded = elab.loaded \cup {key},
                          !.queue = (@ \cup Winners(elab.seen, Uses(key[2])))
                                        \ (elab.loaded \cup {key})]
    BY <1>3 DEF LoadUnit
  <2> DEFINE more   == Winners(elab.seen, Uses(key[2]))
             loaded == elab.loaded \cup {key}
             queue  == (elab.queue \cup more) \ loaded
  <2>3. CASE elab' = Idle
    BY <2>3 DEF ElabTypes, Closure, Idle, Stamping
  <2>4. CASE elab' # Idle
    <3>1. elab' = [elab EXCEPT !.loaded = loaded, !.queue = queue]
      BY <2>2, <2>4
    <3>2. /\ elab.seen \in Seq(Library) /\ elab.loaded \subseteq Keys /\ elab.queue \subseteq Keys
          /\ key \in Keys
      BY <2>1, <2>2 DEF Walking
    <3>3. more \subseteq Keys
      BY <3>2, WinnersKeys
    <3>4. Named(loaded) = Named(elab.loaded) \cup Uses(key[2])
      BY DEF Named
    <3>5. elab.loaded \cup elab.queue = Winners(elab.seen, Named(elab.loaded))
      BY <2>1 DEF Closure
    <3>6. Winners(elab.seen, Named(loaded)) = Winners(elab.seen, Named(elab.loaded)) \cup more
      <4>1. Winners(elab.seen, Named(elab.loaded) \cup Uses(key[2]))
               = Winners(elab.seen, Named(elab.loaded)) \cup Winners(elab.seen, Uses(key[2]))
        BY WinnersMore
      <4> HIDE DEF loaded
      <4> QED BY <3>4, <4>1
    <3>7. loaded \cup queue = Winners(elab.seen, Named(loaded))
      BY <2>2, <3>5, <3>6
    <3>8. loaded \subseteq Keys /\ queue \subseteq Keys
      BY <3>2, <3>3
    <3> HIDE DEF loaded, queue
    <3>9. /\ elab' \in Walking /\ elab'.seen = elab.seen /\ elab'.loaded = loaded
          /\ elab'.queue = queue
      BY <2>1, <3>1, <3>2, <3>8 DEF Walking
    <3> QED BY <3>7, <3>9 DEF ElabTypes, Closure, Walking, Stamping
  <2> QED BY <2>3, <2>4
<1>4. CASE Elaborate
  <2>1. elab.pc = "load" /\ elab \in Walking /\ elab.queue = {}
    BY <1>4 DEF Elaborate, ElabTypes, Stamping, Idle, Searching, Walking
  <2>2. elab' = [pc |-> "stamp", seen |-> elab.seen, loaded |-> elab.loaded, stamps |-> <<>>]
    BY <1>4 DEF Elaborate
  <2> QED BY <2>1, <2>2 DEF ElabTypes, Closure, Walking, Stamping
<1>5. CASE Rehash \/ Stat \/ WriteSnapshot
  <2>1. /\ elab.pc \in Stamping
        /\ elab'.seen = elab.seen /\ elab'.loaded = elab.loaded /\ elab'.pc \in Stamping
        /\ elab'.pc \in {"stamp", "done"} =>
              elab' = [pc |-> elab'.pc, seen |-> elab'.seen, loaded |-> elab'.loaded,
                       stamps |-> elab'.stamps]
    <3>1. CASE Rehash
      BY <3>1 DEF Rehash, ElabTypes, Stamping
    <3>2. CASE Stat
      BY <3>2 DEF Stat, Stamping
    <3>3. CASE WriteSnapshot
      BY <3>3 DEF WriteSnapshot, ElabTypes, Stamping
    <3> QED BY <1>5, <3>1, <3>2, <3>3
  <2>2. elab'.pc # "libs" /\ elab'.pc # "load"
    BY <2>1 DEF Stamping
  <2> QED BY <2>1, <2>2 DEF ElabTypes, Closure
<1> QED BY <1>1, <1>2, <1>3, <1>4, <1>5 DEF Velab

\* The invariant of velab's walk, in every behaviour.
THEOREM WalkInvariant == Spec => [](ElabTypes /\ Closure)
<1> DEFINE VInv == ElabTypes /\ Closure
<1>1. Init => VInv
  BY DEF Init, Idle, ElabTypes, Closure, Stamping
<1>2. LInv /\ VInv /\ [Next]_vars => VInv'
  <2> SUFFICES ASSUME LInv, ElabTypes, Closure, Next \/ UNCHANGED vars PROVE VInv'
    OBVIOUS
  <2>1. CASE Velab
    BY <2>1, WalkStep
  <2>2. CASE UNCHANGED elab
    BY <2>2 DEF ElabTypes, Closure
  <2>3. Velab \/ UNCHANGED elab
    BY DEF Next, Edit, Vcmp, Start, ReadSource, ReadInclude, ReadLibrary, WriteBlob, Commit,
           List, Sweep, Stop, Quiet, vars
  <2> QED BY <2>1, <2>2, <2>3
<1> QED BY <1>1, <1>2, LibInvariant, PTL DEF Spec

\* A snapshot has, of every name it needs, exactly the unit that the first library
\* with that name declares (velab -L), whatever vcmp did meanwhile.
THEOREM ClosureHolds == Spec => []ClosureFollowsSearchOrder
<1>1. ElabTypes /\ Closure => ClosureFollowsSearchOrder
  <2> SUFFICES ASSUME ElabTypes, Closure, elab.pc \in Stamping
               PROVE  LET names == Named(elab.loaded)
                      IN  /\ \A n \in names, i \in DOMAIN elab.seen : First(elab.seen, n, i) =>
                               \E key \in elab.loaded : key[1] = i /\ n \in Units(key[2])
                          /\ \A key \in elab.loaded : \E n \in names \cap Units(key[2]) :
                               First(elab.seen, n, key[1])
    BY DEF ClosureFollowsSearchOrder, Stamping, First, Named
  <2>1. elab.seen \in Seq(Library) /\ elab.loaded = Winners(elab.seen, Named(elab.loaded))
    BY DEF ElabTypes, Closure
  <2> QED BY <2>1, WinnersFirst
<1> QED BY <1>1, WalkInvariant, PTL

-----------------------------------------------------------------------------
(* vrun's gate.                                                            *)

\* An edit changes a file's size.
SizesTell == \A f \in Paths : \A c, d \in Texts[f] : Length[c] = Length[d] => c = d

\* What a unit's digest was taken of.
LEMMA DigestTypes ==
    ASSUME NEW cu \in Unit, NEW dg \in Digests(cu)
    PROVE  dg[1] \in Paths /\ dg[2] \in Texts[dg[1]] /\ dg = <<dg[1], dg[2]>>
<1>1. cu.src \in Compiled /\ cu.inc \in Compiled
  BY DEF Unit
<1>2. \A t \in Compiled : \A f \in DOMAIN t : f \in Paths /\ t[f] \in Texts[f]
  BY DEF Compiled
<1> QED BY <1>1, <1>2 DEF Digests

\* The digests of the loaded units.
LEMMA LoadedDigests ==
    ASSUME ElabTypes, elab.pc \in Stamping, NEW key \in elab.loaded, NEW dg \in Digests(key[2])
    PROVE  dg[1] \in Paths /\ dg[2] \in Texts[dg[1]]
<1>1. key[2] \in Unit
  BY DEF ElabTypes, Keys
<1> QED BY <1>1, DigestTypes

\* No stamp is earlier than its file's last write with other content behind it.
LEMMA StampEntry ==
    ASSUME SizesTell, LInv, ElabTypes, Stamped, elab.pc \in {"stamp", "stat"},
           elab'.seen = elab.seen, elab'.loaded = elab.loaded, UNCHANGED <<text, mtime>>,
           NEW e, NEW s, elab'.stamps = Put(elab.stamps, e, s), elab'.pc \in Stamping,
           \/ s = None
           \/ elab.pc = "stat" /\ s = Fingerprint(e) /\ Size(e, Live(e)) = Size(e, e[3]),
           NEW key \in elab.loaded, NEW dg \in Digests(key[2]),
           <<"file", dg[1], dg[2]>> \in DOMAIN elab'.stamps,
           elab'.stamps[<<"file", dg[1], dg[2]>>] # None
    PROVE  LET t == elab'.stamps[<<"file", dg[1], dg[2]>>]
           IN  /\ t[1] \in Nat /\ t[1] <= mtime[dg[1]]
               /\ t[1] = mtime[dg[1]] => text[dg[1]] = dg[2]
<1> DEFINE x == <<"file", dg[1], dg[2]>>
<1>1. dg[1] \in Paths /\ dg[2] \in Texts[dg[1]] /\ mtime[dg[1]] \in Nat
  BY LoadedDigests DEF Stamping, Stamped
<1>2. /\ DOMAIN elab'.stamps = DOMAIN elab.stamps \cup {e}
      /\ \A y \in DOMAIN elab'.stamps : elab'.stamps[y] = IF y = e THEN s ELSE elab.stamps[y]
  BY DEF Put
<1>3. CASE x = e
  <2>1. s = Fingerprint(e) /\ Size(e, Live(e)) = Size(e, e[3])
    BY <1>2, <1>3
  <2>2. e[1] = "file" /\ e[2] = dg[1] /\ e[3] = dg[2]
    BY <1>3
  <2>3. Live(e) = text[dg[1]] /\ Mtime(e) = mtime[dg[1]]
    BY <2>2 DEF Live, Mtime
  <2>4. Length[text[dg[1]]] = Length[dg[2]]
    BY <2>1, <2>2, <2>3 DEF Size
  <2>5. text[dg[1]] = dg[2]
    BY <1>1, <2>4 DEF SizesTell, LInv, LibTypes
  <2>6. s[1] = mtime[dg[1]]
    BY <2>1, <2>3 DEF Fingerprint
  <2>7. elab'.stamps[x] = s
    BY <1>2, <1>3
  <2> QED BY <1>1, <2>5, <2>6, <2>7
<1>4. CASE x # e
  <2>1. x \in DOMAIN elab.stamps /\ elab'.stamps[x] = elab.stamps[x]
    BY <1>2, <1>4
  <2> QED BY <2>1 DEF Stamped, Stamping
<1> QED BY <1>3, <1>4

\* Every step keeps the stamps honest.
LEMMA StampStep ==
    ASSUME SizesTell, LInv, ElabTypes, Stamped, Next \/ UNCHANGED vars
    PROVE  Stamped'
<1>1. CASE \E f \in Paths : Edit(f)
  <2>1. PICK f \in Paths : Edit(f)
    BY <1>1
  <2>2. /\ UNCHANGED elab /\ mtime' = [mtime EXCEPT ![f] = @ + 1]
        /\ \E c : text' = [text EXCEPT ![f] = c]
    BY <2>1 DEF Edit
  <2>3. /\ mtime' \in [Paths -> Nat]
        /\ mtime'[f] = mtime[f] + 1 /\ mtime[f] \in Nat
        /\ \A g \in Paths \ {f} : mtime'[g] = mtime[g] /\ text'[g] = text[g]
    BY <2>2 DEF Stamped, LInv, LibTypes
  <2>4. Unstamped' = Unstamped
    BY <2>2 DEF Unstamped
  <2>5. ASSUME elab.pc \in Stamping, NEW key \in elab.loaded, NEW dg \in Digests(key[2]),
               <<"file", dg[1], dg[2]>> \in DOMAIN elab.stamps,
               elab.stamps[<<"file", dg[1], dg[2]>>] # None
        PROVE  LET t == elab.stamps[<<"file", dg[1], dg[2]>>]
               IN  /\ t[1] \in Nat /\ t[1] <= mtime'[dg[1]]
                   /\ t[1] = mtime'[dg[1]] => text'[dg[1]] = dg[2]
    <3> DEFINE t == elab.stamps[<<"file", dg[1], dg[2]>>]
    <3>1. t[1] \in Nat /\ t[1] <= mtime[dg[1]] /\ (t[1] = mtime[dg[1]] => text[dg[1]] = dg[2])
      BY <2>5 DEF Stamped
    <3>2. dg[1] \in Paths
      BY <2>5, LoadedDigests
    <3> HIDE DEF t
    <3>3. CASE dg[1] = f
      <4>1. t[1] <= mtime'[dg[1]] /\ t[1] # mtime'[dg[1]]
        BY <2>3, <3>1, <3>3
      <4> QED BY <3>1, <4>1 DEF t
    <3>4. CASE dg[1] # f
      BY <2>3, <3>1, <3>2, <3>4 DEF t
    <3> QED BY <3>3, <3>4
  <2> QED BY <2>2, <2>3, <2>4, <2>5 DEF Stamped
<1>2. CASE UNCHANGED <<text, mtime, elab>>
  <2>1. Unstamped' = Unstamped
    BY <1>2 DEF Unstamped
  <2> QED BY <1>2, <2>1 DEF Stamped
<1>3. CASE LoadManifest \/ ResolveTops \/ LoadUnit
  <2>1. elab'.pc \notin Stamping
    <3>1. CASE LoadManifest
      BY <3>1 DEF LoadManifest, Idle, Stamping
    <3>2. CASE ResolveTops
      BY <3>2 DEF ResolveTops, Idle, Stamping
    <3>3. CASE LoadUnit
      BY <3>3 DEF LoadUnit, Idle, Stamping, ElabTypes, Searching, Walking
    <3> QED BY <1>3, <3>1, <3>2, <3>3
  <2>2. UNCHANGED mtime
    BY <1>3 DEF LoadManifest, ResolveTops, LoadUnit, files
  <2> QED BY <2>1, <2>2 DEF Stamped, Stamping
<1>4. CASE Elaborate
  <2>1. /\ elab'.pc = "stamp" /\ elab'.stamps = <<>> /\ UNCHANGED mtime
    BY <1>4 DEF Elaborate, files
  <2>2. DOMAIN elab'.stamps = {}
    BY <2>1
  <2> QED BY <2>1, <2>2 DEF Stamped
<1>5. CASE Rehash
  <2> DEFINE e == CHOOSE x \in Unstamped : TRUE
  <2>1. elab.pc = "stamp" /\ Unstamped # {} /\ UNCHANGED <<text, mtime>>
    BY <1>5 DEF Rehash, files
  <2>2. elab' = IF Verified(e)
                THEN [pc |-> "stat", seen |-> elab.seen, loaded |-> elab.loaded,
                      stamps |-> elab.stamps, size |-> Size(e, Live(e))]
                ELSE [elab EXCEPT !.stamps = Put(@, e, None)]
    BY <1>5 DEF Rehash
  <2>3. CASE Verified(e)
    <3> HIDE DEF e
    <3>1. /\ elab'.pc = "stat" /\ elab'.seen = elab.seen /\ elab'.loaded = elab.loaded
          /\ elab'.stamps = elab.stamps /\ elab'.size = Size(e, e[3])
      BY <2>2, <2>3 DEF Verified
    <3>2. Unstamped' = Unstamped
      BY <3>1 DEF Unstamped, Entries
    <3>3. e = CHOOSE x \in Unstamped' : TRUE
      BY <3>2 DEF e
    <3>4. elab.pc \in Stamping /\ elab'.pc # "done"
      BY <2>1, <3>1 DEF Stamping
    <3> QED BY <2>1, <3>1, <3>2, <3>3, <3>4 DEF Stamped
  <2>4. CASE ~Verified(e)
    <3> HIDE DEF e
    <3>1. /\ elab'.pc = "stamp" /\ elab'.seen = elab.seen /\ elab'.loaded = elab.loaded
          /\ elab'.stamps = Put(elab.stamps, e, None)
      BY <2>1, <2>2, <2>4 DEF ElabTypes
    <3> QED BY <2>1, <3>1, StampEntry DEF Stamped, Stamping
  <2> QED BY <2>3, <2>4
<1>6. CASE Stat
  <2> DEFINE e == CHOOSE x \in Unstamped : TRUE
             s == IF Size(e, Live(e)) = elab.size THEN Fingerprint(e) ELSE None
  <2>1. elab.pc = "stat" /\ UNCHANGED <<text, mtime>>
    BY <1>6 DEF Stat, files
  <2>2. /\ elab'.pc = "stamp" /\ elab'.seen = elab.seen /\ elab'.loaded = elab.loaded
        /\ elab'.stamps = Put(elab.stamps, e, s)
    BY <1>6 DEF Stat
  <2>3. elab.size = Size(e, e[3])
    BY <2>1 DEF Stamped
  <2>4. s = None \/ (s = Fingerprint(e) /\ Size(e, Live(e)) = Size(e, e[3]))
    BY <2>3
  <2> HIDE DEF e, s
  <2> QED BY <2>1, <2>2, <2>4, StampEntry DEF Stamped, Stamping
<1>7. CASE WriteSnapshot
  <2>1. elab.pc = "stamp" /\ Unstamped = {} /\ UNCHANGED <<text, mtime>>
    BY <1>7 DEF WriteSnapshot, files
  <2>2. /\ elab'.pc = "done" /\ elab'.seen = elab.seen /\ elab'.loaded = elab.loaded
        /\ elab'.stamps = elab.stamps
    BY <1>7, <2>1 DEF WriteSnapshot, ElabTypes
  <2>3. Unstamped' = Unstamped
    BY <2>2 DEF Unstamped, Entries
  <2> QED BY <2>1, <2>2, <2>3 DEF Stamped, Stamping
<1>8. CASE \E p \in Vcmps : Vcmp(p)
  <2>1. UNCHANGED <<text, mtime, elab>>
    BY <1>8 DEF Vcmp, Start, ReadSource, ReadInclude, ReadLibrary, WriteBlob, Commit, List,
                Sweep, Stop, files
  <2> QED BY <1>2, <2>1
<1>9. CASE Quiet \/ UNCHANGED vars
  BY <1>2, <1>9 DEF Quiet, vars
<1> QED BY <1>1, <1>3, <1>4, <1>5, <1>6, <1>7, <1>8, <1>9 DEF Next, Velab

\* A snapshot that vrun accepts was compiled from the files as they are, and its
\* blobs are there (check_fresh), provided that an edit changes a file's size.
THEOREM AcceptedHolds ==
    ASSUME SizesTell
    PROVE  Spec => []AcceptedIsCurrent
<1> DEFINE VInv == ElabTypes /\ Closure
<1>1. Init => Stamped
  BY DEF Init, Idle, Stamped, Stamping
<1>2. LInv /\ VInv /\ Stamped /\ [Next]_vars => Stamped'
  BY StampStep
<1>3. VInv /\ Stamped => AcceptedIsCurrent
  <2> SUFFICES ASSUME ElabTypes, Stamped, Accepts, NEW key \in elab.loaded
               PROVE  /\ \A dg \in Digests(key[2]) : text[dg[1]] = dg[2]
                      /\ key[2] \in blobs[SearchOrder[key[1]].dir]
    BY DEF AcceptedIsCurrent
  <2>1. ASSUME NEW dg \in Digests(key[2]) PROVE text[dg[1]] = dg[2]
    <3> DEFINE e == <<"file", dg[1], dg[2]>>
    <3>1. e \in Entries(elab)
      BY DEF Entries
    <3>2. Fresh(e) /\ e \in DOMAIN elab.stamps /\ elab.pc \in Stamping
      BY <3>1 DEF Accepts, Stamped, Unstamped, Stamping
    <3>3. Live(e) = text[dg[1]] /\ Mtime(e) = mtime[dg[1]] /\ e[3] = dg[2]
      BY DEF Live, Mtime
    <3>4. elab.stamps[e] # None /\ elab.stamps[e] = Fingerprint(e) => text[dg[1]] = dg[2]
      <4>1. Fingerprint(e)[1] = mtime[dg[1]]
        BY <3>3 DEF Fingerprint
      <4> QED BY <3>2, <4>1 DEF Stamped
    <3> HIDE DEF e
    <3> QED BY <3>2, <3>3, <3>4 DEF Fresh
  <2> QED BY <2>1 DEF Accepts
<1> QED BY <1>1, <1>2, <1>3, LibInvariant, WalkInvariant, PTL DEF Spec
=============================================================================
