--------------------------- MODULE RunLoopProofs ----------------------------
(***************************************************************************)
(* The event loop, for any number of processes, any delays and any limits: *)
(* types, one place per process, run queues in order, no work left behind  *)
(* by the advance of time, no time step ended with a change unseen.        *)
(***************************************************************************)
EXTENDS RunLoop, WellFoundedInduction, TLAPS

-----------------------------------------------------------------------------
(* Induction over the naturals, for sets: the prover cannot instantiate the *)
(* library's induction rules, whose predicate is an operator.               *)

\* A set of naturals has a least element.
LEMMA LeastNat ==
    ASSUME NEW S \in SUBSET Nat, S # {}
    PROVE  \E m \in S : \A n \in S : m <= n
<1> DEFINE R == {ss \in Nat \X Nat : ss[1] < ss[2]}
<1>1. IsWellFoundedOn(R, Nat)
  BY NatLessThanWellFounded DEF OpToRel
<1>2. \A x, y \in Nat : <<y, x>> \in R <=> y < x
  OBVIOUS
<1> HIDE DEF R
<1>3. PICK x \in S : \A y \in S : ~(<<y, x>> \in R)
  BY <1>1, WFMin
<1>4. ASSUME NEW y \in S
      PROVE  x <= y
  <2>1. x \in Nat /\ y \in Nat /\ ~(<<y, x>> \in R)
    BY <1>3
  <2>2. ~(y < x)
    BY <1>2, <2>1
  <2> QED BY <2>1, <2>2
<1> QED BY <1>4

\* A set that holds 0 and the successor of each member holds every natural.
LEMMA SetInduction ==
    ASSUME NEW P, 0 \in P, \A n \in Nat : n \in P => n + 1 \in P
    PROVE  Nat \subseteq P
<1> SUFFICES ASSUME Nat \ P # {} PROVE FALSE
  OBVIOUS
<1>1. PICK m \in Nat \ P : \A n \in Nat \ P : m <= n
  BY LeastNat
<1>2. m - 1 \in Nat /\ m - 1 \in P
  BY <1>1
<1> QED BY <1>1, <1>2

-----------------------------------------------------------------------------
(* The entries kept of a queue.                                            *)

\* What `Kept` keeps of the first places of q, up to place N.
KeptTo(q, I, N) ==
    LET upto[n \in 0 .. N] ==
            IF n = 0 THEN <<>>
            ELSE IF n \in I THEN Append(upto[n - 1], q[n]) ELSE upto[n - 1]
    IN  upto

\* That function exists, so that its equations hold.
LEMMA KeptEquations ==
    ASSUME NEW N \in Nat, NEW q, NEW I
    PROVE  \A n \in 0 .. N :
              KeptTo(q, I, N)[n] =
                 IF n = 0 THEN <<>>
                 ELSE IF n \in I THEN Append(KeptTo(q, I, N)[n - 1], q[n])
                                 ELSE KeptTo(q, I, N)[n - 1]
<1> DEFINE Next_(f, m) == [n \in 0 .. m |->
                             IF n = 0 THEN <<>>
                             ELSE IF n \in I THEN Append(f[n - 1], q[n]) ELSE f[n - 1]]
           P == {m \in Nat : \E f : f = Next_(f, m)}
<1>1. 0 \in P
  <2>1. [n \in 0 .. 0 |-> <<>>] = Next_([n \in 0 .. 0 |-> <<>>], 0)
    OBVIOUS
  <2> HIDE DEF Next_
  <2> QED BY <2>1
<1>2. ASSUME NEW m \in Nat, m \in P
      PROVE  m + 1 \in P
  <2>1. PICK f : f = Next_(f, m)
    BY <1>2
  <2> DEFINE g == [n \in 0 .. m + 1 |->
                      IF n <= m THEN f[n]
                      ELSE IF n \in I THEN Append(f[m], q[n]) ELSE f[m]]
  <2>2. \A n \in 0 .. m + 1 :
            g[n] = IF n = 0 THEN <<>>
                   ELSE IF n \in I THEN Append(g[n - 1], q[n]) ELSE g[n - 1]
    <3> TAKE n \in 0 .. m + 1
    <3>1. CASE n = 0
      BY <2>1, <3>1
    <3>2. CASE n \in 1 .. m
      <4>1. f[n] = Next_(f, m)[n]
        <5> HIDE DEF Next_
        <5> QED BY <2>1
      <4>2. f[n] = IF n \in I THEN Append(f[n - 1], q[n]) ELSE f[n - 1]
        BY <3>2, <4>1
      <4> QED BY <3>2, <4>2
    <3>3. CASE n = m + 1
      BY <3>3
    <3> QED BY <3>1, <3>2, <3>3
  <2>3. g = Next_(g, m + 1)
    <3>1. g = [n \in 0 .. m + 1 |-> g[n]]
      OBVIOUS
    <3> HIDE DEF g
    <3>2. \A n \in 0 .. m + 1 : Next_(g, m + 1)[n] = g[n]
      BY <2>2
    <3>3. Next_(g, m + 1) = [n \in 0 .. m + 1 |-> Next_(g, m + 1)[n]]
      OBVIOUS
    <3> HIDE DEF Next_
    <3> QED BY <3>1, <3>2, <3>3
  <2>4. \E h : h = Next_(h, m + 1)
    <3> HIDE DEF g, Next_
    <3> QED BY <2>3
  <2> QED BY <2>4
<1> HIDE DEF P
<1>3. N \in P
  BY <1>1, <1>2, SetInduction
<1>4. \E f : f = Next_(f, N)
  BY <1>3 DEF P
<1>5. KeptTo(q, I, N) = (CHOOSE f : f = Next_(f, N))
  BY DEF KeptTo
<1>6. KeptTo(q, I, N) = Next_(KeptTo(q, I, N), N)
  <2> HIDE DEF Next_
  <2> QED BY <1>4, <1>5
<1>7. \A n \in 0 .. N : KeptTo(q, I, N)[n] = Next_(KeptTo(q, I, N), N)[n]
  <2> HIDE DEF Next_
  <2> QED BY <1>6
<1> QED BY <1>7

\* What is kept of q: the entries at the places I, each once and in order.
Keeps(q, I, n, s) ==
    \E g \in [1 .. Len(s) -> I \cap (1 .. n)] :
        /\ \A k \in 1 .. Len(s) : s[k] = q[g[k]]
        /\ \A j, k \in 1 .. Len(s) : j < k => g[j] < g[k]
        /\ \A i \in I \cap (1 .. n) : \E k \in 1 .. Len(s) : g[k] = i

\* One more place of q is kept.
LEMMA KeepsOneMore ==
    ASSUME NEW T, NEW q, NEW I, NEW n \in Nat, NEW s \in Seq(T), Keeps(q, I, n, s),
           n + 1 \in I, q[n + 1] \in T
    PROVE  Append(s, q[n + 1]) \in Seq(T) /\ Keeps(q, I, n + 1, Append(s, q[n + 1]))
<1>1. PICK g \in [1 .. Len(s) -> I \cap (1 .. n)] :
            /\ \A k \in 1 .. Len(s) : s[k] = q[g[k]]
            /\ \A j, k \in 1 .. Len(s) : j < k => g[j] < g[k]
            /\ \A i \in I \cap (1 .. n) : \E k \in 1 .. Len(s) : g[k] = i
  BY DEF Keeps
<1> DEFINE t == Append(s, q[n + 1])
           h == [k \in 1 .. Len(t) |-> IF k <= Len(s) THEN g[k] ELSE n + 1]
<1>2. /\ t \in Seq(T) /\ Len(s) \in Nat /\ Len(t) = Len(s) + 1
      /\ t[Len(t)] = q[n + 1] /\ \A k \in 1 .. Len(s) : t[k] = s[k]
  OBVIOUS
<1> HIDE DEF t
<1>3. ASSUME NEW k \in 1 .. Len(s)
      PROVE  g[k] \in I \cap (1 .. n) /\ h[k] = g[k]
  <2>1. g[k] \in I \cap (1 .. n)
    BY <1>1
  <2>2. k \in 1 .. Len(t) /\ k <= Len(s)
    BY <1>2
  <2> QED BY <2>1, <2>2
<1>4. h[Len(t)] = n + 1
  BY <1>2
<1>5. h \in [1 .. Len(t) -> I \cap (1 .. n + 1)]
  BY <1>2, <1>3, <1>4
<1> HIDE DEF h
<1>6. \A k \in 1 .. Len(t) : k \in 1 .. Len(s) \/ k = Len(t)
  BY <1>2
<1>7. \A k \in 1 .. Len(t) : t[k] = q[h[k]]
  BY <1>1, <1>2, <1>3, <1>4, <1>6
<1>8. ASSUME NEW j \in 1 .. Len(t), NEW k \in 1 .. Len(t), j < k
      PROVE  h[j] < h[k]
  <2>1. j \in 1 .. Len(s)
    BY <1>2, <1>8
  <2>2. h[j] = g[j] /\ g[j] \in 1 .. n
    BY <1>3, <2>1
  <2>3. CASE k = Len(t)
    BY <1>4, <2>2, <2>3
  <2>4. CASE k \in 1 .. Len(s)
    BY <1>1, <1>3, <1>8, <2>1, <2>4
  <2> QED BY <1>6, <2>3, <2>4
<1>9. ASSUME NEW i \in I \cap (1 .. n + 1)
      PROVE  \E k \in 1 .. Len(t) : h[k] = i
  <2>1. CASE i = n + 1
    <3>1. Len(t) \in 1 .. Len(t)
      BY <1>2
    <3> QED BY <1>4, <2>1, <3>1
  <2>2. CASE i \in 1 .. n
    <3>1. PICK k \in 1 .. Len(s) : g[k] = i
      BY <1>1, <2>2
    <3>2. k \in 1 .. Len(t) /\ h[k] = i
      BY <1>2, <1>3, <3>1
    <3> QED BY <3>2
  <2> QED BY <2>1, <2>2
<1>10. Keeps(q, I, n + 1, t)
  BY <1>5, <1>7, <1>8, <1>9 DEF Keeps
<1> QED BY <1>2, <1>10 DEF t

\* `Kept` keeps the entries at the places I.
LEMMA KeptKeeps ==
    ASSUME NEW T, NEW q \in Seq(T), NEW I
    PROVE  Kept(q, I) \in Seq(T) /\ Keeps(q, I, Len(q), Kept(q, I))
<1> DEFINE upto == KeptTo(q, I, Len(q))
<1>1. Len(q) \in Nat /\ \A n \in 1 .. Len(q) : q[n] \in T
  OBVIOUS
<1>2. Kept(q, I) = upto[Len(q)]
  BY DEF Kept, KeptTo
<1>3. \A n \in 0 .. Len(q) :
          upto[n] = IF n = 0 THEN <<>>
                    ELSE IF n \in I THEN Append(upto[n - 1], q[n]) ELSE upto[n - 1]
  BY <1>1, KeptEquations
<1> HIDE DEF upto
<1> DEFINE P == {n \in Nat : n <= Len(q) => upto[n] \in Seq(T) /\ Keeps(q, I, n, upto[n])}
<1>4. 0 \in P
  <2>1. upto[0] = <<>>
    BY <1>1, <1>3
  <2>2. Keeps(q, I, 0, <<>>)
    <3> DEFINE g == [k \in 1 .. 0 |-> k]
    <3>1. 1 .. Len(<<>>) = {} /\ I \cap (1 .. 0) = {}
      OBVIOUS
    <3>2. g \in [1 .. Len(<<>>) -> I \cap (1 .. 0)]
      BY <3>1
    <3> HIDE DEF g
    <3> QED BY <3>1, <3>2 DEF Keeps
  <2>3. <<>> \in Seq(T)
    OBVIOUS
  <2> QED BY <2>1, <2>2, <2>3
<1>5. ASSUME NEW n \in Nat, n \in P
      PROVE  n + 1 \in P
  <2> SUFFICES ASSUME n + 1 <= Len(q)
               PROVE  upto[n + 1] \in Seq(T) /\ Keeps(q, I, n + 1, upto[n + 1])
    OBVIOUS
  <2>1. upto[n] \in Seq(T) /\ Keeps(q, I, n, upto[n])
    BY <1>1, <1>5
  <2>2. upto[n + 1] = IF n + 1 \in I THEN Append(upto[n], q[n + 1]) ELSE upto[n]
    <3>1. n + 1 \in 0 .. Len(q) /\ n + 1 # 0 /\ (n + 1) - 1 = n
      BY <1>1
    <3> QED BY <1>3, <3>1
  <2>3. CASE n + 1 \in I
    BY <1>1, <2>1, <2>2, <2>3, KeepsOneMore
  <2>4. CASE n + 1 \notin I
    <3>1. I \cap (1 .. n + 1) = I \cap (1 .. n)
      BY <2>4
    <3> DEFINE t == upto[n]
    <3> HIDE DEF t
    <3>2. Keeps(q, I, n, t)
      BY <2>1 DEF t
    <3>3. Keeps(q, I, n + 1, t)
      BY <3>1, <3>2 DEF Keeps
    <3>4. upto[n + 1] = t
      BY <2>2, <2>4 DEF t
    <3> QED BY <2>1, <3>3, <3>4 DEF t
  <2> QED BY <2>3, <2>4
<1> HIDE DEF P
<1>6. Len(q) \in P
  BY <1>1, <1>4, <1>5, SetInduction
<1> QED BY <1>1, <1>2, <1>6 DEF P

-----------------------------------------------------------------------------
(* The run queues.                                                         *)

\* No process is twice in a queue, in a list of processes.
Once(q)  == \A i, j \in 1 .. Len(q) : q[i].proc = q[j].proc => i = j
OnceP(s) == \A i, j \in 1 .. Len(s) : s[i] = s[j] => i = j

\* `InTieOrder` lists a set of processes, in order.
LEMMA TieOrder ==
    ASSUME NEW S \in SUBSET Procs
    PROVE  /\ InTieOrder(S) \in Seq(Procs)
           /\ \A j, k \in 1 .. Len(InTieOrder(S)) : j < k => InTieOrder(S)[j] < InTieOrder(S)[k]
           /\ {InTieOrder(S)[k] : k \in 1 .. Len(InTieOrder(S))} = S
<1> DEFINE q == [i \in Procs |-> i]
           s == InTieOrder(S)
<1>1. q \in Seq(Procs) /\ Len(q) = NProcs /\ \A i \in Procs : q[i] = i
  BY RunLoopAssumption DEF Procs
<1>2. s = Kept(q, S)
  BY DEF InTieOrder
<1> HIDE DEF q, s
<1>3. s \in Seq(Procs) /\ Keeps(q, S, NProcs, s)
  BY <1>1, <1>2, KeptKeeps
<1>4. S \cap (1 .. NProcs) = S
  BY DEF Procs
<1>5. PICK g \in [1 .. Len(s) -> S] :
            /\ \A k \in 1 .. Len(s) : s[k] = q[g[k]]
            /\ \A j, k \in 1 .. Len(s) : j < k => g[j] < g[k]
            /\ \A i \in S : \E k \in 1 .. Len(s) : g[k] = i
  BY <1>3, <1>4 DEF Keeps
<1>6. \A k \in 1 .. Len(s) : g[k] \in S /\ s[k] = g[k]
  BY <1>1, <1>5
<1>7. \A j, k \in 1 .. Len(s) : j < k => s[j] < s[k]
  BY <1>5, <1>6
<1>8. {s[k] : k \in 1 .. Len(s)} = S
  BY <1>5, <1>6
<1> QED BY <1>3, <1>7, <1>8 DEF s

\* `Aged` keeps the entries of one age, in order.
LEMMA AgedEntries ==
    ASSUME NEW q \in Seq(Entries), NEW a
    PROVE  /\ Aged(q, a) \in Seq(Entries)
           /\ \A k \in 1 .. Len(Aged(q, a)) : Aged(q, a)[k].seq = a
           /\ \A k \in 1 .. Len(Aged(q, a)) : \E i \in 1 .. Len(q) : Aged(q, a)[k] = q[i]
           /\ \A i \in 1 .. Len(q) :
                 q[i].seq = a => \E k \in 1 .. Len(Aged(q, a)) : Aged(q, a)[k] = q[i]
           /\ Once(q) => Once(Aged(q, a))
<1> DEFINE I == {i \in 1 .. Len(q) : q[i].seq = a}
           s == Aged(q, a)
<1>1. s = Kept(q, I)
  BY DEF Aged
<1> HIDE DEF s
<1>2. I \cap (1 .. Len(q)) = I
  OBVIOUS
<1>3. s \in Seq(Entries) /\ Keeps(q, I, Len(q), s)
  <2> HIDE DEF I
  <2> QED BY <1>1, KeptKeeps
<1>4. PICK g \in [1 .. Len(s) -> I] :
            /\ \A k \in 1 .. Len(s) : s[k] = q[g[k]]
            /\ \A j, k \in 1 .. Len(s) : j < k => g[j] < g[k]
            /\ \A i \in I : \E k \in 1 .. Len(s) : g[k] = i
  <2> HIDE DEF I
  <2> QED BY <1>2, <1>3 DEF Keeps
<1>5. \A k \in 1 .. Len(s) : g[k] \in 1 .. Len(q) /\ q[g[k]].seq = a /\ s[k] = q[g[k]]
  <2>1. \A k \in 1 .. Len(s) : g[k] \in I /\ s[k] = q[g[k]]
    BY <1>4
  <2> QED BY <2>1
<1>6. ASSUME NEW i \in 1 .. Len(q), q[i].seq = a
      PROVE  \E k \in 1 .. Len(s) : s[k] = q[i]
  <2>1. i \in I
    BY <1>6
  <2> QED BY <1>4, <2>1
<1>7. ASSUME Once(q)
      PROVE  Once(s)
  <2> SUFFICES ASSUME NEW j \in 1 .. Len(s), NEW k \in 1 .. Len(s), s[j].proc = s[k].proc
               PROVE  j = k
    BY DEF Once
  <2>1. g[j] = g[k]
    BY <1>5, <1>7 DEF Once
  <2>2. g[j] \in Int /\ ~(j < k) /\ ~(k < j)
    BY <1>4, <1>5, <2>1
  <2> QED BY <2>2, <1>3
<1> QED BY <1>3, <1>5, <1>6, <1>7 DEF s

\* A list of processes, as entries of one age.
LEMMA AsEntries ==
    ASSUME NEW ps \in Seq(Procs), NEW a \in {"old", "wake", "new"}
    PROVE  /\ As(ps, a) \in Seq(Entries) /\ Len(As(ps, a)) = Len(ps)
           /\ \A k \in 1 .. Len(ps) : As(ps, a)[k].proc = ps[k] /\ As(ps, a)[k].seq = a
           /\ ProcsOf(As(ps, a)) = {ps[k] : k \in 1 .. Len(ps)}
<1>1. Len(ps) \in Nat /\ \A k \in 1 .. Len(ps) : ps[k] \in Procs
  OBVIOUS
<1>2. As(ps, a) \in Seq(Entries) /\ Len(As(ps, a)) = Len(ps)
  <2>1. As(ps, a) = [k \in 1 .. Len(ps) |-> [proc |-> ps[k], seq |-> a]]
    BY DEF As, Entry
  <2> QED BY <1>1, <2>1 DEF Entries
<1>3. \A k \in 1 .. Len(ps) : As(ps, a)[k].proc = ps[k] /\ As(ps, a)[k].seq = a
  BY <1>1 DEF As, Entry
<1>4. ProcsOf(As(ps, a)) = {As(ps, a)[k].proc : k \in 1 .. Len(ps)}
  BY <1>2 DEF ProcsOf
<1>5. {As(ps, a)[k].proc : k \in 1 .. Len(ps)} = {ps[k] : k \in 1 .. Len(ps)}
  BY <1>3
<1> QED BY <1>2, <1>3, <1>4, <1>5

\* Two lists, one after the other.
LEMMA JoinedTwo ==
    ASSUME NEW E, NEW a \in Seq(E), NEW b \in Seq(E)
    PROVE  /\ a \o b \in Seq(E) /\ Len(a \o b) = Len(a) + Len(b)
           /\ \A k \in 1 .. Len(a) : (a \o b)[k] = a[k]
           /\ \A k \in 1 .. Len(b) : (a \o b)[Len(a) + k] = b[k]
  OBVIOUS

\* Three lists, one after the other.
LEMMA Joined ==
    ASSUME NEW E, NEW a \in Seq(E), NEW b \in Seq(E), NEW c \in Seq(E),
           NEW w, w = a \o b \o c
    PROVE  /\ w \in Seq(E) /\ Len(w) = Len(a) + Len(b) + Len(c)
           /\ \A k \in 1 .. Len(a) : w[k] = a[k]
           /\ \A k \in 1 .. Len(b) : w[Len(a) + k] = b[k]
           /\ \A k \in 1 .. Len(c) : w[Len(a) + Len(b) + k] = c[k]
           /\ \A k \in 1 .. Len(w) : \/ k \in 1 .. Len(a)
                                     \/ k - Len(a) \in 1 .. Len(b)
                                     \/ k - Len(a) - Len(b) \in 1 .. Len(c)
<1> DEFINE ab == a \o b
<1>1. /\ ab \in Seq(E) /\ Len(ab) = Len(a) + Len(b)
      /\ \A k \in 1 .. Len(a) : ab[k] = a[k]
      /\ \A k \in 1 .. Len(b) : ab[Len(a) + k] = b[k]
  BY JoinedTwo
<1>2. Len(a) \in Nat /\ Len(b) \in Nat /\ Len(c) \in Nat
  OBVIOUS
<1>3. w = ab \o c /\ ab \in Seq(E)
  BY <1>1
<1> HIDE DEF ab
<1>4. /\ w \in Seq(E) /\ Len(w) = Len(ab) + Len(c)
      /\ \A k \in 1 .. Len(ab) : w[k] = ab[k]
      /\ \A k \in 1 .. Len(c) : w[Len(ab) + k] = c[k]
  BY <1>3, JoinedTwo
<1>5. \A k \in 1 .. Len(a) : w[k] = a[k]
  BY <1>1, <1>2, <1>4
<1>6. \A k \in 1 .. Len(b) : w[Len(a) + k] = b[k]
  BY <1>1, <1>2, <1>4
<1>7. \A k \in 1 .. Len(c) : w[Len(a) + Len(b) + k] = c[k]
  BY <1>1, <1>4
<1>8. \A k \in 1 .. Len(w) : \/ k \in 1 .. Len(a)
                             \/ k - Len(a) \in 1 .. Len(b)
                             \/ k - Len(a) - Len(b) \in 1 .. Len(c)
  BY <1>1, <1>2, <1>4
<1> QED BY <1>1, <1>4, <1>5, <1>6, <1>7, <1>8

\* A queue that wakes have joined: what was scheduled before them, the wakes in the
\* order of their ties, what was scheduled since.
LEMMA WakesBetween ==
    ASSUME NEW q \in Seq(Entries), NEW S \in SUBSET Procs
    PROVE  LET w == WithWakes(q, S)
           IN  /\ w \in Seq(Entries)
               /\ Sorted(w)
               /\ ProcsOf(w) = ProcsOf(q) \cup S
               /\ Once(q) /\ S \cap ProcsOf(q) = {} => Once(w)
<1> DEFINE a == Aged(q, "old")
           c == Aged(q, "new")
           woken == S \cup ProcsOf(Aged(q, "wake"))
           t == InTieOrder(woken)
           b == As(t, "wake")
           w == WithWakes(q, S)
<1>1. \A i \in 1 .. Len(q) : q[i].proc \in Procs /\ q[i].seq \in {"old", "wake", "new"}
  <2>1. \A i \in 1 .. Len(q) : q[i] \in Entries
    OBVIOUS
  <2> QED BY <2>1 DEF Entries
<1>2. w = a \o b \o c
  BY DEF WithWakes
<1>3. /\ a \in Seq(Entries)
      /\ \A k \in 1 .. Len(a) : a[k].seq = "old"
      /\ \A k \in 1 .. Len(a) : \E i \in 1 .. Len(q) : a[k] = q[i]
      /\ \A i \in 1 .. Len(q) : q[i].seq = "old" => \E k \in 1 .. Len(a) : a[k] = q[i]
      /\ Once(q) => Once(a)
  BY AgedEntries
<1>4. /\ c \in Seq(Entries)
      /\ \A k \in 1 .. Len(c) : c[k].seq = "new"
      /\ \A k \in 1 .. Len(c) : \E i \in 1 .. Len(q) : c[k] = q[i]
      /\ \A i \in 1 .. Len(q) : q[i].seq = "new" => \E k \in 1 .. Len(c) : c[k] = q[i]
      /\ Once(q) => Once(c)
  BY AgedEntries
<1>5. \A p : p \in woken <=> p \in S \/ \E i \in 1 .. Len(q) : q[i].seq = "wake" /\ q[i].proc = p
  <2> DEFINE v == Aged(q, "wake")
  <2>1. /\ v \in Seq(Entries)
        /\ \A k \in 1 .. Len(v) : v[k].seq = "wake"
        /\ \A k \in 1 .. Len(v) : \E i \in 1 .. Len(q) : v[k] = q[i]
        /\ \A i \in 1 .. Len(q) : q[i].seq = "wake" => \E k \in 1 .. Len(v) : v[k] = q[i]
    BY AgedEntries
  <2> HIDE DEF v
  <2>2. \A p : p \in ProcsOf(v) <=> \E k \in 1 .. Len(v) : v[k].proc = p
    BY DEF ProcsOf
  <2>3. ASSUME NEW k \in 1 .. Len(v)
        PROVE  \E i \in 1 .. Len(q) : q[i].seq = "wake" /\ q[i].proc = v[k].proc
    BY <2>1
  <2>4. ASSUME NEW i \in 1 .. Len(q), q[i].seq = "wake"
        PROVE  \E k \in 1 .. Len(v) : v[k].proc = q[i].proc
    BY <2>1, <2>4
  <2>5. ASSUME NEW p
        PROVE  p \in ProcsOf(v) <=> \E i \in 1 .. Len(q) : q[i].seq = "wake" /\ q[i].proc = p
    <3>1. ASSUME NEW k \in 1 .. Len(v), v[k].proc = p
          PROVE  \E i \in 1 .. Len(q) : q[i].seq = "wake" /\ q[i].proc = p
      BY <2>3, <3>1
    <3>2. ASSUME NEW i \in 1 .. Len(q), q[i].seq = "wake", q[i].proc = p
          PROVE  \E k \in 1 .. Len(v) : v[k].proc = p
      BY <2>4, <3>2
    <3> QED BY <2>2, <3>1, <3>2
  <2> QED BY <2>5 DEF v
<1>6. woken \in SUBSET Procs
  BY <1>1, <1>5
<1> HIDE DEF a, c, woken, w
<1>7. /\ t \in Seq(Procs)
      /\ \A j, k \in 1 .. Len(t) : j < k => t[j] < t[k]
      /\ \A k \in 1 .. Len(t) : t[k] \in woken
      /\ \A p \in woken : \E k \in 1 .. Len(t) : t[k] = p
  <2>1. /\ t \in Seq(Procs)
        /\ \A j, k \in 1 .. Len(t) : j < k => t[j] < t[k]
        /\ {t[k] : k \in 1 .. Len(t)} = woken
    BY <1>6, TieOrder
  <2> HIDE DEF t
  <2> QED BY <2>1
<1> HIDE DEF t
<1>8. /\ b \in Seq(Entries) /\ Len(b) = Len(t)
      /\ \A k \in 1 .. Len(b) : b[k].proc = t[k] /\ b[k].seq = "wake"
  BY <1>7, AsEntries
<1> HIDE DEF b
<1>9. /\ w \in Seq(Entries) /\ Len(w) = Len(a) + Len(b) + Len(c)
      /\ \A k \in 1 .. Len(a) : w[k] = a[k]
      /\ \A k \in 1 .. Len(b) : w[Len(a) + k] = b[k]
      /\ \A k \in 1 .. Len(c) : w[Len(a) + Len(b) + k] = c[k]
      /\ \A k \in 1 .. Len(w) : \/ k \in 1 .. Len(a)
                                \/ k - Len(a) \in 1 .. Len(b)
                                \/ k - Len(a) - Len(b) \in 1 .. Len(c)
  <2>1. a \in Seq(Entries) /\ b \in Seq(Entries) /\ c \in Seq(Entries)
    BY <1>3, <1>4, <1>8
  <2> QED BY <1>2, <2>1, Joined
<1>10. Len(a) \in Nat /\ Len(b) \in Nat /\ Len(c) \in Nat
  BY <1>3, <1>4, <1>8
<1>11. \A k \in 1 .. Len(w) :
          \/ k <= Len(a) /\ k \in 1 .. Len(a) /\ w[k] = a[k] /\ w[k].seq = "old"
          \/ /\ k > Len(a) /\ k <= Len(a) + Len(b)
             /\ k - Len(a) \in 1 .. Len(b) /\ w[k] = b[k - Len(a)] /\ w[k].seq = "wake"
             /\ w[k].proc = t[k - Len(a)]
          \/ /\ k > Len(a) + Len(b)
             /\ k - Len(a) - Len(b) \in 1 .. Len(c)
             /\ w[k] = c[k - Len(a) - Len(b)] /\ w[k].seq = "new"
  <2> SUFFICES ASSUME NEW k \in 1 .. Len(w)
               PROVE  \/ k <= Len(a) /\ k \in 1 .. Len(a) /\ w[k] = a[k] /\ w[k].seq = "old"
                      \/ /\ k > Len(a) /\ k <= Len(a) + Len(b)
                         /\ k - Len(a) \in 1 .. Len(b) /\ w[k] = b[k - Len(a)]
                         /\ w[k].seq = "wake" /\ w[k].proc = t[k - Len(a)]
                      \/ /\ k > Len(a) + Len(b)
                         /\ k - Len(a) - Len(b) \in 1 .. Len(c)
                         /\ w[k] = c[k - Len(a) - Len(b)] /\ w[k].seq = "new"
    OBVIOUS
  <2>1. CASE k \in 1 .. Len(a)
    BY <1>3, <1>9, <2>1
  <2>2. CASE k - Len(a) \in 1 .. Len(b)
    <3>1. Len(a) + (k - Len(a)) = k
      BY <1>10
    <3>2. w[k] = b[k - Len(a)]
      BY <1>9, <2>2, <3>1
    <3> QED BY <1>8, <1>10, <2>2, <3>2
  <2>3. CASE k - Len(a) - Len(b) \in 1 .. Len(c)
    <3>1. Len(a) + Len(b) + (k - Len(a) - Len(b)) = k
      BY <1>10
    <3>2. w[k] = c[k - Len(a) - Len(b)]
      BY <1>9, <2>3, <3>1
    <3> QED BY <1>4, <1>10, <2>3, <3>2
  <2> QED BY <1>9, <2>1, <2>2, <2>3
<1>12. ASSUME NEW k \in 1 .. Len(w)
       PROVE  /\ w[k].seq # "wake" => \E i \in 1 .. Len(q) : w[k] = q[i]
              /\ w[k].seq = "wake" => w[k].proc \in woken
  <2>1. CASE w[k].seq = "old"
    <3>1. k \in 1 .. Len(a) /\ w[k] = a[k]
      BY <1>11, <2>1
    <3>2. \E i \in 1 .. Len(q) : w[k] = q[i]
      BY <1>3, <3>1
    <3> QED BY <2>1, <3>2
  <2>2. CASE w[k].seq = "new"
    <3>1. k - Len(a) - Len(b) \in 1 .. Len(c) /\ w[k] = c[k - Len(a) - Len(b)]
      BY <1>11, <2>2
    <3>2. \E i \in 1 .. Len(q) : w[k] = q[i]
      BY <1>4, <3>1
    <3> QED BY <2>2, <3>2
  <2>3. CASE w[k].seq = "wake"
    <3>1. k - Len(a) \in 1 .. Len(t) /\ w[k].proc = t[k - Len(a)]
      BY <1>8, <1>11, <2>3
    <3> QED BY <1>7, <2>3, <3>1
  <2> QED BY <1>11, <2>1, <2>2, <2>3
<1>13. Sorted(w)
  <2> SUFFICES ASSUME NEW j \in 1 .. Len(w), NEW k \in 1 .. Len(w), j < k
               PROVE  Before(w[j], w[k])
    BY DEF Sorted
  <2>1. CASE w[j].seq = "old"
    BY <2>1 DEF Before
  <2>2. CASE w[k].seq = "new"
    <3>1. w[j].seq \in {"old", "wake", "new"}
      BY <1>11
    <3> QED BY <2>2, <3>1 DEF Before
  <2>3. CASE w[j].seq # "old" /\ w[k].seq # "new"
    <3>1. /\ j > Len(a)
          /\ k <= Len(a) + Len(b)
      BY <1>11, <2>3, <1>10
    <3>2. /\ j - Len(a) \in 1 .. Len(b) /\ w[j].proc = t[j - Len(a)] /\ w[j].seq = "wake"
          /\ k - Len(a) \in 1 .. Len(b) /\ w[k].proc = t[k - Len(a)] /\ w[k].seq = "wake"
      BY <1>10, <1>11, <3>1
    <3>3. j - Len(a) < k - Len(a)
      BY <1>10
    <3>4. w[j].proc < w[k].proc
      BY <1>7, <1>8, <3>2, <3>3
    <3> QED BY <3>2, <3>4 DEF Before
  <2> QED BY <2>1, <2>2, <2>3
<1>14. ProcsOf(w) = ProcsOf(q) \cup S
  <2>1. ASSUME NEW k \in 1 .. Len(w)
        PROVE  w[k].proc \in ProcsOf(q) \cup S
    <3>1. CASE w[k].seq = "wake"
      <4>1. w[k].proc \in woken
        BY <1>12, <3>1
      <4> QED BY <1>5, <4>1 DEF ProcsOf
    <3>2. CASE w[k].seq # "wake"
      <4>1. PICK i \in 1 .. Len(q) : w[k] = q[i]
        BY <1>12, <3>2
      <4> QED BY <4>1 DEF ProcsOf
    <3> QED BY <3>1, <3>2
  <2>2. ASSUME NEW p \in woken
        PROVE  \E k \in 1 .. Len(w) : w[k].proc = p
    <3>1. PICK n \in 1 .. Len(b) : t[n] = p
      BY <1>7, <1>8
    <3>2. w[Len(a) + n].proc = p /\ Len(a) + n \in 1 .. Len(w)
      BY <1>8, <1>9, <1>10, <3>1
    <3> QED BY <3>2
  <2>3. ASSUME NEW i \in 1 .. Len(q)
        PROVE  \E k \in 1 .. Len(w) : w[k].proc = q[i].proc
    <3>1. CASE q[i].seq = "old"
      <4>1. PICK n \in 1 .. Len(a) : a[n] = q[i]
        BY <1>3, <3>1
      <4>2. w[n].proc = q[i].proc /\ n \in 1 .. Len(w)
        BY <1>9, <1>10, <4>1
      <4> QED BY <4>2
    <3>2. CASE q[i].seq = "wake"
      BY <1>5, <2>2, <3>2
    <3>3. CASE q[i].seq = "new"
      <4>1. PICK n \in 1 .. Len(c) : c[n] = q[i]
        BY <1>4, <3>3
      <4>2. w[Len(a) + Len(b) + n].proc = q[i].proc /\ Len(a) + Len(b) + n \in 1 .. Len(w)
        BY <1>9, <1>10, <4>1
      <4> QED BY <4>2
    <3> QED BY <1>1, <3>1, <3>2, <3>3
  <2>4. \A p : p \in ProcsOf(w) <=> \E k \in 1 .. Len(w) : w[k].proc = p
    BY DEF ProcsOf
  <2>5. \A p : p \in ProcsOf(q) <=> \E i \in 1 .. Len(q) : q[i].proc = p
    BY DEF ProcsOf
  <2>6. \A p : p \in S => p \in woken
    BY <1>5
  <2> QED BY <2>1, <2>2, <2>3, <2>4, <2>5, <2>6
<1>15. ASSUME Once(q), S \cap ProcsOf(q) = {}
       PROVE  Once(w)
  <2>1. \A i, n \in 1 .. Len(q) : q[i].proc = q[n].proc => i = n
    BY <1>15 DEF Once
  <2>2. \A i \in 1 .. Len(q) : q[i].seq # "wake" => q[i].proc \notin woken
    BY <1>5, <1>15, <2>1 DEF ProcsOf
  <2> SUFFICES ASSUME NEW j \in 1 .. Len(w), NEW k \in 1 .. Len(w), w[j].proc = w[k].proc
               PROVE  j = k
    BY DEF Once
  <2>3. w[j].seq = w[k].seq
    <3>1. CASE w[j].seq = "wake" \/ w[k].seq = "wake"
      BY <1>12, <2>2, <3>1
    <3>2. CASE w[j].seq # "wake" /\ w[k].seq # "wake"
      <4>1. PICK i \in 1 .. Len(q) : w[j] = q[i]
        BY <1>12, <3>2
      <4>2. PICK n \in 1 .. Len(q) : w[k] = q[n]
        BY <1>12, <3>2
      <4> QED BY <2>1, <4>1, <4>2
    <3> QED BY <3>1, <3>2
  <2>4. CASE w[j].seq = "old"
    <3>1. Once(a) /\ j \in 1 .. Len(a) /\ k \in 1 .. Len(a) /\ w[j] = a[j] /\ w[k] = a[k]
      BY <1>3, <1>11, <1>15, <2>3, <2>4
    <3> QED BY <3>1 DEF Once
  <2>5. CASE w[j].seq = "new"
    <3> DEFINE x == j - Len(a) - Len(b)
               y == k - Len(a) - Len(b)
    <3>1. Once(c) /\ x \in 1 .. Len(c) /\ y \in 1 .. Len(c) /\ w[j] = c[x] /\ w[k] = c[y]
      BY <1>4, <1>11, <1>15, <2>3, <2>5
    <3>2. x = y
      <4> HIDE DEF x, y
      <4> QED BY <3>1 DEF Once
    <3> QED BY <1>10, <3>2
  <2>6. CASE w[j].seq = "wake"
    <3> DEFINE x == j - Len(a)
               y == k - Len(a)
    <3>1. x \in 1 .. Len(t) /\ y \in 1 .. Len(t) /\ t[x] = t[y]
      BY <1>8, <1>11, <2>3, <2>6
    <3>2. x = y
      <4> HIDE DEF x, y
      <4>1. t[x] \in Procs /\ t[y] \in Procs
        BY <1>7, <3>1
      <4>2. ~(x < y) /\ ~(y < x)
        BY <1>7, <3>1, <4>1 DEF Procs
      <4> QED BY <3>1, <4>2
    <3> QED BY <1>10, <3>2
  <2> QED BY <1>11, <2>4, <2>5, <2>6
<1> QED BY <1>9, <1>13, <1>14, <1>15 DEF w

-----------------------------------------------------------------------------
(* What the actions have in common.                                        *)

\* The processes of a list, and the suspended ones.
Listed(ps) == {ps[i] : i \in 1 .. Len(ps)}
Waiting    == {p \in Procs : waiting[p] # NoWait}

\* The processes of R and W join the queue q: the suspended bodies of W resume, the
\* edge processes of R start.
Joins(q, seen, R, W) ==
    /\ R \subseteq EdgeProcs \ (busy \cup seen)
    /\ W \subseteq Waiting
    /\ active' \in Seq(Entries) /\ Sorted(active')
    /\ ProcsOf(active') = ProcsOf(q) \cup R \cup W
    /\ Once(q) /\ (R \cup W) \cap ProcsOf(q) = {} => Once(active')
    /\ waiting' = [p \in Procs |-> IF p \in W THEN NoWait ELSE waiting[p]]
    /\ edge_seen' = seen \cup R

\* `propagate_changes` starts no busy process and resumes no other than suspended.
LEMMA PropagateJoins ==
    ASSUME TypeOK, NEW D \in SUBSET Nets, NEW H \in SUBSET Procs,
           NEW q \in Seq(Entries), NEW seen \in SUBSET EdgeProcs,
           Propagate(D, H, q, seen)
    PROVE  /\ \E R, W \in SUBSET Procs : Joins(q, seen, R, W)
           /\ hit' = {} /\ dirty' \in {{}, {"c"}}
<1>1. PICK commit \in BOOLEAN :
         LET C == IF commit THEN {"c"} ELSE {}
             R == Rouses(D, seen)
             W == Resumes(D, IF commit THEN H \cup Armed("c") ELSE H)
         IN  /\ active' = WithWakes(q, R \cup W)
             /\ waiting' = [p \in Procs |-> IF p \in W THEN NoWait ELSE waiting[p]]
             /\ hit' = {}
             /\ edge_seen' = seen \cup R
             /\ dirty' = C
  BY DEF Propagate
<1> DEFINE R == Rouses(D, seen)
           W == Resumes(D, IF commit THEN H \cup Armed("c") ELSE H)
<1>2. R \subseteq EdgeProcs \ (busy \cup seen) /\ R \in SUBSET Procs
  BY RunLoopAssumption DEF Rouses, Procs
<1>3. W \subseteq Waiting /\ W \in SUBSET Procs
  BY DEF Resumes, Waiting, NoWait
<1>4. R \cup W \in SUBSET Procs
  BY <1>2, <1>3
<1> HIDE DEF R, W
<1>5. /\ active' = WithWakes(q, R \cup W)
      /\ waiting' = [p \in Procs |-> IF p \in W THEN NoWait ELSE waiting[p]]
      /\ hit' = {} /\ edge_seen' = seen \cup R /\ dirty' \in {{}, {"c"}}
  BY <1>1 DEF R, W
<1>6. /\ active' \in Seq(Entries) /\ Sorted(active')
      /\ ProcsOf(active') = ProcsOf(q) \cup (R \cup W)
      /\ Once(q) /\ (R \cup W) \cap ProcsOf(q) = {} => Once(active')
  BY <1>4, <1>5, WakesBetween
<1>7. Joins(q, seen, R, W)
  BY <1>2, <1>3, <1>5, <1>6 DEF Joins
<1> QED BY <1>2, <1>3, <1>5, <1>7

\* Nobody joins.
LEMMA NobodyJoins ==
    ASSUME TypeOK, NEW q \in Seq(Entries), Sorted(q), NEW seen, active' = q,
           waiting' = waiting, edge_seen' = seen
    PROVE  Joins(q, seen, {}, {})
  BY DEF Joins, TypeOK

\* What the region the loop is in says of the queues.
LEMMA RegionEmpty ==
    /\ Region = "Active" => active # <<>>
    /\ Region # "Active" => active = <<>>
    /\ Region \notin {"Active", "Inactive"} => inactive = <<>>
    /\ Region \in {"Late", "Stable"} => ~nba /\ observed = {} /\ reactive = {}
    /\ Region = "Stable" => dirty = {} /\ ~CaDue
  BY DEF Region, Late

\* Where the next tick is: the least that something is scheduled for.
LEMMA NextTick ==
    ASSUME TypeOK, Ticks # {}
    PROVE  Next_tick \in Ticks /\ \A u \in Ticks : Next_tick <= u
<1>1. Ticks \in SUBSET Nat
  <2>1. Ticks \subseteq Times
    BY DEF Ticks, TypeOK
  <2>2. Times \subseteq Nat
    BY RunLoopAssumption DEF Times
  <2> QED BY <2>1, <2>2
<1>2. \E t \in Ticks : \A u \in Ticks : t <= u
  BY <1>1, LeastNat
<1> QED BY <1>2 DEF Next_tick

\* A queue whose entries are of one age, other than the wakes', is in order.
LEMMA OneAgeSorted ==
    ASSUME NEW q, NEW a, a # "wake", \A i \in 1 .. Len(q) : q[i].seq = a
    PROVE  Sorted(q)
  BY DEF Sorted, Before

\* A queue made old.
LEMMA RefreshedQueue ==
    ASSUME NEW q \in Seq(Entries)
    PROVE  /\ Refreshed(q) \in Seq(Entries) /\ Sorted(Refreshed(q))
           /\ ProcsOf(Refreshed(q)) = ProcsOf(q)
           /\ Once(q) => Once(Refreshed(q))
<1>1. Len(q) \in Nat /\ \A i \in 1 .. Len(q) : q[i] \in Entries /\ q[i].proc \in Procs
  <2>1. Len(q) \in Nat /\ \A i \in 1 .. Len(q) : q[i] \in Entries
    OBVIOUS
  <2> QED BY <2>1 DEF Entries
<1> DEFINE w == Refreshed(q)
<1>2. w \in Seq(Entries) /\ Len(w) = Len(q)
  <2>1. w = [i \in 1 .. Len(q) |-> [proc |-> q[i].proc, seq |-> "old"]]
    BY DEF Refreshed, Entry
  <2> QED BY <1>1, <2>1 DEF Entries
<1>3. \A i \in 1 .. Len(q) : w[i].proc = q[i].proc /\ w[i].seq = "old"
  BY DEF Refreshed, Entry
<1> HIDE DEF w
<1>4. Sorted(w)
  BY <1>2, <1>3, OneAgeSorted
<1>5. {w[i].proc : i \in 1 .. Len(q)} = {q[i].proc : i \in 1 .. Len(q)}
  BY <1>3
<1>6. ProcsOf(w) = ProcsOf(q)
  BY <1>2, <1>5 DEF ProcsOf
<1>7. Once(q) => Once(w)
  BY <1>2, <1>3 DEF Once
<1> QED BY <1>2, <1>4, <1>6, <1>7 DEF w

\* One more entry at the back, of the newest age.
LEMMA Appended ==
    ASSUME NEW q \in Seq(Entries), NEW p \in Procs
    PROVE  LET w == Append(q, Entry(p, "new"))
           IN  /\ w \in Seq(Entries)
               /\ Sorted(q) => Sorted(w)
               /\ ProcsOf(w) = ProcsOf(q) \cup {p}
               /\ Once(q) /\ p \notin ProcsOf(q) => Once(w)
<1> DEFINE e == Entry(p, "new")
           w == Append(q, e)
<1>1. e \in Entries /\ e.proc = p /\ e.seq = "new"
  BY DEF Entries, Entry
<1> HIDE DEF e
<1>2. /\ w \in Seq(Entries) /\ Len(q) \in Nat /\ Len(w) = Len(q) + 1 /\ w[Len(w)] = e
      /\ \A i \in 1 .. Len(q) : w[i] = q[i]
  BY <1>1
<1>3. \A i \in 1 .. Len(w) : i \in 1 .. Len(q) \/ i = Len(w)
  BY <1>2
<1> HIDE DEF w
<1>4. ASSUME Sorted(q)
      PROVE  Sorted(w)
  <2> SUFFICES ASSUME NEW i \in 1 .. Len(w), NEW j \in 1 .. Len(w), i < j
               PROVE  Before(w[i], w[j])
    BY DEF Sorted
  <2>1. i \in 1 .. Len(q)
    BY <1>2
  <2>2. CASE j \in 1 .. Len(q)
    BY <1>2, <1>4, <2>1, <2>2 DEF Sorted
  <2>3. CASE j = Len(w)
    BY <1>1, <1>2, <2>3 DEF Before
  <2> QED BY <1>3, <2>2, <2>3
<1>5. ProcsOf(w) = ProcsOf(q) \cup {p}
  <2>1. \A x : x \in ProcsOf(w) <=> \E i \in 1 .. Len(w) : w[i].proc = x
    BY DEF ProcsOf
  <2>2. \A x : x \in ProcsOf(q) <=> \E i \in 1 .. Len(q) : q[i].proc = x
    BY DEF ProcsOf
  <2>3. Len(w) \in 1 .. Len(w) /\ \A i \in 1 .. Len(q) : i \in 1 .. Len(w)
    BY <1>2
  <2>4. ProcsOf(w) \subseteq ProcsOf(q) \cup {p}
    BY <1>1, <1>2, <1>3, <2>1, <2>2
  <2>5. ProcsOf(q) \cup {p} \subseteq ProcsOf(w)
    BY <1>1, <1>2, <2>1, <2>2, <2>3
  <2> QED BY <2>4, <2>5
<1>6. ASSUME Once(q), p \notin ProcsOf(q)
      PROVE  Once(w)
  <2>1. \A i \in 1 .. Len(q) : q[i].proc # p
    BY <1>6 DEF ProcsOf
  <2> QED BY <1>1, <1>2, <1>3, <1>6, <2>1 DEF Once
<1> QED BY <1>2, <1>4, <1>5, <1>6 DEF w, e

-----------------------------------------------------------------------------
(* Types, limits and the order of the queues.                              *)

\* While the run goes on its delta limit is not reached.
Limited == reason = "run" => delta_count <= MaxDeltas

\* A batch is being run in its phase only, and nothing is made active meanwhile.
OneBatch == (phase # "batch" => batch = <<>>) /\ (phase = "batch" => active = <<>>)

TInv == TypeOK /\ Limited /\ OneBatch /\ QueueSorted /\ Sorted(inactive)

\* The invariant holds at the start of the run.
LEMMA TInvInit == Init => TInv
<1> SUFFICES ASSUME Init PROVE TInv
  OBVIOUS
<1> DEFINE S == Procs \ EdgeProcs
<1>1. InTieOrder(S) \in Seq(Procs)
  BY TieOrder
<1>2. active \in Seq(Entries) /\ Len(active) = Len(InTieOrder(S))
      /\ \A i \in 1 .. Len(active) : active[i].seq = "old"
  BY <1>1, AsEntries DEF Init
<1>3. Sorted(active)
  BY <1>2, OneAgeSorted
<1>4. inactive \in Seq(Entries) /\ Sorted(inactive) /\ batch \in Seq(Procs)
  BY DEF Init, Sorted
<1>5. 0 \in Times /\ Times \subseteq Nat
  BY RunLoopAssumption DEF Times
<1>6. wheel \in [Times -> Seq(Procs)]
  BY DEF Init
<1>7. waiting \in [Procs -> Wait \cup {NoWait}]
  BY DEF Init
<1>8. /\ now \in 0 .. MaxTime /\ delta_count \in 0 .. MaxDeltas + 1 /\ fuel \in 0 .. Fuel
      /\ delayed_ca \in Times \cup {-1} /\ writer \in Procs \cup {0}
  BY RunLoopAssumption DEF Init
<1>9. TypeOK
  BY <1>2, <1>4, <1>6, <1>7, <1>8 DEF Init, TypeOK
<1> QED BY <1>3, <1>4, <1>9, RunLoopAssumption DEF Init, TInv, Limited, OneBatch, QueueSorted

\* What joins the active queue keeps the types.
LEMMA JoinsType ==
    ASSUME TypeOK, NEW q, NEW seen \in SUBSET EdgeProcs,
           NEW R \in SUBSET Procs, NEW W \in SUBSET Procs, Joins(q, seen, R, W)
    PROVE  /\ active' \in Seq(Entries) /\ Sorted(active')
           /\ waiting' \in [Procs -> Wait \cup {NoWait}]
           /\ edge_seen' \subseteq EdgeProcs
  BY DEF Joins, TypeOK

\* So does a `propagate_changes`.
LEMMA PropagateType ==
    ASSUME TypeOK, NEW D \in SUBSET Nets, NEW H \in SUBSET Procs,
           NEW q \in Seq(Entries), NEW seen \in SUBSET EdgeProcs,
           Propagate(D, H, q, seen)
    PROVE  /\ active' \in Seq(Entries) /\ Sorted(active')
           /\ waiting' \in [Procs -> Wait \cup {NoWait}]
           /\ edge_seen' \subseteq EdgeProcs
           /\ hit' \subseteq Procs /\ dirty' \subseteq Nets
<1>1. /\ \E R, W \in SUBSET Procs : Joins(q, seen, R, W)
      /\ hit' = {} /\ dirty' \in {{}, {"c"}}
  BY PropagateJoins
<1>2. hit' \subseteq Procs /\ dirty' \subseteq Nets
  BY <1>1 DEF Nets
<1> QED BY <1>1, <1>2, JoinsType

\* The processes hit by a change are processes.
LEMMA HitsType == ASSUME TypeOK, NEW S PROVE Hits(S) \in SUBSET Procs
  BY DEF Hits, Armed, TypeOK

\* The next delta keeps the limit.
LEMMA DeltaType ==
    ASSUME TypeOK, Limited, reason = "run", Delta
    PROVE  /\ delta_count' \in 0 .. MaxDeltas + 1
           /\ reason' \in {"run", "delta_limit"} /\ phase' = "settle" /\ Limited'
  BY RunLoopAssumption DEF TypeOK, Limited, Delta

\* A write of y that lands keeps the types.
LEMMA LandType ==
    ASSUME TypeOK, NEW t \in Times, NEW q \in Seq(Entries), Sorted(q), Land(t, q)
    PROVE  /\ active' \in Seq(Entries) /\ Sorted(active')
           /\ waiting' \in [Procs -> Wait \cup {NoWait}]
           /\ edge_seen' \subseteq EdgeProcs
           /\ hit' \subseteq Procs /\ dirty' \subseteq Nets
           /\ delayed_ca' \in Times \cup {-1} /\ stale_ca' \subseteq Times
<1>1. delayed_ca' \in Times \cup {-1} /\ stale_ca' \subseteq Times
  BY DEF Land, TypeOK
<1>2. CASE delayed_ca = t
  <2>1. Propagate(dirty \cup {"y"}, Hits({"y"}), q, {})
    BY <1>2 DEF Land
  <2>2. dirty \cup {"y"} \in SUBSET Nets /\ {} \in SUBSET EdgeProcs
    BY DEF TypeOK, Nets
  <2> QED BY <1>1, <2>1, <2>2, HitsType, PropagateType
<1>3. CASE delayed_ca # t
  BY <1>1, <1>3 DEF Land, TypeOK
<1> QED BY <1>2, <1>3

\* The wheel with the list of one tick replaced.
LEMMA WheelTick ==
    ASSUME TypeOK, NEW t, NEW ps \in Seq(Procs)
    PROVE  [wheel EXCEPT ![t] = ps] \in [Times -> Seq(Procs)]
<1>1. wheel \in [Times -> Seq(Procs)]
  BY DEF TypeOK
<1> QED BY <1>1

\* The steps of the loop keep the types.
LEMMA LoopTypes ==
    ASSUME TInv,
           \/ Settle \/ TakeBatch \/ EndBatch \/ Promote \/ ApplyNba
           \/ PropagateLate \/ FinishStep \/ Quiesce \/ Advance
    PROVE  TInv'
<1>0. TypeOK /\ Limited /\ OneBatch /\ QueueSorted /\ Sorted(active) /\ Sorted(inactive)
  BY DEF TInv, QueueSorted
<1>1. CASE Settle
  <2>1. now + CaDelay \in Times
    BY <1>0, RunLoopAssumption DEF TypeOK, Times
  <2>2. /\ ca_dirty' = FALSE /\ delayed_ca' \in Times \cup {-1} /\ stale_ca' \subseteq Times
    BY <1>0, <1>1, <2>1 DEF Settle, TypeOK
  <2>3. CASE UNCHANGED <<active, waits, dirty, delta_count, reason>>
    BY <1>0, <1>1, <2>2, <2>3 DEF TInv, TypeOK, Limited, OneBatch, QueueSorted, Settle, At,
       regions, waits
  <2>4. CASE delta_count' = delta_count + 1 /\ delta_count' > MaxDeltas
               /\ reason' = "delta_limit" /\ UNCHANGED <<active, waits, dirty>>
    <3>1. delta_count' \in 0 .. MaxDeltas + 1
      BY <1>0, <1>1, <2>4, RunLoopAssumption DEF TypeOK, Limited, Settle, At
    <3> QED BY <1>0, <1>1, <2>2, <2>4, <3>1 DEF TInv, TypeOK, Limited, OneBatch, QueueSorted,
            Settle, At, regions, waits
  <2>5. CASE /\ delta_count' = delta_count + 1 /\ ~(delta_count' > MaxDeltas)
             /\ Propagate(dirty \cup {"w"}, Hits({"w"}), active, edge_seen)
             /\ UNCHANGED reason
    <3>1. delta_count' \in 0 .. MaxDeltas + 1 /\ delta_count' <= MaxDeltas
      BY <1>0, <2>5, RunLoopAssumption DEF TypeOK
    <3>2. dirty \cup {"w"} \in SUBSET Nets /\ edge_seen \in SUBSET EdgeProcs
            /\ active \in Seq(Entries)
      BY <1>0 DEF TypeOK, Nets
    <3>3. /\ active' \in Seq(Entries) /\ Sorted(active')
          /\ waiting' \in [Procs -> Wait \cup {NoWait}]
          /\ edge_seen' \subseteq EdgeProcs
          /\ hit' \subseteq Procs /\ dirty' \subseteq Nets
      BY <1>0, <2>5, <3>2, HitsType, PropagateType
    <3> QED BY <1>0, <1>1, <2>2, <2>5, <3>1, <3>3 DEF TInv, TypeOK, Limited, OneBatch,
            QueueSorted, Settle, At, regions
  <2> QED BY <1>1, <2>3, <2>4, <2>5 DEF Settle
<1>2. CASE TakeBatch
  <2>1. batch' \in Seq(Procs)
    <3>1. Len(active) \in Nat /\ \A i \in 1 .. Len(active) : active[i] \in Entries
      BY <1>0 DEF TypeOK
    <3>2. \A i \in 1 .. Len(active) : active[i].proc \in Procs
      BY <3>1 DEF Entries
    <3>3. batch' = [i \in 1 .. Len(active) |-> active[i].proc]
      BY <1>2 DEF TakeBatch
    <3> QED BY <3>1, <3>2, <3>3
  <2>2. inactive' \in Seq(Entries) /\ Sorted(inactive')
    <3>1. inactive \in Seq(Entries) /\ inactive' = Refreshed(inactive)
      BY <1>0, <1>2 DEF TypeOK, TakeBatch
    <3> QED BY <3>1, RefreshedQueue
  <2>3. active' \in Seq(Entries) /\ Sorted(active')
    BY <1>2 DEF TakeBatch, Sorted
  <2> QED BY <1>0, <1>2, <2>1, <2>2, <2>3 DEF TInv, TypeOK, Limited, OneBatch, QueueSorted,
          TakeBatch, Does, At, clock, regions, nets, waits
<1>3. CASE EndBatch \/ PropagateLate
  <2>1. Propagate(dirty, hit, active, edge_seen) /\ Delta /\ reason = "run" /\ batch = <<>>
    BY <1>0, <1>3 DEF EndBatch, PropagateLate, Does, At, OneBatch
  <2>2. dirty \in SUBSET Nets /\ hit \in SUBSET Procs /\ edge_seen \in SUBSET EdgeProcs
          /\ active \in Seq(Entries)
    BY <1>0 DEF TypeOK
  <2>3. /\ active' \in Seq(Entries) /\ Sorted(active')
        /\ waiting' \in [Procs -> Wait \cup {NoWait}]
        /\ edge_seen' \subseteq EdgeProcs
        /\ hit' \subseteq Procs /\ dirty' \subseteq Nets
    BY <1>0, <2>1, <2>2, PropagateType
  <2>4. /\ delta_count' \in 0 .. MaxDeltas + 1
        /\ reason' \in {"run", "delta_limit"} /\ phase' = "settle" /\ Limited'
    BY <1>0, <2>1, DeltaType
  <2>5. UNCHANGED <<clock, batch, inactive, regions, writer, ca_dirty, busy,
                    finish_pending, stopped, fuel>>
    BY <1>3 DEF EndBatch, PropagateLate
  <2> QED BY <1>0, <2>1, <2>3, <2>4, <2>5 DEF TInv, TypeOK, OneBatch, QueueSorted, clock,
          regions
<1>4. CASE Promote
  <2>1. reason = "run" /\ Land(now, inactive) /\ Delta /\ batch = <<>> /\ inactive' = <<>>
    BY <1>0, <1>4 DEF Promote, Does, At, OneBatch, InactiveDelta
  <2>2. now \in Times /\ inactive \in Seq(Entries)
    BY <1>0, RunLoopAssumption DEF TypeOK, Times
  <2>3. /\ active' \in Seq(Entries) /\ Sorted(active')
        /\ waiting' \in [Procs -> Wait \cup {NoWait}]
        /\ edge_seen' \subseteq EdgeProcs
        /\ hit' \subseteq Procs /\ dirty' \subseteq Nets
        /\ delayed_ca' \in Times \cup {-1} /\ stale_ca' \subseteq Times
    BY <1>0, <2>1, <2>2, LandType
  <2>4. /\ delta_count' \in 0 .. MaxDeltas + 1
        /\ reason' \in {"run", "delta_limit"} /\ phase' = "settle" /\ Limited'
    BY <1>0, <2>1, DeltaType
  <2>5. inactive' \in Seq(Entries) /\ Sorted(inactive')
    BY <2>1 DEF Sorted
  <2>6. UNCHANGED <<now, batch, wheel, delayed_nba, regions, writer,
                    ca_dirty, busy, finish_pending, stopped, fuel>>
    BY <1>4 DEF Promote
  <2> QED BY <1>0, <2>1, <2>3, <2>4, <2>5, <2>6 DEF TInv, TypeOK, OneBatch, QueueSorted,
          regions
<1>5. CASE ApplyNba
  <2>1. /\ reason = "run" /\ Propagate(dirty \cup {"v"}, Hits({"v"}), active, {}) /\ Delta
        /\ batch = <<>> /\ nba' = FALSE /\ writer' = 0 /\ ca_dirty' = TRUE
    BY <1>0, <1>5 DEF ApplyNba, Does, At, OneBatch
  <2>2. dirty \cup {"v"} \in SUBSET Nets /\ {} \in SUBSET EdgeProcs /\ active \in Seq(Entries)
    BY <1>0 DEF TypeOK, Nets
  <2>3. /\ active' \in Seq(Entries) /\ Sorted(active')
        /\ waiting' \in [Procs -> Wait \cup {NoWait}]
        /\ edge_seen' \subseteq EdgeProcs
        /\ hit' \subseteq Procs /\ dirty' \subseteq Nets
    BY <1>0, <2>1, <2>2, HitsType, PropagateType
  <2>4. /\ delta_count' \in 0 .. MaxDeltas + 1
        /\ reason' \in {"run", "delta_limit"} /\ phase' = "settle" /\ Limited'
    BY <1>0, <2>1, DeltaType
  <2>5. UNCHANGED <<clock, batch, inactive, observed, reactive, lost, strobes,
                    busy, finish_pending, stopped, fuel>>
    BY <1>5 DEF ApplyNba
  <2> QED BY <1>0, <2>1, <2>3, <2>4, <2>5 DEF TInv, TypeOK, OneBatch, QueueSorted, clock
<1>6. CASE FinishStep \/ Quiesce
  BY <1>0, <1>6 DEF FinishStep, Quiesce, TInv, TypeOK, Limited, OneBatch, QueueSorted, clock,
     nets, waits
<1>7. CASE Advance
  <2>1. /\ reason = "run" /\ phase = "region" /\ batch = <<>> /\ Ticks # {}
        /\ Next_tick <= MaxTime /\ now' = Next_tick
        /\ Land(Next_tick, As(wheel[Next_tick], "old"))
    BY <1>0, <1>7 DEF Advance, Does, At, OneBatch
  <2>2. Next_tick \in Times /\ now' \in 0 .. MaxTime
    <3>1. Next_tick \in Ticks /\ Ticks \subseteq Times
      BY <1>0, <2>1, NextTick DEF Ticks, TypeOK
    <3> QED BY <2>1, <3>1, RunLoopAssumption DEF Times
  <2>3. As(wheel[Next_tick], "old") \in Seq(Entries) /\ Sorted(As(wheel[Next_tick], "old"))
    <3> DEFINE q == As(wheel[Next_tick], "old")
    <3>1. wheel[Next_tick] \in Seq(Procs)
      BY <1>0, <2>2 DEF TypeOK
    <3>2. q \in Seq(Entries) /\ \A i \in 1 .. Len(q) : q[i].seq = "old"
      BY <3>1, AsEntries
    <3> HIDE DEF q
    <3>3. Sorted(q)
      BY <3>2, OneAgeSorted
    <3> QED BY <3>2, <3>3 DEF q
  <2>4. /\ active' \in Seq(Entries) /\ Sorted(active')
        /\ waiting' \in [Procs -> Wait \cup {NoWait}]
        /\ edge_seen' \subseteq EdgeProcs
        /\ hit' \subseteq Procs /\ dirty' \subseteq Nets
        /\ delayed_ca' \in Times \cup {-1} /\ stale_ca' \subseteq Times
    BY <1>0, <2>1, <2>2, <2>3, LandType
  <2>5. /\ nba' \in BOOLEAN /\ delayed_nba' \subseteq Times
        /\ wheel' \in [Times -> Seq(Procs)]
    <3>1. nba' = TakeDue(Next_tick)
      BY <1>7 DEF Advance
    <3>2. nba' \in BOOLEAN
      BY <3>1 DEF TakeDue
    <3>3. delayed_nba' \subseteq Times
      BY <1>0, <1>7 DEF Advance, TypeOK
    <3>4. wheel' \in [Times -> Seq(Procs)]
      <4>1. wheel' = [wheel EXCEPT ![Next_tick] = <<>>] /\ <<>> \in Seq(Procs)
        BY <1>7 DEF Advance
      <4> QED BY <1>0, <4>1, WheelTick
    <3> QED BY <3>2, <3>3, <3>4
  <2>6. /\ strobes' = FALSE /\ delta_count' = 0 /\ phase' = "settle"
        /\ UNCHANGED <<reason, batch, inactive, observed, reactive, lost,
                       writer, ca_dirty, busy, finish_pending, stopped, fuel>>
    BY <1>7 DEF Advance
  <2>7. delta_count' \in 0 .. MaxDeltas + 1 /\ Limited'
    BY <2>6, RunLoopAssumption DEF Limited
  <2> QED BY <1>0, <2>1, <2>2, <2>4, <2>5, <2>6, <2>7 DEF TInv, TypeOK, OneBatch, QueueSorted
<1> QED BY <1>1, <1>2, <1>3, <1>4, <1>5, <1>6, <1>7

\* How a region matures: what of its reports is lost, and which control ends the run.
LEMMA MaturedType ==
    ASSUME NEW Q \in SUBSET Controls, NEW m \in Matured(Q)
    PROVE  m[1] \in {"none", "stop", "fatal"}
<1> DEFINE stops == Q \cap {"stop", "fatal"}
           Behind == {L \in SUBSET (Q \ {"fatal"}) : "stop" \in Q => "stop" \in L}
<1>1. \/ m \in {<<"none", {}>>} \/ m \in {<<"stop", {}>>}
      \/ m \in {<<"fatal", L>> : L \in Behind}
  BY DEF Matured
<1> QED BY <1>1

\* A region that matures its reports keeps the types.
LEMMA MatureTypes ==
    ASSUME TInv, NEW region \in {"Observed", "Reactive"}, NEW Q \in SUBSET Controls,
           Mature(region, Q)
    PROVE  TInv'
<1>0. TypeOK /\ Limited /\ OneBatch /\ QueueSorted /\ Sorted(active) /\ Sorted(inactive)
  BY DEF TInv, QueueSorted
<1>1. /\ reason = "run" /\ phase = "region" /\ batch = <<>>
      /\ UNCHANGED <<clock, batch, inactive, nba, writer,
                     ca_dirty, busy, stopped, fuel>>
  BY <1>0 DEF Mature, Does, At, OneBatch
<1>2. PICK m \in Matured(Q) :
         LET ends   == m[1] # "none"
             drains == m[1] = "stop" /\ region = "Observed"
         IN  \E r \in IF drains THEN Matured(reactive) ELSE {<<"none", {}>>} :
               /\ observed' = IF region = "Observed" THEN {} ELSE observed
               /\ reactive' = IF region = "Reactive" \/ drains THEN {} ELSE reactive
               /\ lost' = (lost \/ m[2] # {} \/ r[2] # {})
               /\ finish_pending' = (finish_pending \/ "finish" \in Q \ m[2])
               /\ IF ends
                  THEN /\ reason' = m[1]
                       /\ strobes' = FALSE
                       /\ UNCHANGED <<active, waits, dirty, delta_count, phase>>
                  ELSE /\ Propagate(dirty, hit, active, edge_seen)
                       /\ Delta
                       /\ UNCHANGED strobes
  BY DEF Mature
<1>3. /\ observed' \in {{}, observed} /\ reactive' \in {{}, reactive}
      /\ IF m[1] # "none"
         THEN /\ reason' = m[1] /\ strobes' = FALSE
              /\ UNCHANGED <<active, waits, dirty, delta_count, phase>>
         ELSE /\ Propagate(dirty, hit, active, edge_seen) /\ Delta /\ UNCHANGED strobes
  BY <1>2
<1>4. lost' \in BOOLEAN /\ finish_pending' \in BOOLEAN
  <2>1. PICK r : /\ lost' = (lost \/ m[2] # {} \/ r[2] # {})
                 /\ finish_pending' = (finish_pending \/ "finish" \in Q \ m[2])
    BY <1>2
  <2> QED BY <2>1, Zenon
<1>5. observed' \subseteq Controls /\ reactive' \subseteq Controls
  BY <1>0, <1>3 DEF TypeOK
<1>6. CASE m[1] # "none"
  <2>1. reason' \in {"stop", "fatal"}
    BY <1>3, <1>6, MaturedType
  <2> QED BY <1>0, <1>1, <1>3, <1>4, <1>5, <1>6, <2>1
        DEF TInv, TypeOK, Limited, OneBatch, QueueSorted, clock, waits
<1>7. CASE m[1] = "none"
  <2>1. Propagate(dirty, hit, active, edge_seen) /\ Delta /\ UNCHANGED strobes
    BY <1>3, <1>7
  <2>2. dirty \in SUBSET Nets /\ hit \in SUBSET Procs /\ edge_seen \in SUBSET EdgeProcs
          /\ active \in Seq(Entries)
    BY <1>0 DEF TypeOK
  <2>3. /\ active' \in Seq(Entries) /\ Sorted(active')
        /\ waiting' \in [Procs -> Wait \cup {NoWait}]
        /\ edge_seen' \subseteq EdgeProcs
        /\ hit' \subseteq Procs /\ dirty' \subseteq Nets
    BY <1>0, <2>1, <2>2, PropagateType
  <2>4. /\ delta_count' \in 0 .. MaxDeltas + 1
        /\ reason' \in {"run", "delta_limit"} /\ phase' = "settle" /\ Limited'
    BY <1>0, <1>1, <2>1, DeltaType
  <2> QED BY <1>0, <1>1, <1>4, <1>5, <2>1, <2>3, <2>4
        DEF TInv, TypeOK, OneBatch, QueueSorted, clock
<1> QED BY <1>6, <1>7

\* A statement, or the suspension, of a body keeps the types.
LEMMA BodyTypes == ASSUME TInv, Body PROVE TInv'
<1>0. TypeOK /\ Limited /\ OneBatch /\ QueueSorted /\ Sorted(active) /\ Sorted(inactive)
  BY DEF TInv, QueueSorted
<1>1. Running /\ reason = "run" /\ phase = "batch" /\ batch # <<>> /\ active = <<>>
  BY <1>0 DEF Body, Write, Strobe, Finish, Done, Assign, Delay, Defer, WaitOn, Abort, Suspend,
     Yield, Statement, Running, At, OneBatch
<1>2. Cur \in Procs /\ Tail(batch) \in Seq(Procs)
  BY <1>0, <1>1 DEF Cur, TypeOK
<1>3. ASSUME Statement,
             /\ nba' \in BOOLEAN /\ delayed_nba' \subseteq Times
             /\ dirty' \subseteq Nets /\ writer' \in Procs \cup {0} /\ ca_dirty' \in BOOLEAN
             /\ hit' \subseteq Procs
             /\ observed' \subseteq Controls /\ reactive' \subseteq Controls
             /\ strobes' \in BOOLEAN
      PROVE  TInv'
  <2>1. fuel' \in 0 .. Fuel
    BY <1>0, <1>3, RunLoopAssumption DEF TypeOK, Statement
  <2> QED BY <1>0, <1>3, <2>1 DEF TInv, TypeOK, Limited, OneBatch, QueueSorted, Statement
<1>4. CASE Write
  <2>1. Hits({"v"}) \subseteq Procs
    BY <1>0, HitsType
  <2> QED BY <1>0, <1>2, <1>3, <1>4, <2>1 DEF Write, TypeOK, Nets
<1>5. CASE Strobe
  BY <1>0, <1>3, <1>5 DEF Strobe, TypeOK
<1>6. ASSUME NEW d \in Delays, Assign(d)
      PROVE  TInv'
  <2>1. now + d \in Times
    BY <1>0, RunLoopAssumption DEF TypeOK, Times
  <2>2. nba' \in BOOLEAN
    <3>1. nba' = (nba \/ d = 0)
      BY <1>6 DEF Assign
    <3> QED BY <3>1, Zenon
  <2> QED BY <1>0, <1>3, <1>6, <2>1, <2>2 DEF Assign, TypeOK
<1>7. ASSUME NEW r \in {"Observed", "Reactive"}, NEW c \in Controls, Defer(r, c)
      PROVE  TInv'
  BY <1>0, <1>3, <1>7 DEF Defer, TypeOK
<1>8. ASSUME Yield,
             /\ inactive' \in Seq(Entries) /\ Sorted(inactive')
             /\ wheel' \in [Times -> Seq(Procs)]
             /\ waiting' \in [Procs -> Wait \cup {NoWait}]
             /\ busy' \subseteq Procs /\ stopped' \subseteq Procs
             /\ observed' \subseteq Controls /\ reactive' \subseteq Controls
             /\ lost' \in BOOLEAN /\ strobes' \in BOOLEAN /\ finish_pending' \in BOOLEAN
             /\ reason' \in {"run", "stop", "fatal"} /\ phase' = phase
      PROVE  TInv'
  <2>1. batch' \in Seq(Procs)
    BY <1>2, <1>8 DEF Yield
  <2>2. Limited'
    BY <1>0, <1>1, <1>8 DEF Yield, Limited
  <2> QED BY <1>0, <1>1, <1>8, <2>1, <2>2 DEF TInv, TypeOK, OneBatch, QueueSorted, Yield
<1>9. CASE Finish
  BY <1>0, <1>1, <1>2, <1>8, <1>9 DEF Finish, StopsAtFinish, TypeOK
<1>10. CASE Done
  BY <1>0, <1>1, <1>2, <1>8, <1>10 DEF Done, TypeOK
<1>11. ASSUME NEW d \in Delays, Delay(d)
       PROVE  TInv'
  <2>1. inactive' \in Seq(Entries) /\ Sorted(inactive')
    <3>1. CASE d = 0
      <4>1. inactive' = Append(inactive, Entry(Cur, "new")) /\ inactive \in Seq(Entries)
        BY <1>0, <1>11, <3>1 DEF Delay, TypeOK
      <4> QED BY <1>0, <1>2, <4>1, Appended
    <3>2. CASE d # 0
      BY <1>0, <1>11, <3>2 DEF Delay, TypeOK
    <3> QED BY <3>1, <3>2
  <2>2. wheel' \in [Times -> Seq(Procs)]
    <3>1. CASE d = 0
      BY <1>0, <1>11, <3>1 DEF Delay, TypeOK
    <3>2. CASE d # 0
      <4>1. wheel' = [wheel EXCEPT ![now + d] = Append(wheel[now + d], Cur)]
        BY <1>11, <3>2 DEF Delay
      <4>2. now + d \in Times
        BY <1>0, RunLoopAssumption DEF TypeOK, Times
      <4>3. Append(wheel[now + d], Cur) \in Seq(Procs)
        <5>1. wheel[now + d] \in Seq(Procs)
          BY <1>0, <4>2 DEF TypeOK
        <5> QED BY <1>2, <5>1
      <4> QED BY <1>0, <4>1, <4>3, WheelTick
    <3> QED BY <3>1, <3>2
  <2> QED BY <1>0, <1>1, <1>2, <1>8, <1>11, <2>1, <2>2 DEF Delay, Suspend, TypeOK
<1>12. ASSUME NEW w \in Wait, WaitOn(w)
       PROVE  TInv'
  <2>1. waiting' \in [Procs -> Wait \cup {NoWait}]
    BY <1>0, <1>2, <1>12 DEF WaitOn, TypeOK
  <2> QED BY <1>0, <1>1, <1>2, <1>8, <1>12, <2>1 DEF WaitOn, Suspend, TypeOK
<1>13. ASSUME NEW c \in {"stop", "fatal"}, Abort(c)
       PROVE  TInv'
  <2>1. lost' \in BOOLEAN /\ finish_pending' \in BOOLEAN
    <3>1. PICK m, r : /\ lost' = (lost \/ m[2] # {} \/ r[2] # {})
                      /\ finish_pending' = (finish_pending \/ "finish" \in (observed \ m[2])
                                                                  \cup (reactive \ r[2]))
      BY <1>13 DEF Abort
    <3> QED BY <3>1, Zenon
  <2> QED BY <1>0, <1>1, <1>8, <1>13, <2>1 DEF Abort, TypeOK
<1> QED BY <1>4, <1>5, <1>6, <1>7, <1>9, <1>10, <1>11, <1>12, <1>13 DEF Body

\* Every step keeps the types.
LEMMA TInvStep == ASSUME TInv, [Next]_vars PROVE TInv'
<1>1. CASE Body
  BY <1>1, BodyTypes
<1>2. CASE Mature("Observed", observed) \/ Mature("Reactive", reactive)
  <2>1. observed \in SUBSET Controls /\ reactive \in SUBSET Controls
    BY DEF TInv, TypeOK
  <2> QED BY <1>2, <2>1, MatureTypes
<1>3. CASE UNCHANGED vars
  BY <1>3 DEF TInv, TypeOK, Limited, OneBatch, QueueSorted, vars
<1> QED BY <1>1, <1>2, <1>3, LoopTypes DEF Next, Step, Ended

\* The types, the limits and the order of the queues are invariant.
LEMMA Typed == Spec => []TInv
<1> QED BY TInvInit, TInvStep, PTL DEF Spec

\* The loop keeps its types; in particular its counters stop at their limits.
THEOREM TypesHold == Spec => []TypeOK
<1>1. TInv => TypeOK
  BY DEF TInv
<1> QED BY <1>1, Typed, PTL

\* However a run queue is filled, its entries are in order of scheduling number and
\* tie (push_sorted).
THEOREM QueueInOrder == Spec => []QueueSorted
<1>1. TInv => QueueSorted
  BY DEF TInv
<1> QED BY <1>1, Typed, PTL

-----------------------------------------------------------------------------
(* What a time step leaves behind.                                         *)

\* A change of the clock's queues to times that have come is by an advance.
LEMMA OverdueStep == ASSUME TInv, NothingOverdue, [Next]_vars PROVE NothingOverdue'
<1>0. /\ TypeOK /\ now \in Nat /\ Times \subseteq Nat
      /\ now' \in Times
  <2>1. TInv'
    BY TInvStep
  <2>2. TypeOK /\ now \in 0 .. MaxTime /\ now' \in 0 .. MaxTime
    BY <2>1 DEF TInv, TypeOK
  <2> QED BY <2>2, RunLoopAssumption DEF Times
<1>1. CASE UNCHANGED clock
  BY <1>1 DEF NothingOverdue, clock
<1>2. CASE Settle
  <2>1. /\ UNCHANGED <<now, wheel, delayed_nba>>
        /\ \/ UNCHANGED <<delayed_ca, stale_ca>>
           \/ delayed_ca' = now + CaDelay /\ stale_ca' = stale_ca \cup ({delayed_ca} \ {-1})
    BY <1>2 DEF Settle
  <2>2. now + CaDelay >= now
    BY <1>0, RunLoopAssumption
  <2>3. \A t \in stale_ca' \cup ({delayed_ca'} \ {-1}) : t >= now'
    BY <2>1, <2>2 DEF NothingOverdue
  <2> QED BY <2>1, <2>3 DEF NothingOverdue
<1>3. CASE Promote
  BY <1>3 DEF Promote, Land, NothingOverdue
<1>4. CASE Advance
  <2>1. /\ Ticks # {} /\ now' = Next_tick
        /\ delayed_nba' = IF Next_tick \in delayed_nba THEN delayed_nba \ {Next_tick}
                                                       ELSE delayed_nba
        /\ wheel' = [wheel EXCEPT ![Next_tick] = <<>>]
        /\ delayed_ca' = (IF delayed_ca = Next_tick THEN -1 ELSE delayed_ca)
        /\ stale_ca' = stale_ca \ {Next_tick}
    BY <1>4 DEF Advance, TakeDue, Land
  <2>2. /\ Next_tick \in Nat
        /\ \A u \in Ticks : Next_tick <= u /\ u \in Nat
    BY <1>0, <2>1, NextTick DEF Ticks, TypeOK
  <2>3. ASSUME NEW t \in Times, wheel'[t] # <<>>
        PROVE  t > now'
    <3>1. t # Next_tick /\ wheel[t] # <<>>
      BY <1>0, <2>1, <2>3 DEF TypeOK
    <3>2. t \in Ticks
      BY <3>1 DEF Ticks
    <3> QED BY <2>1, <2>2, <3>1, <3>2
  <2>4. ASSUME NEW t \in delayed_nba'
        PROVE  t > now'
    <3>1. t # Next_tick /\ t \in delayed_nba /\ t \in Times
      BY <1>0, <2>1 DEF TypeOK
    <3>2. t \in Ticks
      BY <3>1 DEF Ticks
    <3> QED BY <2>1, <2>2, <3>1, <3>2
  <2>5. ASSUME NEW t \in stale_ca' \cup ({delayed_ca'} \ {-1})
        PROVE  t >= now'
    <3>1. t \in Ticks
      BY <2>1 DEF Ticks
    <3> QED BY <2>1, <2>2, <3>1
  <2> QED BY <2>3, <2>4, <2>5 DEF NothingOverdue
<1>5. ASSUME NEW d \in Delays, Assign(d)
      PROVE  NothingOverdue'
  <2>1. d \in Nat
    BY RunLoopAssumption
  <2>2. /\ delayed_nba' = delayed_nba \cup ({now + d} \ {now})
        /\ UNCHANGED <<now, wheel, delayed_ca, stale_ca>>
    BY <1>5 DEF Assign, Statement
  <2>3. \A t \in {now + d} \ {now} : t > now
    BY <1>0, <2>1
  <2> QED BY <2>2, <2>3 DEF NothingOverdue
<1>6. ASSUME NEW d \in Delays, Delay(d)
      PROVE  NothingOverdue'
  <2>1. d \in Nat
    BY RunLoopAssumption
  <2>2. UNCHANGED <<now, delayed_nba, delayed_ca, stale_ca>>
    BY <1>6 DEF Delay, Suspend, Yield
  <2>3. ASSUME NEW t \in Times, wheel'[t] # <<>>
        PROVE  t > now
    <3>1. CASE wheel[t] # <<>>
      BY <3>1 DEF NothingOverdue
    <3>2. CASE wheel[t] = <<>>
      <4>1. d # 0 /\ wheel' = [wheel EXCEPT ![now + d] = Append(wheel[now + d], Cur)]
        BY <1>6, <2>3, <3>2 DEF Delay
      <4>2. t = now + d
        BY <1>0, <2>3, <3>2, <4>1 DEF TypeOK
      <4> QED BY <1>0, <2>1, <4>1, <4>2
    <3> QED BY <3>1, <3>2
  <2> QED BY <2>2, <2>3 DEF NothingOverdue
<1>7. CASE TakeBatch \/ EndBatch \/ ApplyNba \/ PropagateLate \/ FinishStep \/ Quiesce
             \/ Mature("Observed", observed) \/ Mature("Reactive", reactive) \/ UNCHANGED vars
  <2>1. UNCHANGED clock
    BY <1>7 DEF TakeBatch, EndBatch, ApplyNba, PropagateLate, FinishStep, Quiesce, Mature, vars,
       clock
  <2> QED BY <1>1, <2>1
<1>8. CASE Write \/ Strobe \/ Finish \/ Done
             \/ (\E r \in {"Observed", "Reactive"}, c \in Controls : Defer(r, c))
             \/ (\E w \in Wait : WaitOn(w))
             \/ (\E c \in {"stop", "fatal"} : Abort(c))
  <2>1. UNCHANGED clock
    BY <1>8 DEF Write, Strobe, Finish, Done, Defer, WaitOn, Abort, Suspend, Yield, Statement,
       clock
  <2> QED BY <1>1, <2>1
<1> QED BY <1>2, <1>3, <1>4, <1>5, <1>6, <1>7, <1>8 DEF Next, Step, Body, Ended

\* The advance of time leaves no resume and no update behind, whatever the delays.
THEOREM NothingLeftBehind == Spec => []NothingOverdue
<1>1. Init => NothingOverdue
  BY DEF Init, NothingOverdue
<1>2. TInv /\ NothingOverdue /\ [Next]_vars => NothingOverdue'
  BY OverdueStep
<1> QED BY <1>1, <1>2, Typed, PTL DEF Spec

\* A net that a suspended body has been hit by is dirty, and the continuous assigns
\* have settled before a region is looked for.
ChangesPending == (hit # {} => dirty # {}) /\ (phase = "region" => ~ca_dirty)

\* It holds through every step.
LEMMA ChangesStep == ASSUME TInv, ChangesPending, [Next]_vars PROVE ChangesPending'
<1>1. ASSUME NEW D \in SUBSET Nets, NEW H \in SUBSET Procs, NEW q, NEW seen,
             Propagate(D, H, q, seen)
      PROVE  hit' = {}
  BY <1>1 DEF Propagate
<1>2. TypeOK /\ dirty \in SUBSET Nets /\ hit \in SUBSET Procs
  BY DEF TInv, TypeOK
<1>3. CASE Settle
  <2>1. ca_dirty' = FALSE
    BY <1>3 DEF Settle
  <2>2. hit' = {} \/ UNCHANGED <<hit, dirty>>
    <3>1. \/ UNCHANGED <<active, waits, dirty>>
          \/ Propagate(dirty \cup {"w"}, Hits({"w"}), active, edge_seen)
      BY <1>3 DEF Settle
    <3>2. dirty \cup {"w"} \in SUBSET Nets /\ Hits({"w"}) \in SUBSET Procs
      BY <1>2, HitsType DEF Nets
    <3> QED BY <1>1, <3>1, <3>2 DEF waits
  <2> QED BY <2>1, <2>2 DEF ChangesPending
<1>4. CASE EndBatch \/ PropagateLate
  <2>1. Propagate(dirty, hit, active, edge_seen) /\ phase' = "settle"
    BY <1>4 DEF EndBatch, PropagateLate, Delta
  <2> QED BY <1>1, <1>2, <2>1 DEF ChangesPending
<1>5. ASSUME NEW t, NEW q, Land(t, q), phase' = "settle"
      PROVE  ChangesPending'
  <2>1. \/ UNCHANGED <<hit, dirty>>
        \/ Propagate(dirty \cup {"y"}, Hits({"y"}), q, {})
    BY <1>5 DEF Land
  <2>2. dirty \cup {"y"} \in SUBSET Nets /\ Hits({"y"}) \in SUBSET Procs
    BY <1>2, HitsType DEF Nets
  <2> QED BY <1>1, <1>5, <2>1, <2>2 DEF ChangesPending
<1>6. CASE Promote \/ Advance
  BY <1>5, <1>6 DEF Promote, Advance, InactiveDelta, Delta
<1>7. CASE ApplyNba
  <2>1. Propagate(dirty \cup {"v"}, Hits({"v"}), active, {}) /\ phase' = "settle"
    BY <1>7 DEF ApplyNba, Delta
  <2>2. dirty \cup {"v"} \in SUBSET Nets /\ Hits({"v"}) \in SUBSET Procs
    BY <1>2, HitsType DEF Nets
  <2> QED BY <1>1, <2>1, <2>2 DEF ChangesPending
<1>8. ASSUME NEW r, NEW Q, Mature(r, Q)
      PROVE  ChangesPending'
  <2>1. \/ Propagate(dirty, hit, active, edge_seen) /\ phase' = "settle"
        \/ UNCHANGED <<waits, dirty, phase, ca_dirty>>
    BY <1>8 DEF Mature, Delta
  <2> QED BY <1>1, <1>2, <2>1 DEF ChangesPending, waits
<1>9. CASE TakeBatch \/ FinishStep \/ Quiesce \/ UNCHANGED vars
  BY <1>9 DEF TakeBatch, FinishStep, Quiesce, vars, nets, waits, ChangesPending
<1>10. CASE Body
  <2>1. At("batch")
    BY <1>10 DEF Body, Write, Strobe, Finish, Done, Assign, Delay, Defer, WaitOn, Abort,
       Suspend, Yield, Statement, Running
  <2>2. phase' = phase /\ (UNCHANGED <<hit, dirty>> \/ "v" \in dirty')
    BY <1>10 DEF Body, Write, Strobe, Finish, Done, Assign, Delay, Defer, WaitOn, Abort,
       Suspend, Yield, Statement
  <2> QED BY <2>1, <2>2 DEF ChangesPending, At
<1> QED BY <1>3, <1>4, <1>6, <1>7, <1>8, <1>9, <1>10 DEF Next, Step, Ended

\* No time step ends, and no `$finish` takes effect, with a change still to be seen
\* by a waiting process, an edge or a continuous assign.
THEOREM StepsComplete == Spec => StepComplete
<1>1. Init => ChangesPending
  BY DEF Init, ChangesPending
<1>2. TInv /\ ChangesPending /\ [Next]_vars => ChangesPending'
  BY ChangesStep
<1>3. ASSUME TInv, ChangesPending, [Next]_vars,
             now' # now \/ (reason' = "finish" /\ reason = "run")
      PROVE  dirty = {} /\ hit = {} /\ ~ca_dirty
  <2>1. Advance \/ FinishStep
    <3>1. CASE UNCHANGED vars
      BY <1>3, <3>1 DEF vars
    <3>2. CASE Settle \/ TakeBatch \/ EndBatch \/ Promote \/ ApplyNba \/ PropagateLate \/ Quiesce
      BY <1>3, <3>2 DEF Settle, TakeBatch, EndBatch, Promote, InactiveDelta, ApplyNba,
         PropagateLate, Quiesce, Delta, clock
    <3>3. CASE Body
      <4>1. now' = now /\ reason' \in {reason, "stop", "fatal"}
        BY <3>3 DEF Body, Write, Strobe, Finish, Done, Assign, Delay, Defer, WaitOn, Abort,
           Suspend, Yield, Statement
      <4> QED BY <1>3, <4>1
    <3>4. CASE Mature("Observed", observed) \/ Mature("Reactive", reactive)
      <4>1. ASSUME NEW r, NEW Q \in SUBSET Controls, Mature(r, Q)
            PROVE  now' = now /\ reason' \in {reason, "none", "stop", "fatal", "delta_limit"}
        <5>1. PICK m \in Matured(Q) : \/ reason' = m[1]
                                      \/ Delta
          BY <4>1 DEF Mature
        <5>2. m[1] \in {"none", "stop", "fatal"}
          BY MaturedType
        <5> QED BY <4>1, <5>1, <5>2 DEF Mature, clock, Delta
      <4>2. observed \in SUBSET Controls /\ reactive \in SUBSET Controls
        BY <1>3 DEF TInv, TypeOK
      <4> QED BY <1>3, <3>4, <4>1, <4>2
    <3> QED BY <1>3, <3>1, <3>2, <3>3, <3>4 DEF Next, Step, Ended
  <2>2. phase = "region" /\ Region = "Stable"
    BY <2>1 DEF Advance, FinishStep, Does, At
  <2> QED BY <1>3, <2>2, RegionEmpty DEF ChangesPending
<1>4. TInv /\ ChangesPending /\ [Next]_vars
        => [now' # now \/ (reason' = "finish" /\ reason = "run")
              => dirty = {} /\ hit = {} /\ ~ca_dirty]_vars
  BY <1>3
<1> QED BY <1>1, <1>2, <1>4, Typed, PTL DEF Spec, StepComplete

-----------------------------------------------------------------------------
(* The one place of a process.                                             *)

\* What runs in this delta.
Runnable == Listed(batch) \cup ProcsOf(active)

\* No queue has a process twice.
Singles == OnceP(batch) /\ Once(active) /\ Once(inactive) /\ \A t \in Times : OnceP(wheel[t])

\* No two queues have a process in common, and none has a suspended one.
Apart ==
    /\ Runnable \cap ProcsOf(inactive) = {}
    /\ Waiting \cap (Runnable \cup ProcsOf(inactive)) = {}
    /\ \A t \in Times : Listed(wheel[t]) \cap (Runnable \cup ProcsOf(inactive) \cup Waiting) = {}
    /\ \A t, u \in Times : t # u => Listed(wheel[t]) \cap Listed(wheel[u]) = {}

\* What no wake may touch is busy, or has been started in this event cluster.
Occupied ==
    /\ ProcsOf(inactive) \cup Waiting \cup stopped \subseteq busy
    /\ \A t \in Times : Listed(wheel[t]) \subseteq busy
    /\ Runnable \cap EdgeProcs \subseteq busy \cup edge_seen

\* A process stopped for good is nowhere.
Nowhere ==
    /\ stopped \cap (Runnable \cup ProcsOf(inactive) \cup Waiting) = {}
    /\ \A t \in Times : stopped \cap Listed(wheel[t]) = {}

PInv == Singles /\ Apart /\ Occupied /\ Nowhere

\* The invariant holds at the start of the run.
LEMMA PInvInit == Init => PInv
<1> SUFFICES ASSUME Init PROVE PInv
  OBVIOUS
<1> DEFINE S == Procs \ EdgeProcs
           t == InTieOrder(S)
<1>1. /\ t \in Seq(Procs) /\ \A j, k \in 1 .. Len(t) : j < k => t[j] < t[k]
      /\ {t[k] : k \in 1 .. Len(t)} = S
  BY TieOrder
<1>2. active = As(t, "old")
  BY DEF Init
<1> HIDE DEF t
<1>3. /\ Len(active) = Len(t) /\ ProcsOf(active) = S
      /\ \A k \in 1 .. Len(t) : active[k].proc = t[k]
  BY <1>1, <1>2, AsEntries
<1>4. Once(active)
  <2> SUFFICES ASSUME NEW i \in 1 .. Len(t), NEW j \in 1 .. Len(t), t[i] = t[j]
               PROVE  i = j
    BY <1>3 DEF Once
  <2>1. t[i] \in Procs /\ t[j] \in Procs
    BY <1>1
  <2>2. ~(i < j) /\ ~(j < i)
    BY <1>1, <2>1 DEF Procs
  <2> QED BY <2>2
<1>5. /\ batch = <<>> /\ inactive = <<>> /\ wheel = [u \in Times |-> <<>>]
      /\ waiting = [p \in Procs |-> NoWait] /\ stopped = {}
  BY DEF Init
<1>6. /\ Listed(batch) = {} /\ ProcsOf(inactive) = {} /\ Waiting = {}
      /\ \A u \in Times : Listed(wheel[u]) = {}
  BY <1>5 DEF Listed, ProcsOf, Waiting
<1>7. Singles
  BY <1>4, <1>5 DEF Singles, Once, OnceP
<1>8. Apart /\ Occupied /\ Nowhere
  BY <1>3, <1>5, <1>6 DEF Apart, Occupied, Nowhere, Runnable
<1> QED BY <1>7, <1>8 DEF PInv

\* When the processes of a queue are made active with what wakes, each is still in
\* one place: a wake touches only the suspended and the idle.
LEMMA JoinsPlaces ==
    ASSUME TInv, PInv, NEW q, NEW seen, NEW R \in SUBSET Procs, NEW W \in SUBSET Procs,
           Joins(q, seen, R, W), batch' = <<>>, UNCHANGED <<busy, stopped>>,
           Once(q), ProcsOf(q) \cap Waiting = {}, ProcsOf(q) \cap stopped = {},
           ProcsOf(q) \cap EdgeProcs \subseteq busy \cup seen,
           Once(inactive'), ProcsOf(inactive') \subseteq ProcsOf(inactive),
           ProcsOf(q) \cap ProcsOf(inactive') = {},
           \A t \in Times : /\ OnceP(wheel'[t]) /\ Listed(wheel'[t]) \subseteq Listed(wheel[t])
                            /\ ProcsOf(q) \cap Listed(wheel'[t]) = {}
    PROVE  PInv'
<1>1. /\ R \subseteq EdgeProcs \ (busy \cup seen) /\ W \subseteq Waiting
      /\ ProcsOf(active') = ProcsOf(q) \cup R \cup W
      /\ Once(q) /\ (R \cup W) \cap ProcsOf(q) = {} => Once(active')
      /\ waiting' = [p \in Procs |-> IF p \in W THEN NoWait ELSE waiting[p]]
      /\ edge_seen' = seen \cup R
  BY DEF Joins
<1>2. (R \cup W) \cap ProcsOf(q) = {}
  BY <1>1
<1>3. Waiting' = Waiting \ W
  BY <1>1 DEF Waiting
<1>4. Runnable' = ProcsOf(q) \cup R \cup W
  BY <1>1 DEF Runnable, Listed
<1>5. Singles'
  BY <1>1, <1>2 DEF Singles, OnceP
<1>6. (R \cup W) \cap ProcsOf(inactive) = {} /\ R \cap Waiting = {} /\ (R \cup W) \cap stopped = {}
        /\ \A t \in Times : (R \cup W) \cap Listed(wheel[t]) = {}
  BY <1>1 DEF PInv, Apart, Occupied, Nowhere
<1>7. Apart'
  BY <1>3, <1>4, <1>6 DEF PInv, Apart
<1>8. Occupied'
  BY <1>1, <1>3, <1>4 DEF PInv, Occupied
<1>9. Nowhere'
  BY <1>3, <1>4, <1>6 DEF PInv, Nowhere
<1> QED BY <1>5, <1>7, <1>8, <1>9 DEF PInv

\* The case of a `propagate_changes` into the active queue.
LEMMA WakePlaces ==
    ASSUME TInv, PInv, NEW D \in SUBSET Nets, NEW H \in SUBSET Procs,
           NEW seen \in SUBSET EdgeProcs, Propagate(D, H, active, seen),
           Runnable \cap EdgeProcs \subseteq busy \cup seen,
           batch = <<>>, UNCHANGED <<batch, inactive, wheel, busy, stopped>>
    PROVE  PInv'
<1>1. TypeOK /\ active \in Seq(Entries)
  BY DEF TInv, TypeOK
<1>2. PICK R, W \in SUBSET Procs : Joins(active, seen, R, W)
  BY <1>1, PropagateJoins
<1>3. ProcsOf(active) = Runnable
  BY DEF Runnable, Listed
<1>4. /\ Once(active) /\ Once(inactive')
      /\ ProcsOf(active) \cap Waiting = {} /\ ProcsOf(active) \cap stopped = {}
      /\ ProcsOf(active) \cap ProcsOf(inactive') = {}
  BY <1>3 DEF PInv, Singles, Apart, Nowhere
<1>5. \A t \in Times : /\ OnceP(wheel'[t]) /\ Listed(wheel'[t]) \subseteq Listed(wheel[t])
                       /\ ProcsOf(active) \cap Listed(wheel'[t]) = {}
  BY <1>3 DEF PInv, Singles, Apart
<1> QED BY <1>2, <1>3, <1>4, <1>5, JoinsPlaces

\* A landing, due or not, lets the processes of q be active with what it wakes.
LEMMA LandJoins ==
    ASSUME TypeOK, NEW t, NEW q \in Seq(Entries), Sorted(q), Land(t, q)
    PROVE  \E R, W \in SUBSET Procs : Joins(q, {}, R, W)
<1>1. CASE delayed_ca = t
  <2>1. Propagate(dirty \cup {"y"}, Hits({"y"}), q, {})
    BY <1>1 DEF Land
  <2>2. dirty \cup {"y"} \in SUBSET Nets /\ {} \in SUBSET EdgeProcs
    BY DEF TypeOK, Nets
  <2> QED BY <2>1, <2>2, HitsType, PropagateJoins
<1>2. CASE delayed_ca # t
  <2>1. active' = q /\ edge_seen' = {} /\ waiting' = waiting
    BY <1>2 DEF Land
  <2>2. Joins(q, {}, {}, {})
    BY <2>1, NobodyJoins
  <2> QED BY <2>2
<1> QED BY <1>1, <1>2

\* The `#0` resumes become active together with what the landing wakes.
LEMMA PromotePlaces == ASSUME TInv, PInv, Promote PROVE PInv'
<1>1. TypeOK /\ inactive \in Seq(Entries) /\ Sorted(inactive)
  BY DEF TInv, TypeOK
<1>2. /\ batch = <<>> /\ active = <<>> /\ inactive' = <<>> /\ Land(now, inactive)
      /\ UNCHANGED <<batch, wheel, busy, stopped>>
  BY RegionEmpty DEF Promote, Does, At, TInv, OneBatch
<1>3. PICK R, W \in SUBSET Procs : Joins(inactive, {}, R, W)
  BY <1>1, <1>2, LandJoins
<1>4. ProcsOf(inactive') = {} /\ Once(inactive')
  BY <1>2 DEF ProcsOf, Once
<1>5. /\ Once(inactive) /\ ProcsOf(inactive) \cap Waiting = {}
      /\ ProcsOf(inactive) \cap stopped = {} /\ ProcsOf(inactive) \subseteq busy
  BY DEF PInv, Singles, Apart, Occupied, Nowhere
<1>6. \A t \in Times : /\ OnceP(wheel'[t]) /\ Listed(wheel'[t]) \subseteq Listed(wheel[t])
                       /\ ProcsOf(inactive) \cap Listed(wheel'[t]) = {}
  BY <1>2 DEF PInv, Singles, Apart
<1> QED BY <1>2, <1>3, <1>4, <1>5, <1>6, JoinsPlaces

\* The resumes of a tick become active together with what the landing wakes.
LEMMA AdvancePlaces == ASSUME TInv, PInv, Advance PROVE PInv'
<1> DEFINE t == Next_tick
           q == As(wheel[t], "old")
<1>1. TypeOK
  BY DEF TInv
<1>2. /\ batch = <<>> /\ active = <<>> /\ inactive = <<>> /\ Land(t, q) /\ Ticks # {}
      /\ UNCHANGED <<batch, inactive, busy, stopped>>
      /\ wheel' = [wheel EXCEPT ![t] = <<>>]
  BY RegionEmpty DEF Advance, Does, At, TInv, OneBatch
<1>3. t \in Times /\ wheel[t] \in Seq(Procs)
  BY <1>1, <1>2, NextTick DEF Ticks, TypeOK
<1> HIDE DEF t
<1>4. /\ q \in Seq(Entries) /\ Len(q) = Len(wheel[t]) /\ ProcsOf(q) = Listed(wheel[t])
      /\ \A k \in 1 .. Len(wheel[t]) : q[k].proc = wheel[t][k] /\ q[k].seq = "old"
  BY <1>3, AsEntries DEF Listed
<1> HIDE DEF q
<1>5. Sorted(q) /\ Once(q)
  <2>1. Sorted(q)
    BY <1>4, OneAgeSorted
  <2>2. OnceP(wheel[t])
    BY <1>3 DEF PInv, Singles
  <2> QED BY <1>4, <2>1, <2>2 DEF Once, OnceP
<1>6. PICK R, W \in SUBSET Procs : Joins(q, {}, R, W)
  BY <1>1, <1>2, <1>4, <1>5, LandJoins
<1>7. ProcsOf(inactive') = {} /\ Once(inactive')
  BY <1>2 DEF ProcsOf, Once
<1>8. /\ ProcsOf(q) \cap Waiting = {} /\ ProcsOf(q) \cap stopped = {}
      /\ ProcsOf(q) \subseteq busy
  BY <1>3, <1>4 DEF PInv, Apart, Occupied, Nowhere
<1>9. ASSUME NEW u \in Times
      PROVE  /\ OnceP(wheel'[u]) /\ Listed(wheel'[u]) \subseteq Listed(wheel[u])
             /\ ProcsOf(q) \cap Listed(wheel'[u]) = {}
  <2>1. CASE u = t
    <3>1. wheel'[u] = <<>>
      BY <1>1, <1>2, <2>1 DEF TypeOK
    <3> QED BY <3>1 DEF OnceP, Listed
  <2>2. CASE u # t
    <3>1. wheel'[u] = wheel[u]
      BY <1>1, <1>2, <2>2 DEF TypeOK
    <3> QED BY <1>3, <1>4, <2>2, <3>1 DEF PInv, Singles, Apart
  <2> QED BY <2>1, <2>2
<1>10. ProcsOf(inactive') \subseteq ProcsOf(inactive) /\ ProcsOf(q) \cap ProcsOf(inactive') = {}
         /\ batch' = <<>> /\ UNCHANGED <<busy, stopped>>
  BY <1>2, <1>7
<1> QED BY <1>5, <1>6, <1>7, <1>8, <1>9, <1>10, JoinsPlaces

\* The active queue becomes the batch.
LEMMA BatchPlaces == ASSUME TInv, PInv, TakeBatch PROVE PInv'
<1>1. /\ batch = <<>> /\ active' = <<>> /\ inactive' = Refreshed(inactive)
      /\ batch' = [i \in 1 .. Len(active) |-> active[i].proc]
      /\ UNCHANGED <<wheel, waiting, busy, edge_seen, stopped>>
  BY DEF TakeBatch, Does, At, TInv, OneBatch, clock, waits
<1>2. active \in Seq(Entries) /\ inactive \in Seq(Entries)
  BY DEF TInv, TypeOK
<1>3. Len(batch') = Len(active) /\ \A i \in 1 .. Len(active) : batch'[i] = active[i].proc
  BY <1>1, <1>2
<1>4. Listed(batch') = ProcsOf(active)
  <2>1. {batch'[i] : i \in 1 .. Len(active)} = {active[i].proc : i \in 1 .. Len(active)}
    BY <1>3
  <2> QED BY <1>3, <2>1 DEF Listed, ProcsOf
<1>5. Runnable' = Runnable /\ Waiting' = Waiting
  BY <1>1, <1>4 DEF Runnable, Listed, ProcsOf, Waiting
<1>6. ProcsOf(inactive') = ProcsOf(inactive) /\ (Once(inactive) => Once(inactive'))
  BY <1>1, <1>2, RefreshedQueue
<1>7. Singles'
  BY <1>1, <1>3, <1>6 DEF PInv, Singles, Once, OnceP
<1> QED BY <1>1, <1>5, <1>6, <1>7 DEF PInv, Apart, Occupied, Nowhere

\* A list of processes with one more at the back.
LEMMA ListAppended ==
    ASSUME NEW ps \in Seq(Procs), NEW p \in Procs
    PROVE  LET w == Append(ps, p)
           IN  /\ w \in Seq(Procs) /\ Listed(w) = Listed(ps) \cup {p}
               /\ OnceP(ps) /\ p \notin Listed(ps) => OnceP(w)
<1> DEFINE w == Append(ps, p)
<1>1. /\ w \in Seq(Procs) /\ Len(ps) \in Nat /\ Len(w) = Len(ps) + 1 /\ w[Len(w)] = p
      /\ \A i \in 1 .. Len(ps) : w[i] = ps[i]
  OBVIOUS
<1>2. \A i \in 1 .. Len(w) : i \in 1 .. Len(ps) \/ i = Len(w)
  BY <1>1
<1> HIDE DEF w
<1>3. \A x : x \in Listed(w) <=> \E i \in 1 .. Len(w) : w[i] = x
  BY DEF Listed
<1>4. \A x : x \in Listed(ps) <=> \E i \in 1 .. Len(ps) : ps[i] = x
  BY DEF Listed
<1>5. Len(w) \in 1 .. Len(w) /\ \A i \in 1 .. Len(ps) : i \in 1 .. Len(w)
  BY <1>1
<1>6. Listed(w) \subseteq Listed(ps) \cup {p}
  BY <1>1, <1>2, <1>3, <1>4
<1>7. Listed(ps) \cup {p} \subseteq Listed(w)
  BY <1>1, <1>3, <1>4, <1>5
<1>8. ASSUME OnceP(ps), p \notin Listed(ps)
      PROVE  OnceP(w)
  <2>1. \A i \in 1 .. Len(ps) : ps[i] # p
    BY <1>4, <1>8
  <2> QED BY <1>1, <1>2, <1>8, <2>1 DEF OnceP
<1> QED BY <1>1, <1>6, <1>7, <1>8 DEF w

\* The head of the batch, and the rest.
LEMMA BatchHead ==
    ASSUME batch \in Seq(Procs), batch # <<>>, OnceP(batch)
    PROVE  /\ Cur \in Procs /\ Tail(batch) \in Seq(Procs) /\ OnceP(Tail(batch))
           /\ Listed(Tail(batch)) = Listed(batch) \ {Cur} /\ Cur \in Listed(batch)
<1> DEFINE w == Tail(batch)
<1>1. /\ Len(batch) \in Nat \ {0} /\ Cur = batch[1] /\ Cur \in Procs
      /\ w \in Seq(Procs) /\ Len(w) = Len(batch) - 1
      /\ \A i \in 1 .. Len(w) : w[i] = batch[i + 1]
  BY DEF Cur
<1> HIDE DEF w
<1>2. \A i \in 1 .. Len(w) : i + 1 \in 1 .. Len(batch) /\ i + 1 # 1
  BY <1>1
<1>3. \A i \in 1 .. Len(batch) : i # 1 => i - 1 \in 1 .. Len(w) /\ w[i - 1] = batch[i]
  <2> SUFFICES ASSUME NEW i \in 1 .. Len(batch), i # 1
               PROVE  i - 1 \in 1 .. Len(w) /\ w[i - 1] = batch[i]
    OBVIOUS
  <2>1. i - 1 \in 1 .. Len(w) /\ (i - 1) + 1 = i
    BY <1>1
  <2> QED BY <1>1, <2>1
<1>4. 1 \in 1 .. Len(batch)
  BY <1>1
<1>5. \A x : x \in Listed(w) <=> \E i \in 1 .. Len(w) : w[i] = x
  BY DEF Listed
<1>6. \A x : x \in Listed(batch) <=> \E i \in 1 .. Len(batch) : batch[i] = x
  BY DEF Listed
<1>7. Listed(w) \subseteq Listed(batch) \ {Cur}
  <2> SUFFICES ASSUME NEW i \in 1 .. Len(w)
               PROVE  w[i] \in Listed(batch) /\ w[i] # Cur
    BY <1>5
  <2>1. w[i] = batch[i + 1] /\ i + 1 \in 1 .. Len(batch) /\ i + 1 # 1
    BY <1>1, <1>2
  <2>2. batch[i + 1] # batch[1]
    BY <1>4, <2>1 DEF OnceP
  <2> QED BY <1>1, <1>6, <2>1, <2>2
<1>8. Listed(batch) \ {Cur} \subseteq Listed(w)
  BY <1>1, <1>3, <1>5, <1>6
<1>9. OnceP(w)
  <2> SUFFICES ASSUME NEW i \in 1 .. Len(w), NEW j \in 1 .. Len(w), w[i] = w[j]
               PROVE  i = j
    BY DEF OnceP
  <2>1. batch[i + 1] = batch[j + 1] /\ i + 1 \in 1 .. Len(batch) /\ j + 1 \in 1 .. Len(batch)
    BY <1>1, <1>2
  <2>2. i + 1 = j + 1
    BY <2>1 DEF OnceP
  <2> QED BY <2>2
<1>10. Cur \in Listed(batch)
  BY <1>1, <1>4, <1>6
<1> QED BY <1>1, <1>7, <1>8, <1>9, <1>10 DEF w

\* The running process leaves the batch for one place at most; what else the step
\* changes is that it may become busy, idle, or stopped for good.
LEMMA YieldPlaces ==
    ASSUME TInv, PInv, Running, Yield,
           \/ /\ UNCHANGED <<inactive, wheel, waiting>>
              /\ \/ UNCHANGED <<busy, stopped>>
                 \/ busy' = busy \ {Cur} /\ UNCHANGED stopped
                 \/ busy' = busy \cup {Cur} /\ stopped' = stopped \cup {Cur}
           \/ /\ busy' = busy \cup {Cur} /\ UNCHANGED stopped
              /\ \/ /\ inactive' = Append(inactive, Entry(Cur, "new"))
                    /\ UNCHANGED <<wheel, waiting>>
                 \/ /\ \E t \in Times : wheel' = [wheel EXCEPT ![t] = Append(@, Cur)]
                    /\ UNCHANGED <<inactive, waiting>>
                 \/ /\ \E w \in Wait : waiting' = [waiting EXCEPT ![Cur] = w]
                    /\ UNCHANGED <<inactive, wheel>>
    PROVE  PInv'
<1>0. /\ TypeOK /\ batch \in Seq(Procs) /\ batch # <<>> /\ active = <<>> /\ OnceP(batch)
      /\ inactive \in Seq(Entries) /\ wheel \in [Times -> Seq(Procs)]
      /\ waiting \in [Procs -> Wait \cup {NoWait}]
  BY DEF TInv, TypeOK, OneBatch, Running, At, PInv, Singles
<1> DEFINE p == Cur
<1>1. /\ p \in Procs /\ OnceP(batch') /\ Listed(batch') = Listed(batch) \ {p}
      /\ p \in Listed(batch) /\ UNCHANGED <<active, edge_seen>>
  BY <1>0, BatchHead DEF Yield
<1> HIDE DEF p
<1>2. /\ Runnable' = Runnable \ {p} /\ p \in Runnable
  BY <1>0, <1>1 DEF Runnable, ProcsOf
<1>3. /\ p \notin ProcsOf(inactive) /\ p \notin Waiting /\ p \notin stopped
      /\ \A t \in Times : p \notin Listed(wheel[t])
  BY <1>2 DEF PInv, Apart, Nowhere
<1>4. CASE UNCHANGED <<inactive, wheel, waiting>>
  <2>1. Singles' /\ Apart' /\ Waiting' = Waiting
    BY <1>1, <1>2, <1>4 DEF PInv, Singles, Apart, Waiting
  <2>2. /\ busy' \in {busy, busy \cup {p}, busy \ {p}}
        /\ \/ stopped' = stopped
           \/ stopped' = stopped \cup {p} /\ busy' = busy \cup {p}
    BY DEF p
  <2>3. Occupied'
    BY <1>1, <1>2, <1>3, <1>4, <2>1, <2>2 DEF PInv, Occupied
  <2>4. Nowhere'
    BY <1>2, <1>3, <1>4, <2>1, <2>2 DEF PInv, Nowhere
  <2> QED BY <2>1, <2>3, <2>4 DEF PInv
<1>5. CASE /\ inactive' = Append(inactive, Entry(p, "new"))
           /\ UNCHANGED <<wheel, waiting, stopped>> /\ busy' = busy \cup {p}
  <2>1. ProcsOf(inactive') = ProcsOf(inactive) \cup {p} /\ Once(inactive')
    BY <1>0, <1>1, <1>3, <1>5, Appended DEF PInv, Singles
  <2>2. Waiting' = Waiting
    BY <1>5 DEF Waiting
  <2>3. Singles'
    BY <1>1, <1>5, <2>1 DEF PInv, Singles
  <2>4. Apart'
    BY <1>2, <1>3, <1>5, <2>1, <2>2 DEF PInv, Apart
  <2>5. Occupied' /\ Nowhere'
    BY <1>1, <1>2, <1>3, <1>5, <2>1, <2>2 DEF PInv, Occupied, Nowhere
  <2> QED BY <2>3, <2>4, <2>5 DEF PInv
<1>6. ASSUME NEW t \in Times, wheel' = [wheel EXCEPT ![t] = Append(@, p)],
             UNCHANGED <<inactive, waiting, stopped>>, busy' = busy \cup {p}
      PROVE  PInv'
  <2>1. wheel[t] \in Seq(Procs) /\ wheel'[t] = Append(wheel[t], p)
          /\ \A u \in Times : u # t => wheel'[u] = wheel[u]
    BY <1>0, <1>6
  <2>2. Listed(wheel'[t]) = Listed(wheel[t]) \cup {p} /\ OnceP(wheel'[t])
    BY <1>1, <1>3, <2>1, ListAppended DEF PInv, Singles
  <2>3. Waiting' = Waiting
    BY <1>6 DEF Waiting
  <2>4. Singles'
    BY <1>1, <1>6, <2>1, <2>2 DEF PInv, Singles
  <2>5. \A u \in Times : Listed(wheel'[u]) \subseteq Listed(wheel[u]) \cup {p}
    BY <2>1, <2>2
  <2>6. ASSUME NEW u \in Times
        PROVE  Listed(wheel'[u]) \cap (Runnable' \cup ProcsOf(inactive') \cup Waiting') = {}
    BY <1>2, <1>3, <1>6, <2>3, <2>5 DEF PInv, Apart
  <2>7. ASSUME NEW u \in Times, NEW v \in Times, u # v
        PROVE  Listed(wheel'[u]) \cap Listed(wheel'[v]) = {}
    <3>1. Listed(wheel[u]) \cap Listed(wheel[v]) = {}
      BY <2>7 DEF PInv, Apart
    <3>2. p \notin Listed(wheel[u]) /\ p \notin Listed(wheel[v])
      BY <1>3
    <3>3. CASE u # t
      <4>1. Listed(wheel'[u]) = Listed(wheel[u])
        BY <2>1, <3>3
      <4> QED BY <2>5, <3>1, <3>2, <4>1
    <3>4. CASE v # t
      <4>1. Listed(wheel'[v]) = Listed(wheel[v])
        BY <2>1, <3>4
      <4> QED BY <2>5, <3>1, <3>2, <4>1
    <3> QED BY <2>7, <3>3, <3>4
  <2>8. Apart'
    BY <1>2, <1>6, <2>3, <2>6, <2>7 DEF PInv, Apart
  <2>9. Occupied' /\ Nowhere'
    BY <1>1, <1>2, <1>3, <1>6, <2>3, <2>5 DEF PInv, Occupied, Nowhere
  <2> QED BY <2>4, <2>8, <2>9 DEF PInv
<1>7. ASSUME NEW w \in Wait, waiting' = [waiting EXCEPT ![p] = w],
             UNCHANGED <<inactive, wheel, stopped>>, busy' = busy \cup {p}
      PROVE  PInv'
  <2>1. Waiting' \subseteq Waiting \cup {p}
    BY <1>0, <1>7 DEF Waiting
  <2>2. Singles' /\ Apart'
    BY <1>1, <1>2, <1>3, <1>7, <2>1 DEF PInv, Singles, Apart
  <2>3. Occupied' /\ Nowhere'
    BY <1>1, <1>2, <1>3, <1>7, <2>1 DEF PInv, Occupied, Nowhere
  <2> QED BY <2>2, <2>3 DEF PInv
<1>8. \/ UNCHANGED <<inactive, wheel, waiting>>
      \/ /\ busy' = busy \cup {p} /\ UNCHANGED stopped
         /\ \/ /\ inactive' = Append(inactive, Entry(p, "new"))
               /\ UNCHANGED <<wheel, waiting>>
            \/ /\ \E t \in Times : wheel' = [wheel EXCEPT ![t] = Append(@, p)]
               /\ UNCHANGED <<inactive, waiting>>
            \/ /\ \E w \in Wait : waiting' = [waiting EXCEPT ![p] = w]
               /\ UNCHANGED <<inactive, wheel>>
  BY DEF p
<1> QED BY <1>4, <1>5, <1>6, <1>7, <1>8

\* Every step keeps each process in one place.
LEMMA PInvStep == ASSUME TInv, PInv, [Next]_vars PROVE PInv'
<1>0. /\ TypeOK /\ dirty \in SUBSET Nets /\ hit \in SUBSET Procs
      /\ edge_seen \in SUBSET EdgeProcs /\ {} \in SUBSET EdgeProcs
      /\ Runnable \cap EdgeProcs \subseteq busy \cup edge_seen
  BY DEF TInv, TypeOK, PInv, Occupied
<1>1. CASE UNCHANGED <<batch, active, inactive, wheel, waiting, busy, edge_seen, stopped>>
  BY <1>1 DEF PInv, Singles, Apart, Occupied, Nowhere, Runnable, Waiting
<1>2. CASE Settle
  <2>1. batch = <<>> /\ UNCHANGED <<batch, inactive, wheel, busy, stopped>>
    BY <1>2 DEF Settle, At, TInv, OneBatch
  <2>2. CASE Propagate(dirty \cup {"w"}, Hits({"w"}), active, edge_seen)
    <3>1. dirty \cup {"w"} \in SUBSET Nets /\ Hits({"w"}) \in SUBSET Procs
      BY <1>0, HitsType DEF Nets
    <3> QED BY <1>0, <2>1, <2>2, <3>1, WakePlaces
  <2>3. CASE UNCHANGED <<active, waits>>
    BY <1>1, <2>1, <2>3 DEF waits
  <2> QED BY <1>2, <2>2, <2>3 DEF Settle
<1>3. CASE EndBatch \/ PropagateLate
  <2>1. /\ batch = <<>> /\ Propagate(dirty, hit, active, edge_seen)
        /\ UNCHANGED <<batch, inactive, wheel, busy, stopped>>
    BY <1>3 DEF EndBatch, PropagateLate, Does, At, TInv, OneBatch, clock
  <2> QED BY <1>0, <2>1, WakePlaces
<1>4. CASE ApplyNba
  <2>1. /\ batch = <<>> /\ active = <<>>
        /\ Propagate(dirty \cup {"v"}, Hits({"v"}), active, {})
        /\ UNCHANGED <<batch, inactive, wheel, busy, stopped>>
    BY <1>4, RegionEmpty DEF ApplyNba, Does, At, TInv, OneBatch, clock
  <2>2. dirty \cup {"v"} \in SUBSET Nets /\ Hits({"v"}) \in SUBSET Procs
    BY <1>0, HitsType DEF Nets
  <2>3. Runnable = {}
    BY <2>1 DEF Runnable, Listed, ProcsOf
  <2> QED BY <1>0, <2>1, <2>2, <2>3, WakePlaces
<1>5. ASSUME NEW r, NEW Q, Mature(r, Q)
      PROVE  PInv'
  <2>1. /\ batch = <<>> /\ UNCHANGED <<batch, inactive, wheel, busy, stopped>>
        /\ \/ Propagate(dirty, hit, active, edge_seen)
           \/ UNCHANGED <<active, waits>>
    BY <1>5 DEF Mature, Does, At, TInv, OneBatch, clock
  <2>2. CASE Propagate(dirty, hit, active, edge_seen)
    BY <1>0, <2>1, <2>2, WakePlaces
  <2>3. CASE UNCHANGED <<active, waits>>
    BY <1>1, <2>1, <2>3 DEF waits
  <2> QED BY <2>1, <2>2, <2>3
<1>6. CASE FinishStep \/ Quiesce \/ UNCHANGED vars
  BY <1>1, <1>6 DEF FinishStep, Quiesce, vars, clock, waits
<1>7. CASE Body
  <2>1. ASSUME Statement
        PROVE  PInv'
    BY <1>1, <2>1 DEF Statement
  <2>2. CASE Write \/ Strobe \/ (\E d \in Delays : Assign(d))
               \/ (\E r \in {"Observed", "Reactive"}, c \in Controls : Defer(r, c))
    BY <2>1, <2>2 DEF Write, Strobe, Assign, Defer
  <2>3. CASE Finish \/ Done \/ \E c \in {"stop", "fatal"} : Abort(c)
    <3>1. Running /\ Yield
      BY <2>3 DEF Finish, Done, Abort, Yield
    <3>2. /\ UNCHANGED <<inactive, wheel, waiting>>
          /\ \/ UNCHANGED <<busy, stopped>>
             \/ busy' = busy \ {Cur} /\ UNCHANGED stopped
             \/ busy' = busy \cup {Cur} /\ stopped' = stopped \cup {Cur}
      BY <2>3 DEF Finish, Done, Abort, StopsAtFinish
    <3> QED BY <3>1, <3>2, YieldPlaces
  <2>4. ASSUME NEW d \in Delays, Delay(d)
        PROVE  PInv'
    <3>1. Running /\ Yield /\ busy' = busy \cup {Cur} /\ UNCHANGED <<stopped, waiting>>
      BY <2>4 DEF Delay, Suspend, Yield
    <3>2. CASE d = 0
      <4>1. inactive' = Append(inactive, Entry(Cur, "new")) /\ UNCHANGED wheel
        BY <2>4, <3>2 DEF Delay
      <4> QED BY <3>1, <4>1, YieldPlaces
    <3>3. CASE d # 0
      <4>1. now + d \in Times
        BY <1>0, RunLoopAssumption DEF TypeOK, Times
      <4>2. wheel' = [wheel EXCEPT ![now + d] = Append(@, Cur)] /\ UNCHANGED inactive
        BY <2>4, <3>3 DEF Delay
      <4>3. \E t \in Times : wheel' = [wheel EXCEPT ![t] = Append(@, Cur)]
        BY <4>1, <4>2
      <4> QED BY <3>1, <4>2, <4>3, YieldPlaces
    <3> QED BY <3>2, <3>3
  <2>5. ASSUME NEW w \in Wait, WaitOn(w)
        PROVE  PInv'
    <3>1. /\ Running /\ Yield /\ busy' = busy \cup {Cur} /\ UNCHANGED <<stopped, inactive, wheel>>
          /\ waiting' = [waiting EXCEPT ![Cur] = w]
      BY <2>5 DEF WaitOn, Suspend, Yield
    <3> QED BY <3>1, YieldPlaces
  <2> QED BY <1>7, <2>2, <2>3, <2>4, <2>5 DEF Body
<1> QED BY <1>2, <1>3, <1>4, <1>5, <1>6, <1>7, PromotePlaces, AdvancePlaces, BatchPlaces
        DEF Next, Step, Ended

\* Each process is in one place, in every state of a run.
LEMMA Placed == Spec => [](TInv /\ PInv)
<1>1. Init => PInv
  BY PInvInit
<1>2. TInv /\ PInv /\ [Next]_vars => PInv'
  BY PInvStep
<1> QED BY <1>1, <1>2, Typed, PTL DEF Spec

\* Where the places of a process are.
LEMMA PlacesOf ==
    ASSUME NEW p, NEW x \in Places(p), p \in Procs
    PROVE  \/ \E i \in 1 .. Len(batch) : batch[i] = p /\ x = <<"batch", 0, i>>
           \/ \E i \in 1 .. Len(active) : active[i].proc = p /\ x = <<"active", 0, i>>
           \/ \E i \in 1 .. Len(inactive) : inactive[i].proc = p /\ x = <<"inactive", 0, i>>
           \/ \E t \in Times : \E i \in 1 .. Len(wheel[t]) :
                 wheel[t][i] = p /\ x = <<"wheel", t, i>>
           \/ p \in Waiting /\ x = <<"waiting", 0, 0>>
<1> DEFINE B == {<<"batch", 0, i>> : i \in {j \in 1 .. Len(batch) : batch[j] = p}}
           A == {<<"active", 0, i>> : i \in {j \in 1 .. Len(active) : active[j].proc = p}}
           I == {<<"inactive", 0, i>> : i \in {j \in 1 .. Len(inactive) : inactive[j].proc = p}}
           T == UNION {{<<"wheel", t, i>> : i \in {j \in 1 .. Len(wheel[t]) : wheel[t][j] = p}} :
                          t \in Times}
           S == IF waiting[p] = NoWait THEN {} ELSE {<<"waiting", 0, 0>>}
<1>1. x \in B \cup A \cup I \cup T \cup S
  <2>1. Places(p) = B \cup A \cup I \cup T \cup S
    BY DEF Places
  <2> HIDE DEF B, A, I, T, S
  <2> QED BY <2>1
<1>2. CASE x \in B
  BY <1>2
<1>3. CASE x \in A
  BY <1>3
<1>4. CASE x \in I
  BY <1>4
<1>5. CASE x \in T
  <2>1. PICK t \in Times :
            x \in {<<"wheel", t, i>> : i \in {j \in 1 .. Len(wheel[t]) : wheel[t][j] = p}}
    BY <1>5
  <2>2. \E i \in 1 .. Len(wheel[t]) : wheel[t][i] = p /\ x = <<"wheel", t, i>>
    BY <2>1
  <2>3. \E u \in Times : \E i \in 1 .. Len(wheel[u]) : wheel[u][i] = p /\ x = <<"wheel", u, i>>
    BY <2>2
  <2> QED BY <2>3
<1>6. CASE x \in S
  BY <1>6 DEF Waiting
<1> HIDE DEF B, A, I, T, S
<1> QED BY <1>1, <1>2, <1>3, <1>4, <1>5, <1>6

\* The invariant, in terms of places.
LEMMA OnePlace == ASSUME TInv, PInv PROVE OneEntry /\ StopsForGood
<1> DEFINE InBatch(p, x)    == \E i \in 1 .. Len(batch) : batch[i] = p /\ x = <<"batch", 0, i>>
           InActive(p, x)   == \E i \in 1 .. Len(active) :
                                  active[i].proc = p /\ x = <<"active", 0, i>>
           InInactive(p, x) == \E i \in 1 .. Len(inactive) :
                                  inactive[i].proc = p /\ x = <<"inactive", 0, i>>
           InWheel(p, x)    == \E t \in Times : \E i \in 1 .. Len(wheel[t]) :
                                  wheel[t][i] = p /\ x = <<"wheel", t, i>>
           Suspended(p, x)  == p \in Waiting /\ x = <<"waiting", 0, 0>>
<1>1. ASSUME NEW p \in Procs, NEW x \in Places(p)
      PROVE  InBatch(p, x) \/ InActive(p, x) \/ InInactive(p, x) \/ InWheel(p, x)
               \/ Suspended(p, x)
  BY PlacesOf
<1>2. ASSUME NEW p, NEW x
      PROVE  /\ InBatch(p, x) => p \in Listed(batch)
             /\ InActive(p, x) => p \in ProcsOf(active)
             /\ InInactive(p, x) => p \in ProcsOf(inactive)
             /\ InWheel(p, x) => \E t \in Times : p \in Listed(wheel[t])
             /\ Suspended(p, x) => p \in Waiting
  BY DEF Listed, ProcsOf
<1>3. ~(\E p : p \in Listed(batch) /\ p \in ProcsOf(active))
  <2>1. batch = <<>> \/ active = <<>>
    BY DEF TInv, OneBatch
  <2> QED BY <2>1 DEF Listed, ProcsOf
<1>4. ASSUME NEW p, NEW x, NEW y
      PROVE  /\ InBatch(p, x) /\ InBatch(p, y) => x = y
             /\ InActive(p, x) /\ InActive(p, y) => x = y
             /\ InInactive(p, x) /\ InInactive(p, y) => x = y
             /\ Suspended(p, x) /\ Suspended(p, y) => x = y
  BY DEF PInv, Singles, Once, OnceP
<1>5. ASSUME NEW p, NEW x, NEW y, InWheel(p, x), InWheel(p, y)
      PROVE  x = y
  <2>1. PICK t \in Times : \E i \in 1 .. Len(wheel[t]) :
                 wheel[t][i] = p /\ x = <<"wheel", t, i>>
    BY <1>5
  <2>2. PICK i \in 1 .. Len(wheel[t]) : wheel[t][i] = p /\ x = <<"wheel", t, i>>
    BY <2>1
  <2>3. PICK u \in Times : \E j \in 1 .. Len(wheel[u]) :
                 wheel[u][j] = p /\ y = <<"wheel", u, j>>
    BY <1>5
  <2>4. PICK j \in 1 .. Len(wheel[u]) : wheel[u][j] = p /\ y = <<"wheel", u, j>>
    BY <2>3
  <2>5. p \in Listed(wheel[t]) /\ p \in Listed(wheel[u])
    BY <2>2, <2>4 DEF Listed
  <2>6. t = u
    BY <2>5 DEF PInv, Apart
  <2>7. i = j
    BY <2>2, <2>4, <2>6 DEF PInv, Singles, OnceP
  <2> QED BY <2>2, <2>4, <2>6, <2>7
<1> HIDE DEF InBatch, InActive, InInactive, InWheel, Suspended
<1>6. ASSUME NEW p \in Procs, NEW x \in Places(p), NEW y \in Places(p)
      PROVE  x = y
  <2>1. /\ ~(p \in Listed(batch) \cup ProcsOf(active) /\ p \in ProcsOf(inactive))
        /\ ~(p \in Waiting /\ p \in Listed(batch) \cup ProcsOf(active) \cup ProcsOf(inactive))
        /\ ~((\E t \in Times : p \in Listed(wheel[t]))
               /\ p \in Listed(batch) \cup ProcsOf(active) \cup ProcsOf(inactive) \cup Waiting)
    BY DEF PInv, Apart, Runnable
  <2> QED BY <1>1, <1>2, <1>3, <1>4, <1>5, <1>6, <2>1
<1>7. ASSUME NEW p \in stopped, NEW x \in Places(p)
      PROVE  FALSE
  <2>1. p \in Procs
    BY DEF TInv, TypeOK
  <2>2. /\ p \notin Listed(batch) /\ p \notin ProcsOf(active) /\ p \notin ProcsOf(inactive)
        /\ p \notin Waiting /\ ~(\E t \in Times : p \in Listed(wheel[t]))
    BY DEF PInv, Nowhere, Runnable
  <2> QED BY <1>1, <1>2, <1>7, <2>1, <2>2
<1> QED BY <1>6, <1>7 DEF OneEntry, StopsForGood

\* However many nets, delays and updates wake it, a process is in one run queue, once,
\* or suspended on one wait (propagate_changes).
THEOREM RunsInOnePlace == Spec => []OneEntry
<1> QED BY Placed, OnePlace, PTL

\* A process that has reached `$finish` is never scheduled again (Step::Finish).
THEOREM FinishedForGood == Spec => []StopsForGood
<1> QED BY Placed, OnePlace, PTL
=============================================================================
