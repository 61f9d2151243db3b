--------------------------- MODULE WideArithProofs --------------------------
(***************************************************************************)
(* The operators on words are the tables of one bit, for words of any      *)
(* size, and drivers may be resolved in any order; the operators on values *)
(* do to every bit of a value of any width what is meant for it, whatever  *)
(* words the bits fall in; and the operators on words of numbers add,      *)
(* negate, multiply and divide, the carries between the words included.    *)
(* WordBits and all widths are arbitrary.                                  *)
(***************************************************************************)
EXTENDS WideArith, Sequences, WellFoundedInduction, FiniteSetTheorems, TLAPS

(* Induction over the naturals, for sets: the prover cannot instantiate the *)
(* library's induction rules, whose predicate is an operator.               *)

\* A set of naturals has a least element.
LEMMA LeastNat ==
    ASSUME NEW S \in SUBSET Nat, S # {}
    PROVE  \E m \in S : \A n \in S : m <= n
<1> DEFINE R == {ss \in Nat \X Nat : ss[1] < ss[2]}
<1>1. IsWellFoundedOn(R, Nat)
  BY NatLessThanWellFounded DEF OpToRel
<1>2. \A x, y \in Nat : <<y, x>> \in R <=> y < x
  OBVIOUS
<1> HIDE DEF R
<1>3. PICK x \in S : \A y \in S : ~(<<y, x>> \in R)
  BY <1>1, WFMin
<1>4. ASSUME NEW y \in S
      PROVE  x <= y
  <2>1. x \in Nat /\ y \in Nat /\ ~(<<y, x>> \in R)
    BY <1>3
  <2>2. ~(y < x)
    BY <1>2, <2>1
  <2> QED BY <2>1, <2>2
<1> QED BY <1>4

\* A set that holds 0 and the successor of each member holds every natural.
LEMMA SetInduction ==
    ASSUME NEW P, 0 \in P, \A n \in Nat : n \in P => n + 1 \in P
    PROVE  Nat \subseteq P
<1> SUFFICES ASSUME Nat \ P # {} PROVE FALSE
  OBVIOUS
<1>1. PICK m \in Nat \ P : \A n \in Nat \ P : m <= n
  BY LeastNat
<1>2. m - 1 \in Nat /\ m - 1 \in P
  BY <1>1
<1> QED BY <1>1, <1>2

\* The operators on words are the tables on every bit: no bit of a word
\* influences another (and_w, or_w, xor_w, xnor_w, not_w, merge_x_word).
THEOREM WordIsTable ==
    ASSUME NEW a \in Quad, NEW b \in Quad, NEW i \in Bit
    PROVE  /\ State(and_w(a, b), i)  = AndBit(State(a, i), State(b, i))
           /\ State(or_w(a, b), i)   = OrBit(State(a, i), State(b, i))
           /\ State(xor_w(a, b), i)  = XorBit(State(a, i), State(b, i))
           /\ State(xnor_w(a, b), i) = NotBit(XorBit(State(a, i), State(b, i)))
           /\ State(not_w(a), i)     = NotBit(State(a, i))
           /\ State(merge_x_word(a, b), i) = MergeBit(State(a, i), State(b, i))
  <1> USE DEF Quad, Word, Not, State, Known0, Known1, Definite, Differ, Unknown
  <1>1. State(and_w(a, b), i)  = AndBit(State(a, i), State(b, i))
    BY DEF and_w, AndBit
  <1>2. State(or_w(a, b), i)   = OrBit(State(a, i), State(b, i))
    BY DEF or_w, OrBit
  <1>3. State(xor_w(a, b), i)  = XorBit(State(a, i), State(b, i))
    BY DEF xor_w, XorBit, Defined
  <1>4. State(xnor_w(a, b), i) = NotBit(XorBit(State(a, i), State(b, i)))
    BY DEF xnor_w, XorBit, NotBit, Defined
  <1>5. State(not_w(a), i) = NotBit(State(a, i))
    BY DEF not_w, NotBit
  <1>6. State(merge_x_word(a, b), i) = MergeBit(State(a, i), State(b, i))
    BY DEF merge_x_word, MergeBit, Same
  <1> QED BY <1>1, <1>2, <1>3, <1>4, <1>5, <1>6

\* Two drivers of a word resolve to the tables of 6.6 on every bit
\* (resolve_wire_into, resolve_wand_into, resolve_wor_into).
THEOREM ResolutionIsTable ==
    ASSUME NEW a \in Quad, NEW b \in Quad, NEW i \in Bit
    PROVE  /\ State(resolve_wire_into(a, b), i) = WireBit(State(a, i), State(b, i))
           /\ State(resolve_wand_into(a, b), i) = WandBit(State(a, i), State(b, i))
           /\ State(resolve_wor_into(a, b), i)  = WorBit(State(a, i), State(b, i))
  <1> USE DEF Quad, Word, Not, State, Known0, Known1, Differ, Same, IsZ, Both, Resolves
  <1>1. State(resolve_wire_into(a, b), i) = WireBit(State(a, i), State(b, i))
    BY DEF resolve_wire_into, WireBit
  <1>2. State(resolve_wand_into(a, b), i) = WandBit(State(a, i), State(b, i))
    BY DEF resolve_wand_into, WandBit, AndBit
  <1>3. State(resolve_wor_into(a, b), i) = WorBit(State(a, i), State(b, i))
    BY DEF resolve_wor_into, WorBit, OrBit
  <1> QED BY <1>1, <1>2, <1>3

\* What resolves two words is a word again.
LEMMA ResolutionType ==
    ASSUME NEW a \in Quad, NEW b \in Quad
    PROVE  /\ resolve_wire_into(a, b) \in Quad
           /\ resolve_wand_into(a, b) \in Quad
           /\ resolve_wor_into(a, b) \in Quad
  BY DEF resolve_wire_into, resolve_wand_into, resolve_wor_into, Resolves, Both,
         Same, Differ, Known0, Known1, IsZ, Not, Quad, Word

\* Two words are equal when all their bits are.
LEMMA QuadEqual ==
    ASSUME NEW p \in Quad, NEW q \in Quad, \A i \in Bit : State(p, i) = State(q, i)
    PROVE  p = q
  <1>1. p.val = q.val
    BY DEF State, Quad, Word
  <1>2. p.unk = q.unk
    BY DEF State, Quad, Word
  <1> QED BY <1>1, <1>2 DEF Quad

\* A state is one of four.
Four == {"0", "1", "x", "z"}

\* A state is one of the four.
LEMMA StateType == ASSUME NEW q, NEW i PROVE State(q, i) \in Four
  BY DEF State, Four

\* A driver at z everywhere changes nothing: the fold may start from it.
THEOREM ZIsIdentity ==
    ASSUME NEW a \in Quad, NEW z \in Quad, \A i \in Bit : State(z, i) = "z"
    PROVE  /\ resolve_wire_into(z, a) = a
           /\ resolve_wand_into(z, a) = a
           /\ resolve_wor_into(z, a)  = a
  <1>1. ASSUME NEW i \in Bit
        PROVE  /\ State(resolve_wire_into(z, a), i) = State(a, i)
               /\ State(resolve_wand_into(z, a), i) = State(a, i)
               /\ State(resolve_wor_into(z, a), i)  = State(a, i)
    BY ResolutionIsTable DEF WireBit, WandBit, WorBit
  <1> QED BY <1>1, ResolutionType, QuadEqual

\* The order in which the drivers of a net are folded does not matter: the
\* resolutions commute and associate (resolve_md_group; the claim of the
\* comment on resolve_wire_into).
THEOREM ResolutionAnyOrder ==
    ASSUME NEW a \in Quad, NEW b \in Quad, NEW c \in Quad
    PROVE  /\ resolve_wire_into(a, b) = resolve_wire_into(b, a)
           /\ resolve_wand_into(a, b) = resolve_wand_into(b, a)
           /\ resolve_wor_into(a, b)  = resolve_wor_into(b, a)
           /\ resolve_wire_into(resolve_wire_into(a, b), c)
                = resolve_wire_into(a, resolve_wire_into(b, c))
           /\ resolve_wand_into(resolve_wand_into(a, b), c)
                = resolve_wand_into(a, resolve_wand_into(b, c))
           /\ resolve_wor_into(resolve_wor_into(a, b), c)
                = resolve_wor_into(a, resolve_wor_into(b, c))
  <1>1. \A p, q \in Four : /\ WireBit(p, q) = WireBit(q, p)
                           /\ WandBit(p, q) = WandBit(q, p)
                           /\ WorBit(p, q)  = WorBit(q, p)
    BY DEF Four, WireBit, WandBit, WorBit, AndBit, OrBit
  <1>2. \A p, q, s \in Four :
           /\ WireBit(WireBit(p, q), s) = WireBit(p, WireBit(q, s))
           /\ WandBit(WandBit(p, q), s) = WandBit(p, WandBit(q, s))
           /\ WorBit(WorBit(p, q), s)   = WorBit(p, WorBit(q, s))
    BY DEF Four, WireBit, WandBit, WorBit, AndBit, OrBit
  <1>3. resolve_wire_into(a, b) = resolve_wire_into(b, a)
    <2>1. resolve_wire_into(a, b) \in Quad /\ resolve_wire_into(b, a) \in Quad
      BY ResolutionType
    <2>2. ASSUME NEW i \in Bit PROVE State(resolve_wire_into(a, b), i) = State(resolve_wire_into(b, a), i)
      BY <1>1, StateType, ResolutionIsTable
    <2> QED BY <2>1, <2>2, QuadEqual
  <1>4. resolve_wand_into(a, b) = resolve_wand_into(b, a)
    <2>1. resolve_wand_into(a, b) \in Quad /\ resolve_wand_into(b, a) \in Quad
      BY ResolutionType
    <2>2. ASSUME NEW i \in Bit PROVE State(resolve_wand_into(a, b), i) = State(resolve_wand_into(b, a), i)
      BY <1>1, StateType, ResolutionIsTable
    <2> QED BY <2>1, <2>2, QuadEqual
  <1>5. resolve_wor_into(a, b) = resolve_wor_into(b, a)
    <2>1. resolve_wor_into(a, b) \in Quad /\ resolve_wor_into(b, a) \in Quad
      BY ResolutionType
    <2>2. ASSUME NEW i \in Bit PROVE State(resolve_wor_into(a, b), i) = State(resolve_wor_into(b, a), i)
      BY <1>1, StateType, ResolutionIsTable
    <2> QED BY <2>1, <2>2, QuadEqual
  <1>6. resolve_wire_into(resolve_wire_into(a, b), c) = resolve_wire_into(a, resolve_wire_into(b, c))
    <2>1. resolve_wire_into(a, b) \in Quad /\ resolve_wire_into(b, c) \in Quad
      BY ResolutionType
    <2>2. /\ resolve_wire_into(resolve_wire_into(a, b), c) \in Quad
          /\ resolve_wire_into(a, resolve_wire_into(b, c)) \in Quad
      BY <2>1, ResolutionType
    <2>3. ASSUME NEW i \in Bit
          PROVE  State(resolve_wire_into(resolve_wire_into(a, b), c), i) = State(resolve_wire_into(a, resolve_wire_into(b, c)), i)
      <3> DEFINE p == State(a, i)  q == State(b, i)  s == State(c, i)
      <3>1. State(resolve_wire_into(resolve_wire_into(a, b), c), i) = WireBit(WireBit(p, q), s)
        BY <2>1, ResolutionIsTable
      <3>2. State(resolve_wire_into(a, resolve_wire_into(b, c)), i) = WireBit(p, WireBit(q, s))
        BY <2>1, ResolutionIsTable
      <3> QED BY <1>2, <3>1, <3>2, StateType
    <2> QED BY <2>2, <2>3, QuadEqual
  <1>7. resolve_wand_into(resolve_wand_into(a, b), c) = resolve_wand_into(a, resolve_wand_into(b, c))
    <2>1. resolve_wand_into(a, b) \in Quad /\ resolve_wand_into(b, c) \in Quad
      BY ResolutionType
    <2>2. /\ resolve_wand_into(resolve_wand_into(a, b), c) \in Quad
          /\ resolve_wand_into(a, resolve_wand_into(b, c)) \in Quad
      BY <2>1, ResolutionType
    <2>3. ASSUME NEW i \in Bit
          PROVE  State(resolve_wand_into(resolve_wand_into(a, b), c), i) = State(resolve_wand_into(a, resolve_wand_into(b, c)), i)
      <3> DEFINE p == State(a, i)  q == State(b, i)  s == State(c, i)
      <3>1. State(resolve_wand_into(resolve_wand_into(a, b), c), i) = WandBit(WandBit(p, q), s)
        BY <2>1, ResolutionIsTable
      <3>2. State(resolve_wand_into(a, resolve_wand_into(b, c)), i) = WandBit(p, WandBit(q, s))
        BY <2>1, ResolutionIsTable
      <3> QED BY <1>2, <3>1, <3>2, StateType
    <2> QED BY <2>2, <2>3, QuadEqual
  <1>8. resolve_wor_into(resolve_wor_into(a, b), c) = resolve_wor_into(a, resolve_wor_into(b, c))
    <2>1. resolve_wor_into(a, b) \in Quad /\ resolve_wor_into(b, c) \in Quad
      BY ResolutionType
    <2>2. /\ resolve_wor_into(resolve_wor_into(a, b), c) \in Quad
          /\ resolve_wor_into(a, resolve_wor_into(b, c)) \in Quad
      BY <2>1, ResolutionType
    <2>3. ASSUME NEW i \in Bit
          PROVE  State(resolve_wor_into(resolve_wor_into(a, b), c), i) = State(resolve_wor_into(a, resolve_wor_into(b, c)), i)
      <3> DEFINE p == State(a, i)  q == State(b, i)  s == State(c, i)
      <3>1. State(resolve_wor_into(resolve_wor_into(a, b), c), i) = WorBit(WorBit(p, q), s)
        BY <2>1, ResolutionIsTable
      <3>2. State(resolve_wor_into(a, resolve_wor_into(b, c)), i) = WorBit(p, WorBit(q, s))
        BY <2>1, ResolutionIsTable
      <3> QED BY <1>2, <3>1, <3>2, StateType
    <2> QED BY <2>2, <2>3, QuadEqual
  <1> QED BY <1>3, <1>4, <1>5, <1>6, <1>7, <1>8

-----------------------------------------------------------------------------
(* The bits of planes and values.                                          *)
\* Whether a plane has bit i.
Has(plane, i) == i % WordBits \in At(plane, i \div WordBits)

\* The canonical values.
Values == UNION {[val : PlanesOf(w), unk : PlanesOf(w), width : {w}, signed : BOOLEAN] : w \in Nat}

\* A bit from its two planes.
Symbol(one, unknown) == IF unknown THEN IF one THEN "z" ELSE "x" ELSE IF one THEN "1" ELSE "0"

\* A plane that has only bits of words in the words of the width w.
Wordwise(plane, w) == \A k \in Index(w) : At(plane, k) \subseteq Bit

\* The word and the place in it of a bit.
LEMMA PlaceOf ==
    ASSUME NEW i \in Nat
    PROVE  /\ i \div WordBits \in Nat /\ i % WordBits \in Bit /\ i % WordBits \in Nat
           /\ i = (i \div WordBits) * WordBits + (i % WordBits)
BY WordBitsAssumption DEF Bit

\* A word and a bit of it give the place back.
LEMMA PlaceIs ==
    ASSUME NEW k \in Nat, NEW b \in Bit
    PROVE  /\ k * WordBits + b \in Nat
           /\ (k * WordBits + b) \div WordBits = k /\ (k * WordBits + b) % WordBits = b
BY WordBitsAssumption DEF Bit

\* The words of places are in order.
LEMMA WordOrder ==
    ASSUME NEW k \in Nat, NEW j \in Nat
    PROVE  /\ k * WordBits \in Nat
           /\ k < j => k * WordBits + WordBits <= j * WordBits
           /\ k <= j => k * WordBits <= j * WordBits
BY WordBitsAssumption

\* How many words a width takes, and how full the last one is.
LEMMA LastWord ==
    ASSUME NEW w \in Nat
    PROVE  /\ NWords(w) \in Nat \ {0} /\ NWords(w) - 1 \in Nat
           /\ nwords(w) \in Nat
           /\ w = 0 => nwords(w) = 0 /\ NWords(w) = 1 /\ top_mask(w) = {}
           /\ w # 0 => /\ nwords(w) = NWords(w)
                       /\ (NWords(w) - 1) * WordBits < w
                       /\ w <= (NWords(w) - 1) * WordBits + WordBits
                       /\ top_mask(w) = {b \in Bit : (NWords(w) - 1) * WordBits + b < w}
           /\ top_mask(w) \subseteq Bit
<1>1. CASE w = 0
  <2>1. nwords(w) = 0
    BY <1>1, WordBitsAssumption DEF nwords
  <2> QED BY <1>1, <2>1 DEF NWords, Mx, top_mask
<1>2. CASE w # 0
  <2> DEFINE m == w - 1
  <2>1. m \in Nat /\ w = m + 1
    BY <1>2
  <2>2. /\ m \div WordBits \in Nat /\ m % WordBits \in Bit
        /\ m = (m \div WordBits) * WordBits + (m % WordBits)
    BY <2>1, PlaceOf
  <2>3. nwords(w) = m \div WordBits + 1
    BY <2>1, WordBitsAssumption DEF nwords
  <2>4. NWords(w) = m \div WordBits + 1
    BY <2>2, <2>3 DEF NWords, Mx
  <2> DEFINE k == m \div WordBits
  <2>5. NWords(w) - 1 = k /\ k \in Nat
    BY <2>2, <2>4
  <2>6. k * WordBits < w /\ w <= k * WordBits + WordBits
    BY <2>1, <2>2, WordBitsAssumption DEF Bit
  <2>7. top_mask(w) = {b \in Bit : k * WordBits + b < w}
    <3> DEFINE c == (m % WordBits) + 1
    <3>1. /\ k * WordBits \in Nat /\ c \in Nat \ {0} /\ c <= WordBits
          /\ w = k * WordBits + c
      BY <2>1, <2>2, WordOrder, WordBitsAssumption DEF Bit
    <3>2. WordBits \in Nat
      BY WordBitsAssumption
    <3> HIDE DEF k, m, c
    <3>3. CASE c = WordBits
      <4>1. (k + 1) * WordBits = k * WordBits + WordBits
        BY <2>5, <3>2
      <4>2. 0 \in Bit
        BY WordBitsAssumption DEF Bit
      <4>3. ((k + 1) * WordBits + 0) % WordBits = 0
        BY <2>5, <4>2, PlaceIs
      <4>4. (k + 1) * WordBits + 0 = w
        BY <3>1, <3>2, <3>3, <4>1
      <4>5. w % WordBits = 0
        BY <4>3, <4>4
      <4>6. \A d \in Bit : k * WordBits + d < w
        BY <3>1, <3>2, <3>3 DEF Bit
      <4> QED BY <1>2, <4>5, <4>6 DEF top_mask
    <3>4. CASE c < WordBits
      <4>1. c \in Bit
        BY <3>1, <3>2, <3>4 DEF Bit
      <4>2. w % WordBits = c
        BY <2>5, <3>1, <4>1, PlaceIs
      <4>3. top_mask(w) = {d \in Bit : d < c}
        BY <1>2, <3>1, <4>2 DEF top_mask, low_mask
      <4>4. \A d \in Bit : d < c <=> k * WordBits + d < w
        BY <3>1, <3>2 DEF Bit
      <4> QED BY <4>3, <4>4
    <3> QED BY <3>1, <3>2, <3>3, <3>4
  <2> HIDE DEF k, m
  <2> QED BY <1>2, <2>3, <2>4, <2>5, <2>6, <2>7 DEF k
<1> QED BY <1>1, <1>2

\* Masking keeps the bits below the width and no others.
LEMMA MaskedBits ==
    ASSUME NEW plane, NEW w \in Nat, Wordwise(plane, w)
    PROVE  /\ Masked(plane, w) \in PlanesOf(w)
           /\ \A i \in Nat : Has(Masked(plane, w), i) <=> i < w /\ Has(plane, i)
<1> DEFINE last == NWords(w) - 1
           p == Masked(plane, w)
<1>1. /\ last \in Nat /\ Index(w) = 0 .. last /\ top_mask(w) \subseteq Bit
  BY LastWord DEF Index
<1>2. \A k \in Index(w) : p[k] = IF k = last THEN At(plane, k) \cap top_mask(w) ELSE At(plane, k)
  BY DEF Masked
<1>3. DOMAIN p = Index(w) /\ p = [k \in Index(w) |-> p[k]]
  BY DEF Masked
<1> HIDE DEF p
<1>4. p \in PlanesOf(w)
  <2>1. \A k \in Index(w) : p[k] \in Word
    BY <1>2 DEF Word, Wordwise
  <2>2. p \in [Index(w) -> Word]
    BY <1>3, <2>1
  <2>3. p[last] \subseteq top_mask(w)
    <3>1. last \in Index(w)
      BY <1>1
    <3> QED BY <1>2, <3>1
  <2> QED BY <2>2, <2>3 DEF PlanesOf
<1>5. ASSUME NEW i \in Nat PROVE Has(p, i) <=> i < w /\ Has(plane, i)
  <2> DEFINE k == i \div WordBits  b == i % WordBits
  <2>1. k \in Nat /\ b \in Bit /\ b \in Nat /\ i = k * WordBits + b
    BY PlaceOf
  <2> HIDE DEF last
  <2>2. CASE w = 0
    <3>1. last = 0 /\ top_mask(w) = {}
      BY <2>2, LastWord DEF last
    <3>2. At(p, k) = {}
      BY <1>1, <1>2, <1>3, <3>1 DEF At
    <3> QED BY <2>2, <3>2 DEF Has
  <2>3. CASE w # 0
    <3>1. /\ last * WordBits < w /\ w <= last * WordBits + WordBits
          /\ top_mask(w) = {c \in Bit : last * WordBits + c < w}
      BY <2>3, LastWord DEF last
    <3>2. CASE k < last
      <4>1. k \in Index(w) /\ k # last
        BY <1>1, <2>1, <3>2
      <4>5. At(p, k) = At(plane, k)
        BY <1>2, <1>3, <4>1 DEF At
      <4>2. k * WordBits + WordBits <= last * WordBits /\ last * WordBits \in Nat /\ k * WordBits \in Nat
        BY <1>1, <2>1, <3>2, WordOrder
      <4>3. i < w
        BY <2>1, <3>1, <4>2, WordBitsAssumption DEF Bit
      <4> QED BY <4>5, <4>3 DEF Has
    <3>3. CASE k = last
      <4>1. At(p, k) = At(plane, k) \cap top_mask(w)
        BY <1>1, <1>2, <1>3, <2>1, <3>3 DEF At
      <4>2. b \in top_mask(w) <=> i < w
        BY <2>1, <3>1, <3>3
      <4> QED BY <4>1, <4>2 DEF Has
    <3>4. CASE k > last
      <4>1. At(p, k) = {}
        BY <1>1, <1>3, <2>1, <3>4 DEF At
      <4>2. last * WordBits + WordBits <= k * WordBits /\ last * WordBits \in Nat /\ k * WordBits \in Nat
        BY <1>1, <2>1, <3>4, WordOrder
      <4>3. ~(i < w)
        BY <2>1, <3>1, <4>2, WordBitsAssumption DEF Bit
      <4> QED BY <4>1, <4>3 DEF Has
    <3> QED BY <1>1, <2>1, <3>2, <3>3, <3>4
  <2> QED BY <2>2, <2>3
<1> QED BY <1>4, <1>5 DEF p

\* A bit below the width is in a word of the width.
LEMMA BelowIsIn ==
    ASSUME NEW w \in Nat, NEW i \in Nat, i < w
    PROVE  i \div WordBits \in Index(w) /\ i \div WordBits < nwords(w)
<1> DEFINE k == i \div WordBits  last == NWords(w) - 1
<1>1. k \in Nat /\ i = k * WordBits + (i % WordBits) /\ i % WordBits \in Nat /\ k * WordBits \in Nat
  BY PlaceOf, WordOrder
<1>2. last \in Nat /\ nwords(w) = last + 1 /\ w <= last * WordBits + WordBits /\ nwords(w) \in Nat
  BY LastWord
<1> HIDE DEF k, last
<1>3. ~(last < k)
  <2>1. last < k => last * WordBits + WordBits <= k * WordBits /\ last * WordBits \in Nat
    BY <1>1, <1>2, WordOrder
  <2> QED BY <1>1, <1>2, <2>1, WordBitsAssumption
<1>4. k \in 0 .. last /\ k < nwords(w)
  BY <1>1, <1>2, <1>3
<1> QED BY <1>4 DEF k, last, Index

\* A word of a width holds the bits from its first one on.
LEMMA WordStarts ==
    ASSUME NEW w \in Nat, NEW k \in Nat
    PROVE  k < nwords(w) <=> k * WordBits < w
<1>1. k * WordBits \in Nat
  BY WordOrder
<1>2. ASSUME k * WordBits < w PROVE k < nwords(w)
  <2>1. (k * WordBits + 0) \div WordBits = k
    BY PlaceIs, WordBitsAssumption DEF Bit
  <2>2. (k * WordBits) \div WordBits = k
    BY <1>1, <2>1
  <2> QED BY <1>1, <1>2, <2>2, BelowIsIn
<1>3. ASSUME k < nwords(w) PROVE k * WordBits < w
  <2>1. /\ w # 0 /\ nwords(w) = NWords(w) /\ nwords(w) \in Nat /\ NWords(w) - 1 \in Nat
        /\ (NWords(w) - 1) * WordBits < w
    BY <1>3, LastWord
  <2>2. k <= NWords(w) - 1
    BY <1>3, <2>1
  <2>3. k * WordBits <= (NWords(w) - 1) * WordBits /\ (NWords(w) - 1) * WordBits \in Nat
    BY <2>1, <2>2, WordOrder
  <2> QED BY <1>1, <2>1, <2>3
<1> QED BY <1>2, <1>3

\* A canonical plane has no bit beyond its width.
LEMMA NothingBeyond ==
    ASSUME NEW w \in Nat, NEW plane \in PlanesOf(w)
    PROVE  /\ Wordwise(plane, w) /\ DOMAIN plane = Index(w)
           /\ Masked(plane, w) = plane
           /\ \A i \in Nat : Has(plane, i) => i < w
           /\ \A k \in Nat : At(plane, k) \subseteq Bit
<1>1. /\ plane \in [Index(w) -> Word]
      /\ plane[NWords(w) - 1] \subseteq top_mask(w)
  BY DEF PlanesOf
<1>2. \A k : At(plane, k) \subseteq Bit
  BY <1>1 DEF At, Word
<1>3. Wordwise(plane, w)
  BY <1>2 DEF Wordwise
<1>4. Masked(plane, w) = plane
  <2>1. \A k \in Index(w) : At(plane, k) = plane[k]
    BY <1>1 DEF At
  <2>2. \A k \in Index(w) : Masked(plane, w)[k] = plane[k]
    BY <1>1, <2>1 DEF Masked
  <2>3. Masked(plane, w) = [k \in Index(w) |-> Masked(plane, w)[k]]
    BY DEF Masked
  <2> QED BY <1>1, <2>2, <2>3
<1>5. \A i \in Nat : Has(plane, i) => i < w
  BY <1>3, <1>4, MaskedBits
<1> QED BY <1>1, <1>2, <1>3, <1>4, <1>5

\* A bit of a value is the symbol of its planes.
LEMMA BitOfPlanes ==
    ASSUME NEW v, NEW i
    PROVE  /\ BitOf(v, i) = Symbol(Has(v.val, i), Has(v.unk, i))
           /\ get_vu(v, i) = [val |-> Has(v.val, i), unk |-> Has(v.unk, i)]
BY DEF BitOf, Quads, State, Symbol, Has, get_vu

\* The parts of a value.
LEMMA ValueParts ==
    ASSUME NEW v \in Values
    PROVE  /\ v.width \in Nat /\ v.signed \in BOOLEAN
           /\ v.val \in PlanesOf(v.width) /\ v.unk \in PlanesOf(v.width)
           /\ v = [val |-> v.val, unk |-> v.unk, width |-> v.width, signed |-> v.signed]
BY DEF Values

\* What is proved to be in Values is canonical as the code has it, and a record
\* of two planes that is canonical is in Values (is_canonical).
LEMMA CanonicalIsValue ==
    ASSUME NEW w \in Nat, NEW val \in [Index(w) -> Word], NEW unk \in [Index(w) -> Word],
           NEW s \in BOOLEAN, NEW v, v = [val |-> val, unk |-> unk, width |-> w, signed |-> s]
    PROVE  is_canonical(v) <=> v \in Values
<1>1. v.val = val /\ v.unk = unk /\ v.width = w /\ v.signed = s
  OBVIOUS
<1>2. ASSUME v \in Values PROVE is_canonical(v)
  <2>1. val \in PlanesOf(w) /\ unk \in PlanesOf(w)
    BY <1>1, <1>2, ValueParts
  <2> QED BY <1>1, <2>1, NothingBeyond DEF is_canonical, Index
<1>3. ASSUME is_canonical(v) PROVE v \in Values
  <2>1. val = Masked(val, w) /\ unk = Masked(unk, w)
    BY <1>1, <1>3 DEF is_canonical
  <2>2. Wordwise(val, w) /\ Wordwise(unk, w)
    BY DEF Wordwise, At, Word
  <2>3. val \in PlanesOf(w) /\ unk \in PlanesOf(w)
    BY <2>1, <2>2, MaskedBits
  <2> QED BY <2>3 DEF Values
<1> QED BY <1>2, <1>3

\* A value cut from two planes.
LEMMA ValueBits ==
    ASSUME NEW w \in Nat, NEW s \in BOOLEAN, NEW val, NEW unk, Wordwise(val, w), Wordwise(unk, w)
    PROVE  /\ Value(val, unk, w, s) \in Values
           /\ Value(val, unk, w, s).width = w /\ Value(val, unk, w, s).signed = s
           /\ \A i \in Nat : BitOf(Value(val, unk, w, s), i) =
                                 IF i < w THEN Symbol(Has(val, i), Has(unk, i)) ELSE "0"
<1>1. /\ Masked(val, w) \in PlanesOf(w)
      /\ Masked(unk, w) \in PlanesOf(w)
  BY MaskedBits
<1>2. \A i \in Nat : /\ Has(Masked(val, w), i) <=> (i < w /\ Has(val, i))
                     /\ Has(Masked(unk, w), i) <=> (i < w /\ Has(unk, i))
  BY MaskedBits
<1> DEFINE v == Value(val, unk, w, s)
<1>3. v.val = Masked(val, w) /\ v.unk = Masked(unk, w) /\ v.width = w /\ v.signed = s
  BY DEF Value
<1>4. v \in Values
  BY <1>1 DEF Value, Values
<1> HIDE DEF v
<1>5. ASSUME NEW i \in Nat
      PROVE  BitOf(v, i) = IF i < w THEN Symbol(Has(val, i), Has(unk, i)) ELSE "0"
  <2>1. BitOf(v, i) = Symbol(Has(v.val, i), Has(v.unk, i))
    BY BitOfPlanes
  <2>2. CASE i < w
    <3>1. (Has(v.val, i) <=> Has(val, i)) /\ (Has(v.unk, i) <=> Has(unk, i))
      BY <1>2, <1>3, <2>2
    <3> QED BY <2>1, <2>2, <3>1 DEF Symbol
  <2>3. CASE ~(i < w)
    <3>1. ~Has(v.val, i) /\ ~Has(v.unk, i)
      BY <1>2, <1>3, <2>3
    <3> QED BY <2>1, <2>3, <3>1 DEF Symbol
  <2> QED BY <2>2, <2>3
<1> QED BY <1>3, <1>4, <1>5 DEF v

\* A value from its words.
LEMMA FromWordsBits ==
    ASSUME NEW w \in Nat, NEW s \in BOOLEAN, NEW quads \in [Index(w) -> Quad]
    PROVE  /\ FromWords(quads, w, s) \in Values
           /\ FromWords(quads, w, s).width = w /\ FromWords(quads, w, s).signed = s
           /\ \A i \in Nat : i < w =>
                 BitOf(FromWords(quads, w, s), i) = State(quads[i \div WordBits], i % WordBits)
<1> DEFINE val == [k \in Index(w) |-> quads[k].val]
           unk == [k \in Index(w) |-> quads[k].unk]
<1>1. \A k \in Index(w) : At(val, k) = quads[k].val /\ At(unk, k) = quads[k].unk
  BY DEF At
<1>2. FromWords(quads, w, s) = Value(val, unk, w, s)
  BY DEF FromWords
<1> HIDE DEF val, unk
<1>3. Wordwise(val, w) /\ Wordwise(unk, w)
  BY <1>1 DEF Wordwise, Quad, Word
<1>4. ASSUME NEW i \in Nat, i < w
      PROVE  BitOf(FromWords(quads, w, s), i) = State(quads[i \div WordBits], i % WordBits)
  <2>1. i \div WordBits \in Index(w)
    BY <1>4, BelowIsIn
  <2>2. BitOf(FromWords(quads, w, s), i) = Symbol(Has(val, i), Has(unk, i))
    BY <1>2, <1>3, <1>4, ValueBits
  <2> QED BY <1>1, <2>1, <2>2 DEF Has, Symbol, State
<1> QED BY <1>2, <1>3, <1>4, ValueBits

\* The bits lo .. hi - 1 of a plane are filled and no others (fill_bits).
LEMMA FillBits ==
    ASSUME NEW w \in Nat, NEW plane, DOMAIN plane = Index(w), Wordwise(plane, w),
           NEW lo \in Nat, NEW hi \in Nat, NEW f \in BOOLEAN
    PROVE  /\ DOMAIN fill_bits(plane, lo, hi, f) = Index(w)
           /\ Wordwise(fill_bits(plane, lo, hi, f), w)
           /\ \A i \in Nat : i < w =>
                 (Has(fill_bits(plane, lo, hi, f), i) <=>
                    IF lo <= i /\ i < hi THEN f ELSE Has(plane, i))
<1> DEFINE In(k) == {b \in Bit : lo <= k * WordBits + b /\ k * WordBits + b < hi}
           p == fill_bits(plane, lo, hi, f)
<1>1. /\ DOMAIN p = Index(w)
      /\ \A k \in Index(w) : At(p, k) = IF f THEN At(plane, k) \cup In(k) ELSE At(plane, k) \ In(k)
  BY DEF fill_bits, At
<1> HIDE DEF p
<1>2. Wordwise(p, w)
  BY <1>1 DEF Wordwise
<1>3. ASSUME NEW i \in Nat, i < w
      PROVE  Has(p, i) <=> IF lo <= i /\ i < hi THEN f ELSE Has(plane, i)
  <2> DEFINE k == i \div WordBits  b == i % WordBits
  <2>1. k \in Index(w) /\ b \in Bit /\ i = k * WordBits + b
    BY <1>3, BelowIsIn, PlaceOf
  <2> HIDE DEF k, b
  <2>2. b \in In(k) <=> lo <= i /\ i < hi
    BY <2>1
  <2> HIDE DEF In
  <2>3. b \in At(p, k) <=> IF f THEN b \in At(plane, k) \/ b \in In(k)
                                ELSE b \in At(plane, k) /\ b \notin In(k)
    BY <1>1, <2>1
  <2>4. b \in At(p, k) <=> IF lo <= i /\ i < hi THEN f ELSE b \in At(plane, k)
    BY <2>2, <2>3
  <2> QED BY <2>4 DEF Has, k, b
<1> QED BY <1>1, <1>2, <1>3 DEF p

\* The words a resize copies.
Copied(plane, a, w) == [k \in Index(w) |-> IF k < nwords(Mn(a, w)) THEN At(plane, k) ELSE {}]

\* The words a narrower plane gives to a wider one hold its bits.
LEMMA CopiedBits ==
    ASSUME NEW w \in Nat, NEW a \in Nat, NEW plane \in PlanesOf(a)
    PROVE  /\ DOMAIN Copied(plane, a, w) = Index(w) /\ Wordwise(Copied(plane, a, w), w)
           /\ \A i \in Nat : i < w => (Has(Copied(plane, a, w), i) <=> Has(plane, i))
<1> DEFINE p == Copied(plane, a, w)
<1>1. /\ DOMAIN p = Index(w)
      /\ \A k \in Index(w) : At(p, k) = IF k < nwords(Mn(a, w)) THEN At(plane, k) ELSE {}
  BY DEF Copied, At
<1> HIDE DEF p
<1>2. /\ \A i \in Nat : Has(plane, i) => i < a
      /\ \A k \in Nat : At(plane, k) \subseteq Bit
  BY NothingBeyond
<1>3. Wordwise(p, w)
  <2>1. Index(w) \subseteq Nat
    BY LastWord DEF Index
  <2> QED BY <1>1, <1>2, <2>1 DEF Wordwise
<1>4. ASSUME NEW i \in Nat, i < w PROVE Has(p, i) <=> Has(plane, i)
  <2> DEFINE k == i \div WordBits
  <2>1. k \in Index(w)
    BY <1>4, BelowIsIn
  <2>2. CASE i < a
    <3>1. i < Mn(a, w) /\ Mn(a, w) \in Nat
      BY <1>4, <2>2 DEF Mn
    <3>2. k < nwords(Mn(a, w))
      BY <3>1, BelowIsIn
    <3> QED BY <1>1, <2>1, <3>2 DEF Has
  <2>3. CASE ~(i < a)
    <3>1. ~Has(plane, i)
      BY <1>2, <2>3
    <3> QED BY <1>1, <2>1, <3>1 DEF Has
  <2> QED BY <2>2, <2>3
<1> QED BY <1>1, <1>3, <1>4 DEF p

\* A bit beyond the width of a value is 0.
LEMMA BitBeyond ==
    ASSUME NEW v \in Values, NEW i \in Nat, ~(i < v.width)
    PROVE  BitOf(v, i) = "0" /\ ~Has(v.val, i) /\ ~Has(v.unk, i)
<1>1. v.val \in PlanesOf(v.width) /\ v.unk \in PlanesOf(v.width) /\ v.width \in Nat
  BY ValueParts
<1>2. ~Has(v.val, i) /\ ~Has(v.unk, i)
  BY <1>1, NothingBeyond
<1> QED BY <1>2, BitOfPlanes DEF Symbol

\* A resized value has the bits of the value it was made from, and above them
\* copies of its sign bit, x and z too, when it is signed, and zeros when it is
\* not; nothing is set beyond the new width, whichever words the two widths
\* share (resize_word and resize).
THEOREM ResizeExtends ==
    ASSUME NEW v \in Values, NEW w \in Nat
    PROVE  /\ resize(v, w) \in Values
           /\ resize(v, w).width = w /\ resize(v, w).signed = v.signed
           /\ \A i \in Nat : i < w => BitOf(resize(v, w), i) = Ext(v, v.signed, i)
<1>1. /\ v.width \in Nat /\ v.signed \in BOOLEAN
      /\ v.val \in PlanesOf(v.width) /\ v.unk \in PlanesOf(v.width)
  BY ValueParts
<1>2. CASE w = v.width
  BY <1>1, <1>2 DEF resize, Ext
<1>3. CASE w # v.width
  <2> DEFINE a == v.width
             cval == Copied(v.val, a, w)
             cunk == Copied(v.unk, a, w)
             fval == fill_bits(cval, a, w, get_vu(v, a - 1).val)
             funk == fill_bits(cunk, a, w, get_vu(v, a - 1).unk)
             val == IF Extends(v, w) THEN fval ELSE cval
             unk == IF Extends(v, w) THEN funk ELSE cunk
  <2>1. resize(v, w) = Value(val, unk, w, v.signed)
    BY <1>3 DEF resize, Copied, Index
  <2>2. /\ DOMAIN cval = Index(w) /\ Wordwise(cval, w)
        /\ DOMAIN cunk = Index(w) /\ Wordwise(cunk, w)
        /\ \A i \in Nat : i < w => (Has(cval, i) <=> Has(v.val, i))
        /\ \A i \in Nat : i < w => (Has(cunk, i) <=> Has(v.unk, i))
    BY <1>1, CopiedBits
  <2>3. get_vu(v, a - 1).val = Has(v.val, a - 1) /\ get_vu(v, a - 1).unk = Has(v.unk, a - 1)
    BY BitOfPlanes
  <2>4. get_vu(v, a - 1).val \in BOOLEAN /\ get_vu(v, a - 1).unk \in BOOLEAN
    BY DEF get_vu
  <2> HIDE DEF cval, cunk
  <2>5. /\ Wordwise(fval, w) /\ Wordwise(funk, w)
        /\ \A i \in Nat : i < w =>
             (Has(fval, i) <=> IF a <= i /\ i < w THEN get_vu(v, a - 1).val ELSE Has(cval, i))
        /\ \A i \in Nat : i < w =>
             (Has(funk, i) <=> IF a <= i /\ i < w THEN get_vu(v, a - 1).unk ELSE Has(cunk, i))
    BY <1>1, <2>2, <2>4, FillBits
  <2> HIDE DEF fval, funk
  <2>6. Wordwise(val, w) /\ Wordwise(unk, w)
    BY <2>2, <2>5
  <2>7. ASSUME NEW i \in Nat, i < w
        PROVE  Symbol(Has(val, i), Has(unk, i)) = Ext(v, v.signed, i)
    <3>1. CASE i < a
      <4>1. (Has(val, i) <=> Has(v.val, i)) /\ (Has(unk, i) <=> Has(v.unk, i))
        BY <1>1, <2>2, <2>5, <2>7, <3>1
      <4> QED BY <3>1, <4>1, BitOfPlanes DEF Ext, Symbol
    <3>2. CASE ~(i < a) /\ Extends(v, w)
      <4>1. (Has(val, i) <=> Has(v.val, a - 1)) /\ (Has(unk, i) <=> Has(v.unk, a - 1))
        BY <1>1, <2>3, <2>5, <2>7, <3>2
      <4>2. v.signed /\ a > 0
        BY <3>2 DEF Extends
      <4>3. Symbol(Has(val, i), Has(unk, i)) = BitOf(v, a - 1)
        BY <4>1, BitOfPlanes DEF Symbol
      <4> QED BY <3>2, <4>2, <4>3 DEF Ext
    <3>3. CASE ~(i < a) /\ ~Extends(v, w)
      <4>1. (Has(val, i) <=> Has(v.val, i)) /\ (Has(unk, i) <=> Has(v.unk, i))
        BY <2>2, <2>7, <3>3
      <4>2. ~(v.signed /\ a > 0)
        BY <1>1, <2>7, <3>3 DEF Extends
      <4>3. ~Has(v.val, i) /\ ~Has(v.unk, i)
        BY <3>3, BitBeyond
      <4>4. Symbol(Has(val, i), Has(unk, i)) = "0"
        BY <4>1, <4>3 DEF Symbol
      <4> QED BY <3>3, <4>2, <4>4 DEF Ext
    <3> QED BY <3>1, <3>2, <3>3
  <2> HIDE DEF val, unk
  <2> QED BY <1>1, <2>1, <2>6, <2>7, ValueBits
<1> QED BY <1>2, <1>3

\* A change of sign keeps the bits.
LEMMA Resigned ==
    ASSUME NEW v \in Values, NEW s \in BOOLEAN
    PROVE  /\ [v EXCEPT !.signed = s] \in Values
           /\ [v EXCEPT !.signed = s].signed = s
           /\ [v EXCEPT !.signed = s].width = v.width
           /\ \A i : BitOf([v EXCEPT !.signed = s], i) = BitOf(v, i)
<1> DEFINE u == [v EXCEPT !.signed = s]
<1>1. /\ v.width \in Nat /\ v.val \in PlanesOf(v.width) /\ v.unk \in PlanesOf(v.width)
      /\ v = [val |-> v.val, unk |-> v.unk, width |-> v.width, signed |-> v.signed]
  BY ValueParts
<1>2. u = [val |-> v.val, unk |-> v.unk, width |-> v.width, signed |-> s]
  BY <1>1
<1>3. u \in Values
  BY <1>1, <1>2 DEF Values
<1>4. u.val = v.val /\ u.unk = v.unk /\ u.width = v.width /\ u.signed = s
  BY <1>2
<1> HIDE DEF u
<1>5. \A i : BitOf(u, i) = BitOf(v, i)
  BY <1>4, BitOfPlanes
<1> QED BY <1>3, <1>4, <1>5 DEF u

\* An operand brought to the width w and the sign s of its context is extended
\* with its sign bit when it and the context are signed, else with zeros
\* (resize_keep_sign).
THEOREM ContextExtends ==
    ASSUME NEW v \in Values, NEW w \in Nat, NEW s \in BOOLEAN
    PROVE  /\ resize_keep_sign(v, w, s) \in Values
           /\ resize_keep_sign(v, w, s).width = w /\ resize_keep_sign(v, w, s).signed = s
           /\ \A i \in Nat : i < w =>
                 BitOf(resize_keep_sign(v, w, s), i) = Ext(v, v.signed /\ s, i)
<1> DEFINE t == v.signed /\ (s \/ w = v.width)
           u == [v EXCEPT !.signed = t]
           y == resize(u, w)
<1>1. v.width \in Nat /\ v.signed \in BOOLEAN /\ t \in BOOLEAN
  BY ValueParts
<1>2. u \in Values /\ u.signed = t /\ u.width = v.width /\ \A i : BitOf(u, i) = BitOf(v, i)
  BY <1>1, Resigned
<1>3. resize_keep_sign(v, w, s) = [y EXCEPT !.signed = s]
  BY DEF resize_keep_sign
<1> HIDE DEF u, t
<1>4. y \in Values /\ y.width = w /\ \A i \in Nat : i < w => BitOf(y, i) = Ext(u, t, i)
  BY <1>2, ResizeExtends
<1> HIDE DEF y
<1>5. ASSUME NEW i \in Nat, i < w PROVE Ext(u, t, i) = Ext(v, v.signed /\ s, i)
  <2>1. CASE i < v.width
    BY <1>2, <2>1 DEF Ext
  <2>2. CASE ~(i < v.width)
    <3>1. t <=> v.signed /\ s
      BY <1>1, <1>5, <2>2 DEF t
    <3> QED BY <1>2, <2>2, <3>1 DEF Ext
  <2> QED BY <2>1, <2>2
<1>6. /\ [y EXCEPT !.signed = s] \in Values
      /\ [y EXCEPT !.signed = s].signed = s
      /\ [y EXCEPT !.signed = s].width = y.width
      /\ \A i : BitOf([y EXCEPT !.signed = s], i) = BitOf(y, i)
  BY <1>4, Resigned
<1> QED BY <1>3, <1>4, <1>5, <1>6

\* The words of a value.
LEMMA QuadsType ==
    ASSUME NEW v \in Values, NEW k
    PROVE  Quads(v, k) \in Quad
<1>1. v.val \in [Index(v.width) -> Word] /\ v.unk \in [Index(v.width) -> Word]
  BY ValueParts DEF PlanesOf
<1> QED BY <1>1 DEF Quads, At, Quad, Word

\* The operators on words answer words.
LEMMA OpTypes ==
    ASSUME NEW a \in Quad, NEW b \in Quad
    PROVE  /\ and_w(a, b) \in Quad /\ or_w(a, b) \in Quad /\ xor_w(a, b) \in Quad
           /\ xnor_w(a, b) \in Quad /\ not_w(a) \in Quad /\ merge_x_word(a, b) \in Quad
BY DEF Quad, Word, and_w, or_w, xor_w, xnor_w, not_w, merge_x_word, Definite, Known0, Known1,
       Not, Differ, Unknown, Same

\* The wider of two widths.
LEMMA Wider ==
    ASSUME NEW a \in Nat, NEW b \in Nat
    PROVE  Mx(a, b) \in Nat /\ a <= Mx(a, b) /\ b <= Mx(a, b)
BY DEF Mx

\* The table of an operator.
TableOf(f, p, q) == CASE f = "&"  -> AndBit(p, q) [] f = "|"  -> OrBit(p, q)
                      [] f = "^"  -> XorBit(p, q) [] f = "^~" -> NotBit(XorBit(p, q))

\* The bitwise operators are their tables on every bit of the operands extended
\* to the wider width, at any width: word boundaries and the padding of the last
\* word do not show, and the answer is canonical (bitwise).
THEOREM BitwiseIsTable ==
    ASSUME NEW lv \in Values, NEW rv \in Values, NEW f \in {"&", "|", "^", "^~"}
    PROVE  /\ bitwise(lv, rv, f) \in Values
           /\ bitwise(lv, rv, f).width = Mx(lv.width, rv.width)
           /\ bitwise(lv, rv, f).signed = (lv.signed /\ rv.signed)
           /\ \A i \in Nat : i < Mx(lv.width, rv.width) =>
                 BitOf(bitwise(lv, rv, f), i) =
                    TableOf(f, Ext(lv, lv.signed /\ rv.signed, i), Ext(rv, lv.signed /\ rv.signed, i))
<1> DEFINE w == Mx(lv.width, rv.width)
           s == lv.signed /\ rv.signed
           le == resize_keep_sign(lv, w, s)
           re == resize_keep_sign(rv, w, s)
           quads == [k \in Index(w) |-> WordBinOp(f, Quads(le, k), Quads(re, k))]
<1>1. w \in Nat /\ s \in BOOLEAN /\ lv.signed \in BOOLEAN /\ rv.signed \in BOOLEAN
  BY ValueParts, Wider
<1>2. bitwise(lv, rv, f) = FromWords(quads, w, s)
  BY DEF bitwise
<1>3. (lv.signed /\ s <=> s) /\ (rv.signed /\ s <=> s)
  BY <1>1
<1> HIDE DEF w
<1>4. /\ le \in Values /\ \A i \in Nat : i < w => BitOf(le, i) = Ext(lv, lv.signed /\ s, i)
      /\ re \in Values /\ \A i \in Nat : i < w => BitOf(re, i) = Ext(rv, rv.signed /\ s, i)
  BY <1>1, ContextExtends
<1>5. \A i \in Nat : i < w => /\ BitOf(le, i) = Ext(lv, s, i)
                              /\ BitOf(re, i) = Ext(rv, s, i)
  BY <1>3, <1>4 DEF Ext
<1> HIDE DEF le, re, s
<1>6. ASSUME NEW a \in Quad, NEW b \in Quad
      PROVE  /\ WordBinOp(f, a, b) \in Quad
             /\ \A i \in Bit : State(WordBinOp(f, a, b), i) = TableOf(f, State(a, i), State(b, i))
  <2>1. CASE f = "&"
    BY <2>1, OpTypes, WordIsTable DEF WordBinOp, TableOf
  <2>2. CASE f = "|"
    BY <2>2, OpTypes, WordIsTable DEF WordBinOp, TableOf
  <2>3. CASE f = "^"
    BY <2>3, OpTypes, WordIsTable DEF WordBinOp, TableOf
  <2>4. CASE f = "^~"
    BY <2>4, OpTypes, WordIsTable DEF WordBinOp, TableOf
  <2> QED BY <2>1, <2>2, <2>3, <2>4
<1>7. \A k : Quads(le, k) \in Quad /\ Quads(re, k) \in Quad
  BY <1>4, QuadsType
<1>8. quads \in [Index(w) -> Quad]
  BY <1>6, <1>7
<1>9. ASSUME NEW i \in Nat, i < w
      PROVE  BitOf(FromWords(quads, w, s), i) = TableOf(f, Ext(lv, s, i), Ext(rv, s, i))
  <2> DEFINE k == i \div WordBits  b == i % WordBits
  <2>1. k \in Index(w) /\ b \in Bit
    BY <1>1, <1>9, BelowIsIn, PlaceOf
  <2>2. BitOf(FromWords(quads, w, s), i) = State(quads[k], b)
    BY <1>1, <1>8, <1>9, FromWordsBits
  <2>3. State(quads[k], b) = TableOf(f, State(Quads(le, k), b), State(Quads(re, k), b))
    BY <1>6, <1>7, <2>1
  <2> QED BY <1>5, <1>9, <2>2, <2>3 DEF BitOf
<1> HIDE DEF quads
<1> QED BY <1>1, <1>2, <1>8, <1>9, FromWordsBits DEF w, s

\* ~ inverts every bit and an unknown condition merges the two arms of ?: bit by
\* bit, at any width (bit_not, merge_x).
THEOREM NotAndMergeAreTables ==
    ASSUME NEW a \in Values, NEW b \in Values, NEW s \in BOOLEAN, b.width = a.width
    PROVE  /\ bit_not(a, s) \in Values /\ merge_x(a, b, a.width, s) \in Values
           /\ \A i \in Nat : i < a.width =>
                 /\ BitOf(bit_not(a, s), i) = NotBit(BitOf(a, i))
                 /\ BitOf(merge_x(a, b, a.width, s), i) = MergeBit(BitOf(a, i), BitOf(b, i))
<1> DEFINE w == a.width
           nots == [k \in Index(w) |-> not_w(Quads(a, k))]
           merges == [k \in Index(w) |-> merge_x_word(Quads(a, k), Quads(b, k))]
<1>1. w \in Nat
  BY ValueParts
<1>2. \A k : Quads(a, k) \in Quad /\ Quads(b, k) \in Quad
  BY QuadsType
<1>3. bit_not(a, s) = FromWords(nots, w, s) /\ merge_x(a, b, w, s) = FromWords(merges, w, s)
  BY DEF bit_not, merge_x
<1>4. nots \in [Index(w) -> Quad] /\ merges \in [Index(w) -> Quad]
  BY <1>2, OpTypes
<1>5. ASSUME NEW i \in Nat, i < w
      PROVE  /\ BitOf(FromWords(nots, w, s), i) = NotBit(BitOf(a, i))
             /\ BitOf(FromWords(merges, w, s), i) = MergeBit(BitOf(a, i), BitOf(b, i))
  <2> DEFINE k == i \div WordBits  c == i % WordBits
  <2>1. k \in Index(w) /\ c \in Bit
    BY <1>1, <1>5, BelowIsIn, PlaceOf
  <2>2. /\ BitOf(FromWords(nots, w, s), i) = State(nots[k], c)
        /\ BitOf(FromWords(merges, w, s), i) = State(merges[k], c)
    BY <1>1, <1>4, <1>5, FromWordsBits
  <2>3. /\ State(nots[k], c) = NotBit(State(Quads(a, k), c))
        /\ State(merges[k], c) = MergeBit(State(Quads(a, k), c), State(Quads(b, k), c))
    BY <1>2, <2>1, WordIsTable
  <2> QED BY <2>2, <2>3 DEF BitOf
<1> HIDE DEF nots, merges
<1> QED BY <1>1, <1>3, <1>4, <1>5, FromWordsBits

-----------------------------------------------------------------------------
(* Shifts and windows.                                                     *)

\* The place of a bit moved up from a place by less than a word.
LEMMA PlaceUp ==
    ASSUME NEW k \in Nat, NEW b \in Bit, NEW rem \in Bit
    PROVE  LET i == k * WordBits + b + rem
           IN  /\ i \in Nat
               /\ b + rem < WordBits => i \div WordBits = k /\ i % WordBits = b + rem
               /\ b + rem >= WordBits => i \div WordBits = k + 1 /\ i % WordBits = b + rem - WordBits
<1> DEFINE i == k * WordBits + b + rem
<1>1. /\ WordBits \in Nat \ {0} /\ k * WordBits \in Nat /\ b \in Nat /\ rem \in Nat
      /\ b < WordBits /\ rem < WordBits
  BY WordBitsAssumption, WordOrder DEF Bit
<1>2. i \in Nat
  BY <1>1
<1>3. ASSUME b + rem < WordBits PROVE i \div WordBits = k /\ i % WordBits = b + rem
  <2>1. b + rem \in Bit
    BY <1>1, <1>3 DEF Bit
  <2>2. i = k * WordBits + (b + rem)
    BY <1>1
  <2> HIDE DEF i
  <2> QED BY <2>1, <2>2, PlaceIs
<1>4. ASSUME b + rem >= WordBits PROVE i \div WordBits = k + 1 /\ i % WordBits = b + rem - WordBits
  <2>1. b + rem - WordBits \in Bit /\ k + 1 \in Nat
    BY <1>1, <1>4 DEF Bit
  <2>2. (k + 1) * WordBits = k * WordBits + WordBits
    BY <1>1
  <2>3. i = (k + 1) * WordBits + (b + rem - WordBits)
    BY <1>1, <2>2
  <2> HIDE DEF i
  <2> QED BY <2>1, <2>3, PlaceIs
<1> QED BY <1>2, <1>3, <1>4

\* A word of a plane moved down by q words and r bits (shr_word).
LEMMA ShrWordBits ==
    ASSUME NEW plane, \A k \in Nat : At(plane, k) \subseteq Bit,
           NEW k \in Nat, NEW q \in Nat, NEW rem \in Bit
    PROVE  /\ shr_word(plane, k, q, rem) \subseteq Bit
           /\ \A b \in Bit : b \in shr_word(plane, k, q, rem)
                                <=> Has(plane, (k + q) * WordBits + b + rem)
<1> DEFINE lo == At(plane, k + q)
           hi == At(plane, k + q + 1)
<1>1. /\ WordBits \in Nat \ {0} /\ Bit = 0 .. WordBits - 1 /\ k + q \in Nat /\ k + q + 1 \in Nat
  BY WordBitsAssumption DEF Bit
<1>2. lo \subseteq Bit /\ hi \subseteq Bit
  BY <1>1
<1>3. shr_word(plane, k, q, rem) = Right(lo, rem) \cup (IF rem = 0 THEN {} ELSE Left(hi, WordBits - rem))
  BY DEF shr_word
<1> HIDE DEF lo, hi
<1>4. \A b \in Bit : b \in Right(lo, rem) <=> b + rem \in lo
  <2>1. \A b \in Bit : b + rem >= rem /\ (b + rem) - rem = b
    BY <1>1
  <2>2. \A b \in Bit, c \in lo : c - rem = b => c = b + rem
    BY <1>1, <1>2
  <2> QED BY <2>1, <2>2 DEF Right
<1>5. Right(lo, rem) \subseteq Bit
  <2>1. \A c \in lo : c >= rem => c - rem \in Bit
    BY <1>1, <1>2
  <2> QED BY <2>1 DEF Right
<1>6. \A b \in Bit : b \in Left(hi, WordBits - rem) <=> b - (WordBits - rem) \in hi
  BY DEF Left
<1>7. shr_word(plane, k, q, rem) \subseteq Bit
  BY <1>3, <1>5 DEF Left
<1>8. ASSUME NEW b \in Bit
      PROVE  b \in shr_word(plane, k, q, rem) <=> Has(plane, (k + q) * WordBits + b + rem)
  <2> DEFINE i == (k + q) * WordBits + b + rem
  <2>1. CASE b + rem < WordBits
    <3>1. i \div WordBits = k + q /\ i % WordBits = b + rem
      BY <1>1, <2>1, PlaceUp
    <3> HIDE DEF i
    <3>2. b \notin Left(hi, WordBits - rem)
      <4>1. b - (WordBits - rem) \notin Bit
        BY <1>1, <2>1
      <4> QED BY <1>2, <1>6, <4>1
    <3>3. b \in shr_word(plane, k, q, rem) <=> b + rem \in lo
      BY <1>3, <1>4, <3>2
    <3>4. Has(plane, i) <=> b + rem \in lo
      BY <3>1 DEF Has, lo
    <3> QED BY <3>3, <3>4 DEF i
  <2>2. CASE b + rem >= WordBits
    <3>1. i \div WordBits = k + q + 1 /\ i % WordBits = b + rem - WordBits
      BY <1>1, <2>2, PlaceUp
    <3> HIDE DEF i
    <3>2. rem # 0 /\ b + rem - WordBits = b - (WordBits - rem) /\ b + rem \notin Bit
      BY <1>1, <2>2
    <3>3. b \notin Right(lo, rem)
      BY <1>2, <1>4, <3>2
    <3>4. b \in shr_word(plane, k, q, rem) <=> b + rem - WordBits \in hi
      BY <1>3, <1>6, <3>2, <3>3
    <3>5. Has(plane, i) <=> b + rem - WordBits \in hi
      BY <3>1 DEF Has, hi
    <3> QED BY <3>4, <3>5 DEF i
  <2> QED BY <1>1, <2>1, <2>2
<1> QED BY <1>7, <1>8

\* A shift amount is a number of words and a number of bits.
LEMMA AmountParts ==
    ASSUME NEW amt \in Nat, NEW k \in Nat, NEW b \in Bit
    PROVE  (k + (amt \div WordBits)) * WordBits + b + (amt % WordBits) = (k * WordBits + b) + amt
<1> DEFINE q == amt \div WordBits  rem == amt % WordBits
<1>1. q \in Nat /\ rem \in Nat /\ amt = q * WordBits + rem /\ q * WordBits \in Nat /\ k * WordBits \in Nat
  BY PlaceOf, WordOrder
<1> HIDE DEF q, rem
<1>2. (k + q) * WordBits = k * WordBits + q * WordBits
  BY <1>1, WordBitsAssumption
<1>3. b \in Int
  BY DEF Bit
<1> QED BY <1>1, <1>2, <1>3 DEF q, rem

\* The words of a shift to the right.
Shifted(plane, amt, w) ==
    [k \in Index(w) |-> IF amt < w THEN shr_word(plane, k, amt \div WordBits, amt % WordBits) ELSE {}]

\* A plane shifted down holds the bits of the places above.
LEMMA ShiftedBits ==
    ASSUME NEW a \in Nat, NEW plane \in PlanesOf(a), NEW amt \in Nat, NEW w \in Nat
    PROVE  /\ DOMAIN Shifted(plane, amt, w) = Index(w) /\ Wordwise(Shifted(plane, amt, w), w)
           /\ amt < w => \A i \in Nat : i < w => (Has(Shifted(plane, amt, w), i) <=> Has(plane, i + amt))
<1> DEFINE q == amt \div WordBits  rem == amt % WordBits  p == Shifted(plane, amt, w)
<1>1. /\ DOMAIN p = Index(w)
      /\ \A k \in Index(w) : At(p, k) = IF amt < w THEN shr_word(plane, k, q, rem) ELSE {}
  BY DEF Shifted, At
<1> HIDE DEF p
<1>2. q \in Nat /\ rem \in Bit /\ Index(w) \subseteq Nat
  <2>1. q \in Nat /\ rem \in Bit
    BY PlaceOf
  <2>2. Index(w) \subseteq Nat
    BY LastWord DEF Index
  <2> QED BY <2>1, <2>2
<1>3. \A k \in Nat : At(plane, k) \subseteq Bit
  BY NothingBeyond
<1> HIDE DEF q, rem
<1>4. \A k \in Nat : /\ shr_word(plane, k, q, rem) \subseteq Bit
                      /\ \A b \in Bit : b \in shr_word(plane, k, q, rem)
                                           <=> Has(plane, (k + q) * WordBits + b + rem)
  BY <1>2, <1>3, ShrWordBits
<1>5. Wordwise(p, w)
  BY <1>1, <1>2, <1>4 DEF Wordwise
<1>6. ASSUME amt < w, NEW i \in Nat, i < w PROVE Has(p, i) <=> Has(plane, i + amt)
  <2> DEFINE k == i \div WordBits  b == i % WordBits
  <2>1. k \in Index(w) /\ k \in Nat /\ b \in Bit /\ i = k * WordBits + b
    BY <1>6, BelowIsIn, PlaceOf
  <2> HIDE DEF k, b
  <2>2. Has(p, i) <=> b \in At(p, k)
    BY DEF Has, k, b
  <2>3. b \in At(p, k) <=> Has(plane, (k + q) * WordBits + b + rem)
    BY <1>1, <1>4, <1>6, <2>1
  <2>4. (k + q) * WordBits + b + rem = i + amt
    BY <2>1, AmountParts DEF q, rem
  <2> QED BY <2>2, <2>3, <2>4
<1> QED BY <1>1, <1>5, <1>6 DEF p

\* A shift to the right moves every bit down by the whole amount, across words,
\* and fills from above: no bit comes from the padding, and an amount past the
\* width leaves the fill alone (shr_fill).
THEOREM ShiftRightMoves ==
    ASSUME NEW v \in Values, NEW amt \in Nat,
           NEW f \in [val : BOOLEAN, unk : BOOLEAN]
    PROVE  /\ shr_fill(v, amt, v.width, f) \in Values
           /\ shr_fill(v, amt, v.width, f).width = v.width
           /\ \A i \in Nat : i < v.width =>
                 BitOf(shr_fill(v, amt, v.width, f), i) =
                    IF i + amt < v.width THEN BitOf(v, i + amt) ELSE Symbol(f.val, f.unk)
<1> DEFINE w == v.width
           fval == f.val
           funk == f.unk
           lo == Mx(w - amt, 0)
           sval == Shifted(v.val, amt, w)
           sunk == Shifted(v.unk, amt, w)
           val == fill_bits(sval, lo, w, fval)
           unk == fill_bits(sunk, lo, w, funk)
<1>1. /\ w \in Nat /\ v.signed \in BOOLEAN /\ v.val \in PlanesOf(w) /\ v.unk \in PlanesOf(w)
  BY ValueParts
<1>2. shr_fill(v, amt, w, f) = Value(val, unk, w, v.signed)
  BY DEF shr_fill, Shifted, Index
<1>3. lo \in Nat /\ (amt < w => lo = w - amt) /\ (~(amt < w) => lo = 0)
  BY <1>1 DEF Mx
<1> HIDE DEF lo
<1>4. /\ DOMAIN sval = Index(w) /\ Wordwise(sval, w)
      /\ DOMAIN sunk = Index(w) /\ Wordwise(sunk, w)
      /\ amt < w => \A i \in Nat : i < w => (Has(sval, i) <=> Has(v.val, i + amt))
      /\ amt < w => \A i \in Nat : i < w => (Has(sunk, i) <=> Has(v.unk, i + amt))
  BY <1>1, ShiftedBits
<1> HIDE DEF sval, sunk
<1>5. fval \in BOOLEAN /\ funk \in BOOLEAN
  OBVIOUS
<1> HIDE DEF fval, funk, w
<1>6. /\ Wordwise(val, w)
      /\ \A i \in Nat : i < w =>
           (Has(val, i) <=> IF lo <= i /\ i < w THEN fval ELSE Has(sval, i))
  BY <1>1, <1>3, <1>4, <1>5, FillBits
<1>7. /\ Wordwise(unk, w)
      /\ \A i \in Nat : i < w =>
           (Has(unk, i) <=> IF lo <= i /\ i < w THEN funk ELSE Has(sunk, i))
  BY <1>1, <1>3, <1>4, <1>5, FillBits
<1> USE DEF w
<1> HIDE DEF val, unk
<1>8. ASSUME NEW i \in Nat, i < w
      PROVE  Symbol(Has(val, i), Has(unk, i)) =
                IF i + amt < w THEN BitOf(v, i + amt) ELSE Symbol(f.val, f.unk)
  <2>1. CASE i + amt < w
    <3>1. amt < w /\ ~(lo <= i)
      BY <1>1, <1>3, <2>1
    <3>2. (Has(val, i) <=> Has(v.val, i + amt)) /\ (Has(unk, i) <=> Has(v.unk, i + amt))
      BY <1>4, <1>6, <1>7, <1>8, <3>1
    <3> QED BY <2>1, <3>2, BitOfPlanes DEF Symbol
  <2>2. CASE ~(i + amt < w)
    <3>1. lo <= i
      BY <1>1, <1>3, <2>2
    <3>2. (Has(val, i) <=> fval) /\ (Has(unk, i) <=> funk)
      BY <1>6, <1>7, <1>8, <3>1
    <3> QED BY <2>2, <3>2 DEF Symbol, fval, funk
  <2> QED BY <2>1, <2>2
<1> QED BY <1>1, <1>2, <1>6, <1>7, <1>8, ValueBits

\* The words of a shift to the left (shl_grow).
ShiftedUp(plane, amt, w) ==
    LET q == amt \div WordBits  rem == amt % WordBits
    IN  [k \in Index(w) |->
            IF amt >= w \/ k < q THEN {}
            ELSE Left(At(plane, k - q), rem)
                 \cup (IF rem = 0 \/ k = q THEN {} ELSE Right(At(plane, k - q - 1), WordBits - rem))]

\* A plane shifted up holds the bits of the places below.
LEMMA ShiftedUpBits ==
    ASSUME NEW a \in Nat, NEW plane \in PlanesOf(a), NEW amt \in Nat, NEW w \in Nat
    PROVE  /\ Wordwise(ShiftedUp(plane, amt, w), w)
           /\ \A i \in Nat : i < w =>
                 (Has(ShiftedUp(plane, amt, w), i) <=> amt <= i /\ Has(plane, i - amt))
<1> DEFINE q == amt \div WordBits  rem == amt % WordBits  p == ShiftedUp(plane, amt, w)
           Lower(k) == Left(At(plane, k - q), rem)
           Upper(k) == IF rem = 0 \/ k = q THEN {} ELSE Right(At(plane, k - q - 1), WordBits - rem)
<1>1. /\ DOMAIN p = Index(w)
      /\ \A k \in Index(w) : At(p, k) = IF amt >= w \/ k < q THEN {} ELSE Lower(k) \cup Upper(k)
  BY DEF ShiftedUp, At
<1> HIDE DEF p
<1>2. Index(w) \subseteq Nat
  BY LastWord DEF Index
<1>3. q \in Nat /\ rem \in Bit /\ amt = q * WordBits + rem /\ q * WordBits \in Nat
  BY PlaceOf, WordOrder
<1>4. \A k \in Nat : At(plane, k) \subseteq Bit
  BY NothingBeyond
<1>5. WordBits \in Nat \ {0} /\ Bit = 0 .. WordBits - 1
  BY WordBitsAssumption DEF Bit
<1> HIDE DEF q, rem
<1>6. ASSUME NEW k \in Nat, NEW b \in Bit, ~(k < q)
      PROVE  /\ b \in Lower(k) <=> b >= rem /\ b - rem \in At(plane, k - q)
             /\ b \in Upper(k) <=> rem # 0 /\ k # q /\ b < rem /\ b + WordBits - rem \in At(plane, k - q - 1)
  <2>1. k - q \in Nat /\ (k # q => k - q - 1 \in Nat)
    BY <1>3, <1>6
  <2>2. b - rem \in At(plane, k - q) => b >= rem
    BY <1>3, <1>4, <1>5, <2>1
  <2>3. b \in Lower(k) <=> b - rem \in At(plane, k - q)
    BY DEF Left
  <2> DEFINE word == At(plane, k - q - 1)
  <2>4. k # q => word \subseteq Bit
    BY <1>4, <2>1
  <2> HIDE DEF word
  <2>5. k # q => (b \in Right(word, WordBits - rem) <=> b + WordBits - rem \in word)
    <3>1. ASSUME k # q, b \in Right(word, WordBits - rem) PROVE b + WordBits - rem \in word
      <4>1. PICK c \in word : c >= WordBits - rem /\ b = c - (WordBits - rem)
        BY <3>1 DEF Right
      <4>2. c \in Int
        BY <1>5, <2>4, <3>1
      <4>3. c = b + WordBits - rem
        BY <1>3, <1>5, <4>1, <4>2
      <4> QED BY <4>3
    <3>2. ASSUME k # q, b + WordBits - rem \in word PROVE b \in Right(word, WordBits - rem)
      <4>1. b + WordBits - rem >= WordBits - rem /\ (b + WordBits - rem) - (WordBits - rem) = b
        BY <1>3, <1>5
      <4>2. \E c \in word : c >= WordBits - rem /\ b = c - (WordBits - rem)
        BY <3>2, <4>1
      <4> QED BY <4>2 DEF Right
    <3> QED BY <3>1, <3>2
  <2>6. k # q /\ b + WordBits - rem \in word => b < rem
    BY <1>3, <1>5, <2>4
  <2>7. b < rem => rem # 0
    BY <1>5
  <2>8. b \in Upper(k) <=> rem # 0 /\ k # q /\ b \in Right(word, WordBits - rem)
    BY DEF word
  <2> QED BY <2>2, <2>3, <2>5, <2>6, <2>7, <2>8 DEF word
<1>7. Wordwise(p, w)
  <2>1. ASSUME NEW k \in Index(w), ~(k < q) PROVE Lower(k) \subseteq Bit /\ Upper(k) \subseteq Bit
    <3>1. k \in Nat /\ (k # q => k - q - 1 \in Nat)
      BY <1>2, <1>3, <2>1
    <3>2. \A word \in SUBSET Bit : Right(word, WordBits - rem) \subseteq Bit
      <4>1. \A c \in Bit : c >= WordBits - rem => c - (WordBits - rem) \in Bit
        BY <1>3, <1>5
      <4> QED BY <4>1 DEF Right
    <3>3. Upper(k) \subseteq Bit
      BY <1>4, <3>1, <3>2
    <3> QED BY <3>3 DEF Left
  <2> HIDE DEF Lower, Upper
  <2> QED BY <1>1, <2>1 DEF Wordwise
<1>8. ASSUME NEW i \in Nat, i < w PROVE Has(p, i) <=> amt <= i /\ Has(plane, i - amt)
  <2> DEFINE k == i \div WordBits  b == i % WordBits
  <2>1. k \in Index(w) /\ k \in Nat /\ b \in Bit /\ i = k * WordBits + b /\ k * WordBits \in Nat
    BY <1>8, BelowIsIn, PlaceOf, WordOrder
  <2>2. Has(p, i) <=> b \in At(p, k)
    BY DEF Has
  <2> HIDE DEF k, b, Lower, Upper
  <2>3. CASE k < q
    <3>1. k * WordBits + WordBits <= q * WordBits
      BY <1>3, <2>1, <2>3, WordOrder
    <3>2. ~(amt <= i)
      BY <1>3, <1>5, <2>1, <3>1
    <3> QED BY <1>1, <2>1, <2>2, <2>3, <3>2
  <2>4. CASE amt >= w
    <3>1. ~(amt <= i)
      BY <1>8, <2>4
    <3> QED BY <1>1, <2>1, <2>2, <2>4, <3>1
  <2>5. CASE ~(k < q) /\ ~(amt >= w)
    <3>1. Has(p, i) <=> b \in Lower(k) \/ b \in Upper(k)
      BY <1>1, <2>1, <2>2, <2>5
    <3>2. (k - q) * WordBits = k * WordBits - q * WordBits
      BY <1>3, <1>5, <2>1
    <3>3. k - q \in Nat /\ (k # q => k - q - 1 \in Nat)
      BY <1>3, <2>1, <2>5
    <3>4. (k - q) * WordBits \in Nat
      BY <3>3, WordOrder
    <3>5. CASE b >= rem
      <4>1. b - rem \in Bit
        BY <1>3, <1>5, <2>1, <3>5
      <4>2. i - amt = (k - q) * WordBits + (b - rem)
        BY <1>3, <1>5, <2>1, <3>2
      <4>3. (i - amt) \div WordBits = k - q /\ (i - amt) % WordBits = b - rem
        BY <3>3, <4>1, <4>2, PlaceIs
      <4>4. amt <= i
        BY <1>3, <1>5, <2>1, <3>2, <3>4, <3>5
      <4>5. ~(b < rem)
        BY <1>3, <1>5, <2>1, <3>5
      <4>6. Has(plane, i - amt) <=> b - rem \in At(plane, k - q)
        BY <4>3 DEF Has
      <4> QED BY <1>6, <2>1, <2>5, <3>1, <3>5, <4>4, <4>5, <4>6
    <3>6. CASE ~(b >= rem) /\ k = q
      <4>1. ~(amt <= i)
        BY <1>3, <1>5, <2>1, <3>6
      <4> QED BY <1>6, <2>1, <2>5, <3>1, <3>6, <4>1
    <3>7. CASE ~(b >= rem) /\ k # q
      <4>1. b + WordBits - rem \in Bit /\ b < rem /\ rem # 0
        BY <1>3, <1>5, <2>1, <3>7
      <4>2. (k - q - 1) * WordBits = (k - q) * WordBits - WordBits
        BY <1>3, <1>5, <2>1
      <4>3. i - amt = (k - q - 1) * WordBits + (b + WordBits - rem)
        BY <1>3, <1>5, <2>1, <3>2, <4>2
      <4>4. (i - amt) \div WordBits = k - q - 1 /\ (i - amt) % WordBits = b + WordBits - rem
        BY <3>3, <3>7, <4>1, <4>3, PlaceIs
      <4>5. (k - q - 1) * WordBits + (b + WordBits - rem) \in Nat
        BY <3>3, <3>7, <4>1, PlaceIs
      <4>6. amt <= i
        BY <1>8, <4>3, <4>5
      <4>7. Has(plane, i - amt) <=> b + WordBits - rem \in At(plane, k - q - 1)
        BY <4>4 DEF Has
      <4> QED BY <1>6, <2>1, <2>5, <3>1, <3>7, <4>1, <4>6, <4>7
    <3> QED BY <3>5, <3>6, <3>7
  <2> QED BY <2>3, <2>4, <2>5
<1> QED BY <1>7, <1>8 DEF p

\* A shift to the left moves every bit up by the whole amount, across words, into
\* a value of any width; zeros come in and what passes the width is dropped
\* (shl_grow).
THEOREM ShiftLeftMoves ==
    ASSUME NEW v \in Values, NEW amt \in Nat, NEW w \in Nat
    PROVE  /\ shl_grow(v, amt, w) \in Values /\ shl_grow(v, amt, w).width = w
           /\ \A i \in Nat : i < w =>
                 BitOf(shl_grow(v, amt, w), i) = IF i < amt THEN "0" ELSE BitOf(v, i - amt)
<1> DEFINE val == ShiftedUp(v.val, amt, w)
           unk == ShiftedUp(v.unk, amt, w)
<1>1. /\ v.width \in Nat /\ v.signed \in BOOLEAN
      /\ v.val \in PlanesOf(v.width) /\ v.unk \in PlanesOf(v.width)
  BY ValueParts
<1>2. shl_grow(v, amt, w) = Value(val, unk, w, v.signed)
  BY DEF shl_grow, ShiftedUp, Index
<1>3. /\ Wordwise(val, w) /\ Wordwise(unk, w)
      /\ \A i \in Nat : i < w => (Has(val, i) <=> amt <= i /\ Has(v.val, i - amt))
      /\ \A i \in Nat : i < w => (Has(unk, i) <=> amt <= i /\ Has(v.unk, i - amt))
  BY <1>1, ShiftedUpBits
<1> HIDE DEF val, unk
<1>4. ASSUME NEW i \in Nat, i < w
      PROVE  Symbol(Has(val, i), Has(unk, i)) = IF i < amt THEN "0" ELSE BitOf(v, i - amt)
  <2>1. CASE i < amt
    <3>1. ~(amt <= i)
      BY <2>1
    <3> QED BY <1>3, <1>4, <2>1, <3>1 DEF Symbol
  <2>2. CASE ~(i < amt)
    <3>1. amt <= i
      BY <2>2
    <3> QED BY <1>3, <1>4, <2>2, <3>1, BitOfPlanes DEF Symbol
  <2> QED BY <2>1, <2>2
<1> QED BY <1>1, <1>2, <1>3, <1>4, ValueBits

\* A plane of words with nothing beyond the width is canonical.
LEMMA CanonicalPlane ==
    ASSUME NEW a \in Nat, NEW p \in [Index(a) -> Word], \A i \in Nat : Has(p, i) => i < a
    PROVE  p \in PlanesOf(a)
<1> DEFINE last == NWords(a) - 1
<1>1. last \in Nat /\ last \in Index(a)
  BY LastWord DEF Index
<1>2. p[last] \subseteq Bit
  BY <1>1 DEF Word
<1>3. ASSUME NEW b \in p[last] PROVE b \in top_mask(a)
  <2>1. b \in Bit
    BY <1>2
  <2>2. /\ last * WordBits + b \in Nat
        /\ (last * WordBits + b) \div WordBits = last /\ (last * WordBits + b) % WordBits = b
    BY <1>1, <2>1, PlaceIs
  <2>3. At(p, last) = p[last]
    BY <1>1 DEF At
  <2> HIDE DEF last
  <2>4. Has(p, last * WordBits + b)
    BY <1>3, <2>2, <2>3 DEF Has
  <2>5. last * WordBits + b < a
    BY <2>2, <2>4
  <2>6. a # 0
    BY <2>2, <2>5
  <2> QED BY <2>1, <2>5, <2>6, LastWord DEF last
<1> QED BY <1>3 DEF PlanesOf

\* A window of a word's size at a bit (window64).
LEMMA WindowBits ==
    ASSUME NEW c \in Nat, NEW s \in PlanesOf(c), NEW at \in Nat
    PROVE  /\ window64(s, at) \subseteq Bit
           /\ \A b \in Bit : b \in window64(s, at) <=> Has(s, at + b)
<1> DEFINE q == at \div WordBits  rem == at % WordBits
<1>1. q \in Nat /\ rem \in Bit
  BY PlaceOf
<1>2. \A k \in Nat : At(s, k) \subseteq Bit
  BY NothingBeyond
<1>3. window64(s, at) = shr_word(s, 0, q, rem)
  BY DEF window64
<1> HIDE DEF q, rem
<1>4. /\ shr_word(s, 0, q, rem) \subseteq Bit
      /\ \A b \in Bit : b \in shr_word(s, 0, q, rem) <=> Has(s, (0 + q) * WordBits + b + rem)
  BY <1>1, <1>2, ShrWordBits
<1>5. ASSUME NEW b \in Bit PROVE (0 + q) * WordBits + b + rem = at + b
  <2>1. (0 + q) * WordBits + b + rem = (0 * WordBits + b) + at
    BY AmountParts DEF q, rem
  <2>2. 0 * WordBits = 0 /\ b \in Int
    BY WordBitsAssumption DEF Bit
  <2> QED BY <2>1, <2>2
<1> QED BY <1>3, <1>4, <1>5

\* A plane with w bits of another or-ed in (copy_bits).
Pasted(d, doff, s, soff, w) ==
    [k \in DOMAIN d |->
        LET i   == Mx(k * WordBits - doff, 0)
            dsh == (doff + i) % WordBits
            n   == Mn(WordBits - dsh, w - i)
        IN  IF (doff + i) \div WordBits # k \/ i >= w THEN d[k]
            ELSE d[k] \cup Left(window64(s, soff + i) \cap low_mask(n), dsh)]

\* One word of it.
LEMMA PastedWord ==
    ASSUME NEW c \in Nat, NEW s \in PlanesOf(c), NEW doff \in Nat, NEW soff \in Nat, NEW w \in Nat,
           NEW d, NEW k \in Nat, k \in DOMAIN d, d[k] \subseteq Bit
    PROVE  /\ Pasted(d, doff, s, soff, w)[k] \subseteq Bit
           /\ \A b \in Bit : b \in Pasted(d, doff, s, soff, w)[k] <=>
                 \/ b \in d[k]
                 \/ LET j == k * WordBits + b
                    IN  doff <= j /\ j < doff + w /\ Has(s, soff + (j - doff))
<1> DEFINE i   == Mx(k * WordBits - doff, 0)
           dsh == (doff + i) % WordBits
           n   == Mn(WordBits - dsh, w - i)
           taken == Left(window64(s, soff + i) \cap low_mask(n), dsh)
           word == Pasted(d, doff, s, soff, w)[k]
<1>1. word = IF (doff + i) \div WordBits # k \/ i >= w THEN d[k] ELSE d[k] \cup taken
  BY DEF Pasted
<1>2. WordBits \in Nat \ {0} /\ Bit = 0 .. WordBits - 1 /\ k * WordBits \in Nat
  BY WordBitsAssumption, WordOrder DEF Bit
<1>3. i \in Nat /\ doff + i \in Nat /\ (k * WordBits >= doff => i = k * WordBits - doff)
      /\ (k * WordBits < doff => i = 0)
  BY <1>2 DEF Mx
<1> HIDE DEF word, i
<1>4. dsh \in Bit /\ dsh \in Nat
  BY <1>3, PlaceOf
<1>5. word \subseteq Bit
  BY <1>1 DEF Left
<1>6. window64(s, soff + i) \subseteq Bit
      /\ \A b \in Bit : b \in window64(s, soff + i) <=> Has(s, (soff + i) + b)
  BY <1>3, WindowBits
<1> HIDE DEF dsh, n
<1>7. ASSUME NEW b \in Bit
      PROVE  b \in taken <=> b - dsh \in Bit /\ b - dsh < n /\ Has(s, (soff + i) + (b - dsh))
  BY <1>6 DEF Left, low_mask
<1> HIDE DEF taken
<1>8. ASSUME NEW b \in Bit
      PROVE  b \in word <=>
                 \/ b \in d[k]
                 \/ LET j == k * WordBits + b
                    IN  doff <= j /\ j < doff + w /\ Has(s, soff + (j - doff))
  <2> DEFINE j == k * WordBits + b
  <2>1. j \in Nat /\ b \in Nat /\ b < WordBits
    BY <1>2
  <2>2. CASE k * WordBits >= doff
    <3>1. i = k * WordBits - doff /\ doff + i = k * WordBits
      BY <1>2, <1>3, <2>2
    <3>2. (k * WordBits + 0) \div WordBits = k /\ (k * WordBits + 0) % WordBits = 0
      BY <1>2, PlaceIs
    <3>3. (doff + i) \div WordBits = k /\ dsh = 0
      BY <1>2, <3>1, <3>2 DEF dsh
    <3>4. doff <= j /\ j - doff = i + b /\ (j < doff + w <=> i + b < w)
      BY <1>2, <1>3, <2>1, <2>2, <3>1
    <3> HIDE DEF j
    <3>5. CASE i >= w
      <4>1. word = d[k] /\ ~(j < doff + w)
        BY <1>1, <1>3, <2>1, <3>4, <3>5
      <4> QED BY <4>1 DEF j
    <3>6. CASE ~(i >= w)
      <4>1. word = d[k] \cup taken
        BY <1>1, <3>3, <3>6
      <4>2. b - dsh = b /\ (b < n <=> i + b < w)
        BY <1>2, <1>3, <2>1, <3>3, <3>6 DEF n, Mn
      <4>3. (soff + i) + b = soff + (j - doff)
        BY <1>3, <2>1, <3>4
      <4>4. b \in taken <=> i + b < w /\ Has(s, soff + (j - doff))
        BY <1>7, <4>2, <4>3
      <4> QED BY <3>4, <4>1, <4>4 DEF j
    <3> QED BY <3>5, <3>6
  <2>3. CASE k * WordBits < doff
    <3>1. i = 0 /\ doff + i = doff
      BY <1>3, <2>3
    <3> DEFINE kd == doff \div WordBits
    <3>2. kd \in Nat /\ dsh \in Bit /\ doff = kd * WordBits + dsh /\ kd * WordBits \in Nat
      BY <3>1, PlaceOf, WordOrder DEF dsh
    <3> HIDE DEF kd
    <3>3. ~(kd < k)
      <4>1. kd < k => kd * WordBits + WordBits <= k * WordBits
        BY <3>2, WordOrder
      <4> QED BY <1>2, <2>3, <3>2, <4>1
    <3>4. CASE k < kd
      <4>1. k * WordBits + WordBits <= kd * WordBits
        BY <3>2, <3>4, WordOrder
      <4>2. ~(doff <= j)
        BY <1>2, <2>1, <3>2, <4>1
      <4>3. word = d[k]
        BY <1>1, <3>1, <3>2, <3>4 DEF kd
      <4> QED BY <4>2, <4>3
    <3>5. CASE kd = k /\ 0 >= w
      <4>1. ~(doff <= j /\ j < doff + w)
        BY <2>1, <3>5
      <4>2. word = d[k]
        BY <1>1, <3>1, <3>5
      <4> QED BY <4>1, <4>2
    <3>6. CASE kd = k /\ ~(0 >= w)
      <4>1. word = d[k] \cup taken
        BY <1>1, <3>1, <3>6 DEF kd
      <4>2. /\ doff <= j <=> b - dsh \in Bit
            /\ b - dsh \in Bit => (j < doff + w <=> b - dsh < n)
            /\ j - doff = b - dsh
        BY <1>2, <2>1, <3>1, <3>2, <3>6 DEF n, Mn
      <4>3. (soff + i) + (b - dsh) = soff + (j - doff)
        BY <2>1, <3>1, <3>2, <4>2
      <4>4. b \in taken <=> doff <= j /\ j < doff + w /\ Has(s, soff + (j - doff))
        BY <1>7, <4>2, <4>3
      <4> QED BY <4>1, <4>4
    <3> QED BY <1>2, <3>2, <3>3, <3>4, <3>5, <3>6
  <2> QED BY <1>2, <2>2, <2>3
<1> QED BY <1>5, <1>8 DEF word

\* A plane with a window of another or-ed in, inside its width.
LEMMA PastedBits ==
    ASSUME NEW a \in Nat, NEW d \in PlanesOf(a), NEW c \in Nat, NEW s \in PlanesOf(c),
           NEW doff \in Nat, NEW soff \in Nat, NEW w \in Nat, doff + w <= a
    PROVE  /\ Pasted(d, doff, s, soff, w) \in PlanesOf(a)
           /\ \A i \in Nat : i < a =>
                 (Has(Pasted(d, doff, s, soff, w), i) <=>
                    \/ Has(d, i)
                    \/ doff <= i /\ i < doff + w /\ Has(s, soff + (i - doff)))
<1> DEFINE p == Pasted(d, doff, s, soff, w)
           Taken(j) == doff <= j /\ j < doff + w /\ Has(s, soff + (j - doff))
<1>1. DOMAIN p = DOMAIN d /\ DOMAIN d = Index(a) /\ p = [k \in DOMAIN d |-> p[k]]
  BY NothingBeyond DEF Pasted
<1>2. Index(a) \subseteq Nat
  BY LastWord DEF Index
<1>3. \A k \in Index(a) : d[k] \subseteq Bit
  BY DEF PlanesOf, Word
<1>4. \A k \in Index(a) : /\ p[k] \subseteq Bit
                         /\ \A b \in Bit : b \in p[k] <=> b \in d[k] \/ Taken(k * WordBits + b)
  BY <1>1, <1>2, <1>3, PastedWord
<1> HIDE DEF p, Taken
<1>5. p \in [Index(a) -> Word]
  BY <1>1, <1>4 DEF Word
<1>6. ASSUME NEW i \in Nat PROVE Has(p, i) <=> i \div WordBits \in Index(a) /\ (Has(d, i) \/ Taken(i))
  <2> DEFINE k == i \div WordBits  b == i % WordBits
  <2>1. b \in Bit /\ i = k * WordBits + b
    BY PlaceOf
  <2>2. Has(p, i) <=> b \in At(p, k)
    BY DEF Has
  <2>3. Has(d, i) <=> b \in At(d, k)
    BY DEF Has
  <2> HIDE DEF k, b
  <2>4. CASE k \in Index(a)
    <3>1. At(p, k) = p[k] /\ At(d, k) = d[k]
      BY <1>1, <2>4 DEF At
    <3> QED BY <1>4, <2>1, <2>2, <2>3, <2>4, <3>1 DEF k
  <2>5. CASE k \notin Index(a)
    <3>1. At(p, k) = {}
      BY <1>1, <2>5 DEF At
    <3> QED BY <2>2, <2>5, <3>1 DEF k
  <2> QED BY <2>4, <2>5
<1>7. \A i \in Nat : Has(p, i) => i < a
  <2>1. \A i \in Nat : Has(d, i) => i < a
    BY NothingBeyond
  <2>2. \A i \in Nat : Taken(i) => i < a
    BY DEF Taken
  <2> QED BY <1>6, <2>1, <2>2
<1>8. p \in PlanesOf(a)
  BY <1>5, <1>7, CanonicalPlane
<1>9. \A i \in Nat : i < a => (Has(p, i) <=> Has(d, i) \/ Taken(i))
  BY <1>6, BelowIsIn
<1> QED BY <1>8, <1>9 DEF p, Taken

\* A value with other planes.
Replaced(v, val, unk) == [v EXCEPT !.val = val, !.unk = unk]

\* A value with other planes of its width is a value.
LEMMA ReplacedParts ==
    ASSUME NEW v \in Values, NEW val \in PlanesOf(v.width), NEW unk \in PlanesOf(v.width)
    PROVE  /\ Replaced(v, val, unk) \in Values
           /\ Replaced(v, val, unk).width = v.width /\ Replaced(v, val, unk).signed = v.signed
           /\ Replaced(v, val, unk).val = val /\ Replaced(v, val, unk).unk = unk
<1> DEFINE u == Replaced(v, val, unk)
<1>1. /\ v.width \in Nat /\ v.signed \in BOOLEAN
      /\ v = [val |-> v.val, unk |-> v.unk, width |-> v.width, signed |-> v.signed]
  BY ValueParts
<1> DEFINE x == [v EXCEPT !.val = val]
<1>2. x = [val |-> val, unk |-> v.unk, width |-> v.width, signed |-> v.signed]
  BY <1>1
<1>5. u = [x EXCEPT !.unk = unk]
  BY DEF Replaced
<1> HIDE DEF x, u
<1>3. u = [val |-> val, unk |-> unk, width |-> v.width, signed |-> v.signed]
  BY <1>2, <1>5
<1>4. [val |-> val, unk |-> unk, width |-> v.width, signed |-> v.signed] \in Values
  BY <1>1 DEF Values
<1> QED BY <1>3, <1>4 DEF u

\* The bits of a window are 0.
Blank(v, off, w) == \A i \in Nat : off <= i /\ i < off + w => BitOf(v, i) = "0"

\* out is dst with w bits of src, from soff, in the place of its own from doff.
Spliced(res, dst, doff, src, soff, w) ==
    /\ res \in Values /\ res.width = dst.width /\ res.signed = dst.signed
    /\ \A i \in Nat : i < dst.width =>
          BitOf(res, i) = IF doff <= i /\ i < doff + w THEN BitOf(src, soff + (i - doff))
                          ELSE BitOf(dst, i)

\* A window of bits copied over zeros arrives whole and changes nothing else, at
\* any alignment of source and target: bits past the source come as zeros
\* (copy_bits, window64).
THEOREM CopyMoves ==
    ASSUME NEW dst \in Values, NEW src \in Values, NEW doff \in Nat, NEW soff \in Nat,
           NEW w \in Nat, doff + w <= dst.width, Blank(dst, doff, w)
    PROVE  Spliced(copy_bits(dst, doff, src, soff, w), dst, doff, src, soff, w)
<1> DEFINE a == dst.width
           val == Pasted(dst.val, doff, src.val, soff, w)
           unk == Pasted(dst.unk, doff, src.unk, soff, w)
           res == copy_bits(dst, doff, src, soff, w)
<1>1. /\ a \in Nat /\ dst.val \in PlanesOf(a) /\ dst.unk \in PlanesOf(a)
      /\ src.width \in Nat /\ src.val \in PlanesOf(src.width) /\ src.unk \in PlanesOf(src.width)
  BY ValueParts
<1>2. res = Replaced(dst, val, unk)
  BY DEF copy_bits, Pasted, Replaced
<1> HIDE DEF res
<1>3. /\ val \in PlanesOf(a)
      /\ \A i \in Nat : i < a =>
            (Has(val, i) <=> \/ Has(dst.val, i)
                             \/ doff <= i /\ i < doff + w /\ Has(src.val, soff + (i - doff)))
  BY <1>1, PastedBits
<1>4. /\ unk \in PlanesOf(a)
      /\ \A i \in Nat : i < a =>
            (Has(unk, i) <=> \/ Has(dst.unk, i)
                             \/ doff <= i /\ i < doff + w /\ Has(src.unk, soff + (i - doff)))
  BY <1>1, PastedBits
<1> HIDE DEF val, unk
<1>5. res \in Values /\ res.width = a /\ res.signed = dst.signed /\ res.val = val /\ res.unk = unk
  BY <1>2, <1>3, <1>4, ReplacedParts
<1>6. ASSUME NEW i \in Nat, i < a
      PROVE  BitOf(res, i) = IF doff <= i /\ i < doff + w THEN BitOf(src, soff + (i - doff))
                             ELSE BitOf(dst, i)
  <2>1. BitOf(res, i) = Symbol(Has(val, i), Has(unk, i))
    BY <1>5, BitOfPlanes
  <2>2. CASE doff <= i /\ i < doff + w
    <3>1. BitOf(dst, i) = "0"
      BY <2>2 DEF Blank
    <3>2. ~Has(dst.val, i) /\ ~Has(dst.unk, i)
      BY <3>1, BitOfPlanes DEF Symbol
    <3>3. /\ Has(val, i) <=> Has(src.val, soff + (i - doff))
          /\ Has(unk, i) <=> Has(src.unk, soff + (i - doff))
      BY <1>3, <1>4, <1>6, <2>2, <3>2
    <3> QED BY <2>1, <2>2, <3>3, BitOfPlanes DEF Symbol
  <2>3. CASE ~(doff <= i /\ i < doff + w)
    <3>1. (Has(val, i) <=> Has(dst.val, i)) /\ (Has(unk, i) <=> Has(dst.unk, i))
      BY <1>3, <1>4, <1>6, <2>3
    <3> QED BY <2>1, <2>3, <3>1, BitOfPlanes DEF Symbol
  <2> QED BY <2>2, <2>3
<1> QED BY <1>5, <1>6 DEF res, Spliced

\* A part-select write puts the window of the source in its place and leaves
\* every other bit of the target as it was (replace_bits).
THEOREM ReplaceMoves ==
    ASSUME NEW dst \in Values, NEW src \in Values, NEW doff \in Nat, NEW soff \in Nat,
           NEW w \in Nat, doff + w <= dst.width
    PROVE  Spliced(replace_bits(dst, doff, src, soff, w), dst, doff, src, soff, w)
<1> DEFINE a == dst.width
           val == fill_bits(dst.val, doff, doff + w, FALSE)
           unk == fill_bits(dst.unk, doff, doff + w, FALSE)
           clear == clear_bits(dst, doff, w)
<1>1. a \in Nat /\ dst.val \in PlanesOf(a) /\ dst.unk \in PlanesOf(a)
  BY ValueParts
<1>2. clear = Replaced(dst, val, unk)
  BY DEF clear_bits, Replaced
<1> HIDE DEF clear
<1>3. ASSUME NEW plane \in PlanesOf(a)
      PROVE  LET p == fill_bits(plane, doff, doff + w, FALSE)
             IN  /\ p \in PlanesOf(a)
                 /\ \A i \in Nat : i < a => (Has(p, i) <=> ~(doff <= i /\ i < doff + w) /\ Has(plane, i))
  <2> DEFINE p == fill_bits(plane, doff, doff + w, FALSE)
  <2>1. DOMAIN plane = Index(a) /\ Wordwise(plane, a) /\ \A i \in Nat : Has(plane, i) => i < a
    BY <1>1, NothingBeyond
  <2> DEFINE hi == doff + w  filler == FALSE
  <2>9. hi \in Nat /\ filler \in BOOLEAN
    OBVIOUS
  <2> HIDE DEF hi, filler
  <2>10. /\ DOMAIN fill_bits(plane, doff, hi, filler) = Index(a)
         /\ \A i \in Nat : i < a =>
               (Has(fill_bits(plane, doff, hi, filler), i)
                  <=> IF doff <= i /\ i < hi THEN filler ELSE Has(plane, i))
    BY ZenonT(30), <1>1, <2>1, <2>9, FillBits
  <2>2. /\ DOMAIN p = Index(a)
        /\ \A i \in Nat : i < a =>
              (Has(p, i) <=> ~(doff <= i /\ i < doff + w) /\ Has(plane, i))
    BY <2>10 DEF hi, filler
  <2>3. \A k \in Index(a) : plane[k] \subseteq Bit
    BY DEF PlanesOf, Word
  <2>4. p = [k \in Index(a) |-> p[k]] /\ \A k \in Index(a) : p[k] \subseteq plane[k]
    BY <2>1 DEF fill_bits
  <2> HIDE DEF p
  <2>5. p \in [Index(a) -> Word]
    BY <2>3, <2>4 DEF Word
  <2>6. \A k : At(p, k) \subseteq At(plane, k)
    BY <2>1, <2>2, <2>4 DEF At
  <2>7. \A i \in Nat : Has(p, i) => i < a
    BY <2>1, <2>6 DEF Has
  <2>8. p \in PlanesOf(a)
    BY <1>1, <2>5, <2>7, CanonicalPlane
  <2> QED BY <2>2, <2>8 DEF p
<1>4. /\ val \in PlanesOf(a) /\ unk \in PlanesOf(a)
      /\ \A i \in Nat : i < a => (Has(val, i) <=> ~(doff <= i /\ i < doff + w) /\ Has(dst.val, i))
      /\ \A i \in Nat : i < a => (Has(unk, i) <=> ~(doff <= i /\ i < doff + w) /\ Has(dst.unk, i))
  BY <1>1, <1>3
<1> HIDE DEF val, unk
<1>5. /\ clear \in Values /\ clear.width = a /\ clear.signed = dst.signed
      /\ clear.val = val /\ clear.unk = unk
  BY <1>2, <1>4, ReplacedParts
<1>6. ASSUME NEW i \in Nat, i < a
      PROVE  BitOf(clear, i) = IF doff <= i /\ i < doff + w THEN "0" ELSE BitOf(dst, i)
  <2>1. BitOf(clear, i) = Symbol(Has(val, i), Has(unk, i))
    BY <1>5, BitOfPlanes
  <2>2. CASE doff <= i /\ i < doff + w
    <3>1. ~Has(val, i) /\ ~Has(unk, i)
      BY <1>4, <1>6, <2>2
    <3> QED BY <2>1, <2>2, <3>1 DEF Symbol
  <2>3. CASE ~(doff <= i /\ i < doff + w)
    <3>1. (Has(val, i) <=> Has(dst.val, i)) /\ (Has(unk, i) <=> Has(dst.unk, i))
      BY <1>4, <1>6, <2>3
    <3> QED BY <2>1, <2>3, <3>1, BitOfPlanes DEF Symbol
  <2> QED BY <2>2, <2>3
<1>7. Blank(clear, doff, w)
  BY <1>1, <1>6 DEF Blank
<1> DEFINE res == copy_bits(clear, doff, src, soff, w)
<1>8. replace_bits(dst, doff, src, soff, w) = res
  BY DEF replace_bits, clear
<1>9. doff + w <= clear.width
  BY <1>5
<1>10. Spliced(res, clear, doff, src, soff, w)
  BY <1>5, <1>7, <1>9, CopyMoves
<1> HIDE DEF res
<1>11. /\ res \in Values /\ res.width = a /\ res.signed = dst.signed
       /\ \A i \in Nat : i < a =>
             BitOf(res, i) = IF doff <= i /\ i < doff + w THEN BitOf(src, soff + (i - doff))
                             ELSE BitOf(clear, i)
  BY <1>5, <1>10 DEF Spliced
<1> QED BY <1>6, <1>8, <1>11 DEF Spliced

\* All bits of zeros are 0 and all bits of xs are x.
LEMMA FilledBits ==
    ASSUME NEW w \in Nat, NEW s \in BOOLEAN
    PROVE  /\ zeros(w, s) \in Values /\ zeros(w, s).width = w /\ zeros(w, s).signed = s
           /\ \A i \in Nat : BitOf(zeros(w, s), i) = "0"
           /\ xs(w, s) \in Values /\ xs(w, s).width = w /\ xs(w, s).signed = s
           /\ \A i \in Nat : i < w => BitOf(xs(w, s), i) = "x"
<1>1. \A k : At(<<>>, k) = {}
  BY DEF At
<1>2. Wordwise(<<>>, w) /\ \A i : ~Has(<<>>, i)
  BY <1>1 DEF Wordwise, Has
<1>3. /\ zeros(w, s) \in Values /\ zeros(w, s).width = w /\ zeros(w, s).signed = s
      /\ \A i \in Nat : BitOf(zeros(w, s), i) = "0"
  BY <1>2, ValueBits DEF zeros, Symbol
<1> DEFINE quads == [k \in Index(w) |-> [val |-> {}, unk |-> Bit]]
<1>4. quads \in [Index(w) -> Quad]
  BY DEF Quad, Word
<1>5. \A k \in Index(w), b \in Bit : State(quads[k], b) = "x"
  BY DEF State
<1>6. xs(w, s) = FromWords(quads, w, s)
  BY DEF xs
<1> HIDE DEF quads
<1>7. /\ xs(w, s) \in Values /\ xs(w, s).width = w /\ xs(w, s).signed = s
      /\ \A i \in Nat : i < w => BitOf(xs(w, s), i) = State(quads[i \div WordBits], i % WordBits)
  BY <1>4, <1>6, FromWordsBits
<1>8. \A i \in Nat : i < w => BitOf(xs(w, s), i) = "x"
  BY <1>5, <1>7, BelowIsIn, PlaceOf
<1> QED BY <1>3, <1>7, <1>8

\* A concatenation has the bits of the right operand below and those of the left
\* one above them (eval_concat).
THEOREM ConcatMoves ==
    ASSUME NEW lv \in Values, NEW rv \in Values
    PROVE  /\ eval_concat(lv, rv) \in Values /\ eval_concat(lv, rv).width = lv.width + rv.width
           /\ \A i \in Nat : i < lv.width + rv.width =>
                 BitOf(eval_concat(lv, rv), i) = IF i < rv.width THEN BitOf(rv, i) ELSE BitOf(lv, i - rv.width)
<1> DEFINE n == lv.width + rv.width
           none == 0
           res == zeros(n, FALSE)
           mid == copy_bits(res, rv.width, lv, none, lv.width)
           top == copy_bits(mid, none, rv, none, rv.width)
<1>1. lv.width \in Nat /\ rv.width \in Nat /\ n \in Nat /\ none \in Nat
  BY ValueParts
<1>2. res \in Values /\ res.width = n /\ \A i \in Nat : BitOf(res, i) = "0"
  BY <1>1, FilledBits
<1>3. eval_concat(lv, rv) = top
  BY DEF eval_concat
<1> HIDE DEF res, mid, top
<1>4. rv.width + lv.width <= res.width /\ Blank(res, rv.width, lv.width)
  <2>1. rv.width + lv.width <= res.width
    BY <1>1, <1>2
  <2> QED BY <1>2, <2>1 DEF Blank
<1> HIDE DEF none, n
<1>5. /\ mid \in Values /\ mid.width = n
      /\ \A i \in Nat : i < n =>
            BitOf(mid, i) = IF rv.width <= i /\ i < rv.width + lv.width THEN BitOf(lv, none + (i - rv.width))
                            ELSE BitOf(res, i)
  <2>1. Spliced(mid, res, rv.width, lv, none, lv.width)
    BY <1>1, <1>2, <1>4, CopyMoves DEF mid
  <2> QED BY <1>2, <2>1 DEF Spliced
<1>6. none + rv.width <= mid.width /\ Blank(mid, none, rv.width)
  BY <1>1, <1>2, <1>5 DEF Blank, none, n
<1>7. /\ top \in Values /\ top.width = n
      /\ \A i \in Nat : i < n =>
            BitOf(top, i) = IF none <= i /\ i < none + rv.width THEN BitOf(rv, none + (i - none))
                            ELSE BitOf(mid, i)
  <2>1. Spliced(top, mid, none, rv, none, rv.width)
    BY <1>1, <1>5, <1>6, CopyMoves DEF top
  <2> QED BY <1>5, <2>1 DEF Spliced
<1>8. ASSUME NEW i \in Nat, i < n
      PROVE  BitOf(top, i) = IF i < rv.width THEN BitOf(rv, i) ELSE BitOf(lv, i - rv.width)
  <2>1. CASE i < rv.width
    <3>1. none + (i - none) = i /\ none <= i /\ i < none + rv.width
      BY <1>1, <2>1 DEF none
    <3> QED BY <1>7, <1>8, <2>1, <3>1
  <2>2. CASE ~(i < rv.width)
    <3>1. /\ none + (i - rv.width) = i - rv.width /\ ~(i < none + rv.width)
          /\ rv.width <= i /\ i < rv.width + lv.width
      BY <1>1, <1>8, <2>2 DEF none, n
    <3> QED BY <1>5, <1>7, <1>8, <2>2, <3>1
  <2> QED BY <2>1, <2>2
<1> QED BY <1>3, <1>7, <1>8 DEF n

\* A select of w bits reads every bit from its place, and x where it leaves its
\* source on either side; the copy of a window inside the source and the bit by
\* bit path of the others agree on this (eval_select).
THEOREM SelectReads ==
    ASSUME NEW v \in Values, NEW off, NEW w \in Nat, NEW kind \in {"[i]", "+:", "-:"},
           to_u64(off) \in Nat, ~(to_u64(off) > MaxIndex)
    PROVE  LET res == eval_select(v, off, w, kind)
               lsb == select_lsb(kind, to_u64(off), w)
           IN  /\ res \in Values /\ res.width = w
               /\ \A i \in Nat : i < w =>
                     BitOf(res, i) = IF lsb + i \in 0 .. v.width - 1 THEN BitOf(v, lsb + i) ELSE "x"
<1> DEFINE o   == to_u64(off)
           lsb == select_lsb(kind, o, w)
           In(k) == {b \in Bit : lsb + k * WordBits + b \in 0 .. v.width - 1}
           sel == [k \in Index(w) |->
             [val |-> {b \in In(k) : get_vu(v, lsb + k * WordBits + b).val},
              unk |-> {b \in In(k) : get_vu(v, lsb + k * WordBits + b).unk} \cup Not(In(k))]]
           res == eval_select(v, off, w, kind)
<1>1. v.width \in Nat /\ o \in Nat /\ lsb \in Int /\ v.val \in PlanesOf(v.width) /\ v.unk \in PlanesOf(v.width)
  BY ValueParts DEF select_lsb
<1>2. ~(o = -1)
  BY <1>1
<1>3. res = IF o > MaxIndex THEN xs(w, FALSE)
            ELSE IF window_in_range(lsb, w, v.width)
            THEN copy_bits(zeros(w, FALSE), 0, v, lsb, w)
            ELSE FromWords(sel, w, FALSE)
  BY <1>2 DEF eval_select
<1>6. o \in Nat /\ ~(o > MaxIndex)
  BY <1>1
<1> HIDE DEF res, o, lsb
<1>4. CASE window_in_range(lsb, w, v.width)
  <2> DEFINE none == 0  blank == zeros(w, FALSE)
  <2>1. lsb \in Nat /\ lsb + w <= v.width /\ none \in Nat /\ none + w <= w
    BY <1>1, <1>4 DEF window_in_range
  <2>2. blank \in Values /\ blank.width = w /\ Blank(blank, none, w)
    BY FilledBits DEF Blank
  <2>6. none + w <= blank.width
    BY <2>1, <2>2
  <2>3. res = copy_bits(blank, none, v, lsb, w)
    BY <1>3, <1>4, <1>6
  <2> HIDE DEF none, blank
  <2>4. /\ res \in Values /\ res.width = w
        /\ \A i \in Nat : i < w =>
              BitOf(res, i) = IF none <= i /\ i < none + w THEN BitOf(v, lsb + (i - none))
                              ELSE BitOf(blank, i)
    <3>1. Spliced(res, blank, none, v, lsb, w)
      BY <2>1, <2>2, <2>3, <2>6, CopyMoves
    <3> QED BY <2>2, <3>1 DEF Spliced
  <2>5. \A i \in Nat : i < w => /\ none <= i /\ i < none + w /\ lsb + (i - none) = lsb + i
                               /\ lsb + i \in 0 .. v.width - 1
    BY <1>1, <2>1 DEF none
  <2> QED BY <2>4, <2>5 DEF res, o, lsb
<1>5. CASE ~window_in_range(lsb, w, v.width)
  <2> DEFINE unsigned == FALSE
  <2>1. res = FromWords(sel, w, unsigned) /\ unsigned \in BOOLEAN
    BY <1>3, <1>5, <1>6
  <2> HIDE DEF unsigned
  <2>2. sel \in [Index(w) -> Quad]
    BY DEF Quad, Word, Not
  <2>3. Index(w) \subseteq Nat
    BY LastWord DEF Index
  <2>4. ASSUME NEW i \in Nat, i < w
        PROVE  State(sel[i \div WordBits], i % WordBits) =
                  IF lsb + i \in 0 .. v.width - 1 THEN BitOf(v, lsb + i) ELSE "x"
    <3> DEFINE k == i \div WordBits  b == i % WordBits
    <3>1. k \in Index(w) /\ k \in Nat /\ b \in Bit /\ i = k * WordBits + b /\ k * WordBits \in Nat /\ b \in Nat
      BY <2>4, BelowIsIn, PlaceOf, WordOrder
    <3> HIDE DEF k, b
    <3>2. lsb + k * WordBits + b = lsb + i
      BY <1>1, <3>1
    <3>3. b \in In(k) <=> lsb + i \in 0 .. v.width - 1
      BY <3>1, <3>2
    <3>4. /\ get_vu(v, lsb + i).val = Has(v.val, lsb + i)
          /\ get_vu(v, lsb + i).unk = Has(v.unk, lsb + i)
      BY BitOfPlanes
    <3>5. /\ b \in sel[k].val <=> b \in In(k) /\ Has(v.val, lsb + i)
          /\ b \in sel[k].unk <=> (b \in In(k) /\ Has(v.unk, lsb + i)) \/ b \notin In(k)
      BY <3>1, <3>2, <3>4 DEF Not
    <3> HIDE DEF sel, In
    <3> QED BY <3>3, <3>5, BitOfPlanes DEF State, Symbol, k, b
  <2> HIDE DEF sel
  <2>5. /\ res \in Values /\ res.width = w
        /\ \A i \in Nat : i < w => BitOf(res, i) = State(sel[i \div WordBits], i % WordBits)
    BY <2>1, <2>2, FromWordsBits
  <2> QED BY <2>4, <2>5 DEF res, o, lsb
<1> QED BY <1>4, <1>5

-----------------------------------------------------------------------------
(* Truth and equality.                                                     *)

\* A bit below a width is a bit of one of its words.
LEMMA SomeBit ==
    ASSUME NEW w \in Nat, NEW X
    PROVE  (\E i \in Nat : i < w /\ i \in X) <=>
              \E k \in 0 .. nwords(w) - 1 : \E b \in Bit : k * WordBits + b < w /\ k * WordBits + b \in X
<1>1. nwords(w) \in Nat
  BY LastWord
<1>2. ASSUME NEW i \in Nat, i < w, i \in X
      PROVE  \E k \in 0 .. nwords(w) - 1 : \E b \in Bit : k * WordBits + b < w /\ k * WordBits + b \in X
  <2> DEFINE k == i \div WordBits  b == i % WordBits
  <2>1. k \in Nat /\ b \in Bit /\ i = k * WordBits + b /\ k < nwords(w)
    BY <1>2, PlaceOf, BelowIsIn
  <2> HIDE DEF k, b
  <2>2. k \in 0 .. nwords(w) - 1
    BY <1>1, <2>1
  <2> QED BY <1>2, <2>1, <2>2
<1>3. ASSUME NEW k \in 0 .. nwords(w) - 1, NEW b \in Bit, k * WordBits + b < w, k * WordBits + b \in X
      PROVE  \E i \in Nat : i < w /\ i \in X
  <2>1. k \in Nat
    BY <1>1
  <2>2. k * WordBits + b \in Nat
    BY <2>1, PlaceIs
  <2> QED BY <1>3, <2>2
<1> QED BY <1>2, <1>3

\* The bit of a value at a place of a word.
LEMMA BitAtPlace ==
    ASSUME NEW v, NEW k \in Nat, NEW b \in Bit
    PROVE  BitOf(v, k * WordBits + b) = State(Quads(v, k), b)
BY PlaceIs DEF BitOf

\* A value has a bit that is x or z.
HasUnknown(v) == \E i \in Nat : i < v.width /\ BitOf(v, i) \notin Defined

\* A value has an unknown bit when one of its words says so: the scan of the
\* words of its width and the scan of all its words agree (has_xz, any_unknown).
LEMMA UnknownIsUnknown ==
    ASSUME NEW v \in Values
    PROVE  (has_xz(v) <=> HasUnknown(v)) /\ (AnyUnknown(v) <=> HasUnknown(v))
<1>1. /\ v.width \in Nat /\ v.unk \in PlanesOf(v.width)
      /\ v.unk \in [Index(v.width) -> Word] /\ Index(v.width) \subseteq Nat
  <2>1. Index(v.width) \subseteq Nat
    BY ValueParts, LastWord DEF Index
  <2> QED BY <2>1, ValueParts DEF PlanesOf
<1>2. nwords(v.width) \in Nat
  BY <1>1, LastWord
<1>3. \A i : BitOf(v, i) \notin Defined <=> Has(v.unk, i)
  BY BitOfPlanes DEF Symbol, Defined
<1>4. \A i \in Nat : Has(v.unk, i) => i < v.width
  BY <1>1, NothingBeyond
<1>5. ASSUME NEW k \in Nat, At(v.unk, k) # {} PROVE HasUnknown(v)
  <2>1. PICK b : b \in At(v.unk, k)
    BY <1>5
  <2>2. b \in Bit
    BY <1>1, <1>5, <2>1, NothingBeyond
  <2>3. /\ k * WordBits + b \in Nat
        /\ (k * WordBits + b) \div WordBits = k /\ (k * WordBits + b) % WordBits = b
    BY <2>2, PlaceIs
  <2>4. Has(v.unk, k * WordBits + b)
    BY <2>1, <2>3 DEF Has
  <2> QED BY <1>3, <1>4, <2>3, <2>4 DEF HasUnknown
<1>6. ASSUME HasUnknown(v) PROVE has_xz(v) /\ AnyUnknown(v)
  <2>1. PICK i \in Nat : i < v.width /\ Has(v.unk, i)
    BY <1>3, <1>6 DEF HasUnknown
  <2> DEFINE k == i \div WordBits
  <2>2. k \in Index(v.width) /\ k \in Nat /\ k < nwords(v.width)
    BY <1>1, <2>1, BelowIsIn
  <2>3. At(v.unk, k) # {}
    BY <2>1 DEF Has
  <2> HIDE DEF k
  <2>4. k \in 0 .. nwords(v.width) - 1
    BY <1>2, <2>2
  <2>5. v.unk[k] # {} /\ k \in DOMAIN v.unk
    BY <1>1, <2>2, <2>3 DEF At
  <2> QED BY <2>3, <2>4, <2>5 DEF has_xz, AnyUnknown
<1>7. has_xz(v) => HasUnknown(v)
  <2>1. \A k \in 0 .. nwords(v.width) - 1 : k \in Nat
    BY <1>2
  <2> QED BY <1>5, <2>1 DEF has_xz
<1>8. AnyUnknown(v) => HasUnknown(v)
  <2>1. \A k \in DOMAIN v.unk : k \in Nat /\ At(v.unk, k) = v.unk[k]
    BY <1>1 DEF At
  <2> QED BY <1>5, <2>1 DEF AnyUnknown
<1> QED BY <1>6, <1>7, <1>8

\* Extension neither hides an unknown bit nor makes one of a known value.
LEMMA UnknownExtends ==
    ASSUME NEW v \in Values, NEW w \in Nat, NEW s \in BOOLEAN, v.width <= w
    PROVE  HasUnknown(resize_keep_sign(v, w, s)) <=> HasUnknown(v)
<1> DEFINE e == resize_keep_sign(v, w, s)
<1>1. v.width \in Nat
  BY ValueParts
<1>2. e.width = w /\ \A i \in Nat : i < w => BitOf(e, i) = Ext(v, v.signed /\ s, i)
  BY ContextExtends
<1> HIDE DEF e
<1>3. ASSUME HasUnknown(e) PROVE HasUnknown(v)
  <2>1. PICK i \in Nat : i < w /\ BitOf(e, i) \notin Defined
    BY <1>2, <1>3 DEF HasUnknown
  <2>2. Ext(v, v.signed /\ s, i) \notin Defined
    BY <1>2, <2>1
  <2>3. CASE i < v.width
    BY <2>2, <2>3 DEF Ext, HasUnknown
  <2>4. CASE ~(i < v.width)
    <3>1. v.width > 0 /\ BitOf(v, v.width - 1) \notin Defined
      BY <2>2, <2>4 DEF Ext, Defined
    <3>2. v.width - 1 \in Nat /\ v.width - 1 < v.width
      BY <1>1, <3>1
    <3> QED BY <3>1, <3>2 DEF HasUnknown
  <2> QED BY <2>3, <2>4
<1>4. ASSUME HasUnknown(v) PROVE HasUnknown(e)
  <2>1. PICK i \in Nat : i < v.width /\ BitOf(v, i) \notin Defined
    BY <1>4 DEF HasUnknown
  <2>2. i < w /\ BitOf(e, i) = BitOf(v, i)
    BY <1>1, <1>2, <2>1 DEF Ext
  <2> QED BY <1>2, <2>1, <2>2 DEF HasUnknown
<1> QED BY <1>3, <1>4 DEF e

\* What two words say of a bit.
LEMMA WordCompares ==
    ASSUME NEW p \in Quad, NEW q \in Quad, NEW b \in Bit
    PROVE  /\ b \in Differ(p, q) \ Unknown(p, q) <=> {State(p, b), State(q, b)} = Defined
           /\ b \in Same(p, q) <=> State(p, b) = State(q, b)
           /\ b \in Known0(p) <=> State(p, b) = "0"
           /\ b \in IsZ(p) <=> State(p, b) = "z"
           /\ b \in p.unk <=> State(p, b) \notin Defined
<1> USE DEF Quad, Word, Not, State, Differ, Unknown, Same, Known0, IsZ, Defined
<1>1. b \in Differ(p, q) \ Unknown(p, q) <=> {State(p, b), State(q, b)} = {"0", "1"}
  OBVIOUS
<1>2. b \in Same(p, q) <=> State(p, b) = State(q, b)
  OBVIOUS
<1>3. b \in Known0(p) <=> State(p, b) = "0"
  OBVIOUS
<1>4. b \in IsZ(p) <=> State(p, b) = "z"
  OBVIOUS
<1>5. b \in p.unk <=> State(p, b) \notin Defined
  OBVIOUS
<1> QED BY <1>1, <1>2, <1>3, <1>4, <1>5

\* == and !=: a bit known on both sides that differs decides, over any unknown
\* bits elsewhere; else an unknown bit of either operand leaves it open; the
\* operands size and sign each other and the padding takes no part (log_eq).
THEOREM EqualityTruth ==
    ASSUME NEW lv \in Values, NEW rv \in Values, NEW o \in {"==", "!="}
    PROVE  LET s == lv.signed /\ rv.signed
           IN  log_eq(o, lv, rv) =
                  IF \E i \in Nat : i < Mx(lv.width, rv.width) /\ {Ext(lv, s, i), Ext(rv, s, i)} = Defined
                  THEN logic(o = "!=")
                  ELSE IF HasUnknown(lv) \/ HasUnknown(rv) THEN x1
                  ELSE logic(o = "==")
<1> DEFINE w  == Mx(lv.width, rv.width)
           s  == lv.signed /\ rv.signed
           le == resize_keep_sign(lv, w, s)
           re == resize_keep_sign(rv, w, s)
           Definitely(k) == Differ(Quads(le, k), Quads(re, k)) \ Unknown(Quads(le, k), Quads(re, k))
           differ == \E k \in 0 .. nwords(w) - 1 : Definitely(k) # {}
           X == {i \in Nat : {BitOf(le, i), BitOf(re, i)} = Defined}
<1>1. /\ log_eq(o, lv, rv) = IF differ THEN logic(o = "!=")
                            ELSE IF AnyUnknown(le) \/ AnyUnknown(re) THEN x1
                            ELSE logic(o = "==")
  BY DEF log_eq
<1>2. /\ w \in Nat /\ lv.width <= w /\ rv.width <= w
      /\ s \in BOOLEAN /\ lv.signed \in BOOLEAN /\ rv.signed \in BOOLEAN
  BY ValueParts, Wider
<1>3. (lv.signed /\ s <=> s) /\ (rv.signed /\ s <=> s)
  BY <1>2
<1> HIDE DEF w
<1>4. /\ le \in Values /\ le.width = w
      /\ re \in Values /\ re.width = w
      /\ \A i \in Nat : i < w => BitOf(le, i) = Ext(lv, lv.signed /\ s, i)
      /\ \A i \in Nat : i < w => BitOf(re, i) = Ext(rv, rv.signed /\ s, i)
  BY <1>2, ContextExtends
<1>5. \A i \in Nat : i < w => BitOf(le, i) = Ext(lv, s, i) /\ BitOf(re, i) = Ext(rv, s, i)
  BY <1>3, <1>4 DEF Ext
<1>6. (AnyUnknown(le) <=> HasUnknown(lv)) /\ (AnyUnknown(re) <=> HasUnknown(rv))
  BY <1>2, <1>4, UnknownIsUnknown, UnknownExtends
<1> HIDE DEF le, re, s
<1>7. ASSUME NEW k \in Nat
      PROVE  /\ Definitely(k) \subseteq Bit
             /\ \A b \in Bit : b \in Definitely(k) <=> k * WordBits + b \in X
  <2>1. Quads(le, k) \in Quad /\ Quads(re, k) \in Quad
    BY <1>4, QuadsType
  <2>2. Definitely(k) \subseteq Bit
    BY <2>1 DEF Differ, Quad, Word
  <2>3. ASSUME NEW b \in Bit PROVE b \in Definitely(k) <=> k * WordBits + b \in X
    <3>1. b \in Definitely(k) <=> {State(Quads(le, k), b), State(Quads(re, k), b)} = Defined
      BY <2>1, WordCompares
    <3>2. k * WordBits + b \in Nat
      BY PlaceIs
    <3>3. BitOf(le, k * WordBits + b) = State(Quads(le, k), b) /\ BitOf(re, k * WordBits + b) = State(Quads(re, k), b)
      BY BitAtPlace
    <3> QED BY <3>1, <3>2, <3>3
  <2> QED BY <2>2, <2>3
<1>8. \A i \in X : i < w
  BY <1>2, <1>4, BitBeyond DEF Defined
<1>9. X \subseteq Nat /\ \A i \in Nat : i < w => (i \in X <=> {Ext(lv, s, i), Ext(rv, s, i)} = Defined)
  BY <1>5
<1> HIDE DEF Definitely, X
<1>10. differ <=> \E i \in Nat : i < w /\ i \in X
  <2>1. \A k \in 0 .. nwords(w) - 1 : k \in Nat
    BY <1>2, LastWord
  <2>2. differ <=> \E k \in 0 .. nwords(w) - 1 : \E b \in Bit : k * WordBits + b < w /\ k * WordBits + b \in X
    BY <1>7, <1>8, <2>1
  <2> QED BY <1>2, <2>2, SomeBit
<1>11. differ <=> \E i \in Nat : i < w /\ {Ext(lv, s, i), Ext(rv, s, i)} = Defined
  BY <1>9, <1>10
<1> HIDE DEF differ
<1> QED BY <1>1, <1>6, <1>11 DEF w, s

\* === and !== compare all four states of every bit of the extended operands, and
\* nothing beyond their width (case_eq).
THEOREM CaseEqualityTruth ==
    ASSUME NEW lv \in Values, NEW rv \in Values, NEW o \in {"===", "!=="}
    PROVE  LET s == lv.signed /\ rv.signed
           IN  case_eq(o, lv, rv) =
                  IF \A i \in Nat : i < Mx(lv.width, rv.width) => Ext(lv, s, i) = Ext(rv, s, i)
                  THEN logic(o = "===") ELSE logic(o = "!==")
<1> DEFINE w  == Mx(lv.width, rv.width)
           s  == lv.signed /\ rv.signed
           le == resize_keep_sign(lv, w, s)
           re == resize_keep_sign(rv, w, s)
           eq == \A k \in 0 .. nwords(w) - 1 : Same(Quads(le, k), Quads(re, k)) = Bit
           X == {i \in Nat : BitOf(le, i) # BitOf(re, i)}
           all == \A i \in Nat : i < w => Ext(lv, s, i) = Ext(rv, s, i)
<1>1. case_eq(o, lv, rv) = logic(eq = (o = "==="))
  BY DEF case_eq
<1>2. w \in Nat /\ s \in BOOLEAN /\ lv.signed \in BOOLEAN /\ rv.signed \in BOOLEAN
  BY ValueParts, Wider
<1>3. (lv.signed /\ s <=> s) /\ (rv.signed /\ s <=> s)
  BY <1>2
<1> HIDE DEF w
<1>4. /\ le \in Values /\ le.width = w
      /\ re \in Values /\ re.width = w
      /\ \A i \in Nat : i < w => BitOf(le, i) = Ext(lv, lv.signed /\ s, i)
      /\ \A i \in Nat : i < w => BitOf(re, i) = Ext(rv, rv.signed /\ s, i)
  BY <1>2, ContextExtends
<1>5. \A i \in Nat : i < w => BitOf(le, i) = Ext(lv, s, i) /\ BitOf(re, i) = Ext(rv, s, i)
  BY <1>3, <1>4 DEF Ext
<1> HIDE DEF le, re, s
<1>6. ASSUME NEW k \in Nat
      PROVE  /\ Same(Quads(le, k), Quads(re, k)) \subseteq Bit
             /\ \A b \in Bit : b \in Same(Quads(le, k), Quads(re, k)) <=> k * WordBits + b \notin X
  <2>1. Quads(le, k) \in Quad /\ Quads(re, k) \in Quad
    BY <1>4, QuadsType
  <2>2. Same(Quads(le, k), Quads(re, k)) \subseteq Bit
    BY DEF Same, Not
  <2>3. ASSUME NEW b \in Bit PROVE b \in Same(Quads(le, k), Quads(re, k)) <=> k * WordBits + b \notin X
    <3>1. b \in Same(Quads(le, k), Quads(re, k)) <=> State(Quads(le, k), b) = State(Quads(re, k), b)
      BY <2>1, WordCompares
    <3>2. k * WordBits + b \in Nat
      BY PlaceIs
    <3>3. BitOf(le, k * WordBits + b) = State(Quads(le, k), b) /\ BitOf(re, k * WordBits + b) = State(Quads(re, k), b)
      BY BitAtPlace
    <3> QED BY <3>1, <3>2, <3>3
  <2> QED BY <2>2, <2>3
<1>7. \A i \in X : i < w
  BY <1>2, <1>4, BitBeyond
<1>8. X \subseteq Nat /\ \A i \in Nat : i < w => (i \notin X <=> Ext(lv, s, i) = Ext(rv, s, i))
  BY <1>5
<1> HIDE DEF X
<1>9. eq <=> ~\E i \in Nat : i < w /\ i \in X
  <2>1. \A k \in 0 .. nwords(w) - 1 : k \in Nat
    BY <1>2, LastWord
  <2>2. eq <=> ~\E k \in 0 .. nwords(w) - 1 : \E b \in Bit : k * WordBits + b < w /\ k * WordBits + b \in X
    BY <1>6, <1>7, <2>1
  <2> QED BY <1>2, <2>2, SomeBit
<1>10. eq <=> all
  BY <1>8, <1>9
<1> HIDE DEF eq
<1>11. CASE all
  <2>1. logic(eq = (o = "===")) = logic(o = "===")
    BY <1>10, <1>11 DEF logic
  <2> QED BY <1>1, <1>11, <2>1, SMTT(30) DEF w, s
<1>12. CASE ~all
  <2>1. logic(eq = (o = "===")) = logic(o = "!==")
    BY <1>10, <1>12 DEF logic
  <2> QED BY <1>1, <1>12, <2>1, SMTT(30) DEF w, s
<1> QED BY <1>11, <1>12

\* casez and casex: two operands of one width match when on every bit they agree
\* or one of them is a wildcard, z or, for casex, also x (casez_eq).
THEOREM CaseMatchTruth ==
    ASSUME NEW lv \in Values, NEW rv \in Values, lv.width = rv.width, NEW o \in {"casez", "casex"}
    PROVE  LET Wild(p) == p = "z" \/ (p = "x" /\ o = "casex")
           IN  casez_eq(o, lv, rv) =
                  IF \A i \in Nat : i < lv.width =>
                        Wild(BitOf(lv, i)) \/ Wild(BitOf(rv, i)) \/ BitOf(lv, i) = BitOf(rv, i)
                  THEN logic(TRUE) ELSE logic(FALSE)
<1> DEFINE w == Mx(lv.width, rv.width)
           Wild(p) == p = "z" \/ (p = "x" /\ o = "casex")
           Agrees(i) == Wild(BitOf(lv, i)) \/ Wild(BitOf(rv, i)) \/ BitOf(lv, i) = BitOf(rv, i)
           Open(q) == IF o = "casez" THEN IsZ(q) ELSE q.unk
           words == \A k \in 0 .. NWords(w) - 1 :
                       Not(Open(Quads(lv, k)) \cup Open(Quads(rv, k))) \subseteq Same(Quads(lv, k), Quads(rv, k))
           bits == \A i \in Nat : i < lv.width => Agrees(i)
<1>1. casez_eq(o, lv, rv) = logic(words)
  BY DEF casez_eq
<1>2. w = lv.width /\ w = rv.width /\ w \in Nat
  BY ValueParts DEF Mx
<1> HIDE DEF w
<1>3. 0 .. NWords(w) - 1 = Index(w) /\ Index(w) \subseteq Nat
  BY <1>2, LastWord DEF Index
<1>4. ASSUME NEW k \in Nat, NEW b \in Bit
      PROVE  (b \in Not(Open(Quads(lv, k)) \cup Open(Quads(rv, k))) => b \in Same(Quads(lv, k), Quads(rv, k)))
                <=> Agrees(k * WordBits + b)
  <2> DEFINE p == Quads(lv, k)  q == Quads(rv, k)
  <2>1. p \in Quad /\ q \in Quad
    BY QuadsType
  <2>2. BitOf(lv, k * WordBits + b) = State(p, b) /\ BitOf(rv, k * WordBits + b) = State(q, b)
    BY BitAtPlace
  <2> HIDE DEF p, q
  <2>3. (b \in Open(p) <=> Wild(State(p, b))) /\ (b \in Open(q) <=> Wild(State(q, b)))
    <3>1. CASE o = "casez"
      BY <2>1, <3>1, WordCompares
    <3>2. CASE o = "casex"
      BY <2>1, <3>2, WordCompares, StateType DEF Defined, Four
    <3> QED BY <3>1, <3>2
  <2>4. b \in Same(p, q) <=> State(p, b) = State(q, b)
    BY <2>1, WordCompares
  <2> HIDE DEF Open, Wild
  <2>5. Agrees(k * WordBits + b) <=> Wild(State(p, b)) \/ Wild(State(q, b)) \/ State(p, b) = State(q, b)
    BY <2>2
  <2> HIDE DEF Agrees
  <2> QED BY <2>3, <2>4, <2>5 DEF Not, p, q
<1>5. \A k : Same(Quads(lv, k), Quads(rv, k)) \subseteq Bit
      /\ Not(Open(Quads(lv, k)) \cup Open(Quads(rv, k))) \subseteq Bit
  BY DEF Same, Not
<1>6. ASSUME NEW i \in Nat, ~(i < w) PROVE Agrees(i)
  BY <1>2, <1>6, BitBeyond
<1> HIDE DEF Agrees, Open
<1>7. words <=> \A k \in Index(w) : \A b \in Bit : Agrees(k * WordBits + b)
  BY <1>3, <1>4, <1>5
<1>8. ASSUME bits PROVE \A k \in Index(w) : \A b \in Bit : Agrees(k * WordBits + b)
  BY <1>2, <1>3, <1>6, <1>8, PlaceIs
<1>9. ASSUME \A k \in Index(w) : \A b \in Bit : Agrees(k * WordBits + b), NEW i \in Nat, i < w
      PROVE  Agrees(i)
  <2>1. i \div WordBits \in Index(w) /\ i % WordBits \in Bit /\ i = (i \div WordBits) * WordBits + (i % WordBits)
    BY <1>2, <1>9, BelowIsIn, PlaceOf
  <2> QED BY <1>9, <2>1
<1>10. words <=> bits
  BY <1>2, <1>7, <1>8, <1>9
<1> HIDE DEF words
<1>11. CASE bits
  <2>1. logic(words) = logic(TRUE)
    BY <1>10, <1>11 DEF logic
  <2> QED BY <1>1, <1>11, <2>1 DEF Agrees
<1>12. CASE ~bits
  <2>1. logic(words) = logic(FALSE)
    BY <1>10, <1>12 DEF logic
  <2> QED BY <1>1, <1>12, <2>1 DEF Agrees
<1> QED BY <1>11, <1>12

\* The reduction & is 0 when one bit of the value is 0, and no bit of the padding
\* counts as one; else x when one is unknown; else 1 (reduce_word, any_known0).
THEOREM AndReduction ==
    ASSUME NEW v \in Values
    PROVE  reduce_word(v, "and") = IF \E i \in Nat : i < v.width /\ BitOf(v, i) = "0" THEN "0"
                                   ELSE IF HasUnknown(v) THEN "x" ELSE "1"
<1> DEFINE w == v.width
           X == {i \in Nat : BitOf(v, i) = "0"}
<1>1. w \in Nat /\ nwords(w) \in Nat
  BY ValueParts, LastWord
<1>2. ASSUME NEW k \in Nat, NEW b
      PROVE  b \in Known0(Quads(v, k)) \cap low_mask(w - k * WordBits)
                <=> b \in Bit /\ k * WordBits + b < w /\ k * WordBits + b \in X
  <2>1. CASE b \in Bit
    <3>1. k * WordBits \in Nat /\ k * WordBits + b \in Nat /\ b \in Int
      BY <2>1, WordOrder, PlaceIs DEF Bit
    <3>2. b \in low_mask(w - k * WordBits) <=> k * WordBits + b < w
      BY <1>1, <2>1, <3>1 DEF low_mask
    <3>3. b \in Known0(Quads(v, k)) <=> State(Quads(v, k), b) = "0"
      BY <2>1, QuadsType, WordCompares
    <3>4. BitOf(v, k * WordBits + b) = State(Quads(v, k), b)
      BY <2>1, BitAtPlace
    <3> QED BY <2>1, <3>1, <3>2, <3>3, <3>4
  <2>2. CASE b \notin Bit
    BY <2>2 DEF low_mask
  <2> QED BY <2>1, <2>2
<1>3. any_known0(v) <=> \E i \in Nat : i < w /\ i \in X
  <2>1. \A k \in 0 .. nwords(w) - 1 : k \in Nat
    BY <1>1
  <2> HIDE DEF w, X
  <2>2. any_known0(v) <=> \E k \in 0 .. nwords(w) - 1 : \E b \in Bit : k * WordBits + b < w /\ k * WordBits + b \in X
    BY <1>2, <2>1 DEF any_known0, w
  <2> QED BY <1>1, <2>2, SomeBit
<1>4. any_known0(v) <=> \E i \in Nat : i < w /\ BitOf(v, i) = "0"
  BY <1>3
<1> QED BY <1>4, UnknownIsUnknown DEF reduce_word

\* Powers of two, by counting subsets.
LEMMA PowerOfTwo ==
    /\ 2 ^ 0 = 1
    /\ \A n \in Nat : 2 ^ n \in Nat \ {0} /\ 2 ^ (n + 1) = 2 * 2 ^ n
<1>1. 2 ^ 0 = 1
  OBVIOUS
<1>2. \A n \in Nat : Cardinality(SUBSET (1 .. n)) = 2 ^ n /\ IsFiniteSet(SUBSET (1 .. n)) /\ 2 ^ n \in Nat
  <2> TAKE n \in Nat
  <2>1. IsFiniteSet(1 .. n) /\ Cardinality(1 .. n) = n
    BY FS_Interval
  <2>2. Cardinality(SUBSET (1 .. n)) = 2 ^ Cardinality(1 .. n) /\ IsFiniteSet(SUBSET (1 .. n))
    BY <2>1, FS_SUBSET
  <2>3. Cardinality(SUBSET (1 .. n)) \in Nat
    BY <2>2, FS_CardinalityType
  <2> QED BY <2>1, <2>2, <2>3
<1>3. ASSUME NEW n \in Nat
      PROVE  2 ^ n # 0 /\ 2 ^ (n + 1) = 2 * 2 ^ n
  <2> DEFINE Old == SUBSET (1 .. n)
             New == {T \cup {n + 1} : T \in Old}
  <2>1. SUBSET (1 .. n + 1) = Old \cup New
    <3>1. ASSUME NEW T \in SUBSET (1 .. n + 1)
          PROVE  T \in Old \/ T \in New
      <4>1. CASE n + 1 \in T
        <5>1. T = (T \ {n + 1}) \cup {n + 1} /\ T \ {n + 1} \in Old
          BY <4>1
        <5> QED BY <5>1
      <4>2. CASE n + 1 \notin T
        BY <4>2
      <4> QED BY <4>1, <4>2
    <3>2. \A T \in Old : T \in SUBSET (1 .. n + 1) /\ T \cup {n + 1} \in SUBSET (1 .. n + 1)
      OBVIOUS
    <3>3. \A T \in New : T \in SUBSET (1 .. n + 1)
      BY <3>2
    <3>4. \A T \in Old : T \in SUBSET (1 .. n + 1)
      BY <3>2
    <3> HIDE DEF Old, New
    <3> QED BY <3>1, <3>3, <3>4
  <2>2. Old \cap New = {}
    OBVIOUS
  <2>3. ExistsBijection(Old, New)
    <3> DEFINE f == [T \in Old |-> T \cup {n + 1}]
    <3>1. f \in [Old -> New]
      OBVIOUS
    <3>2. \A S, T \in Old : f[S] = f[T] => S = T
      <4> TAKE S, T \in Old
      <4>1. S = (S \cup {n + 1}) \ {n + 1} /\ T = (T \cup {n + 1}) \ {n + 1}
        OBVIOUS
      <4> QED BY <4>1
    <3>3. \A U \in New : \E T \in Old : f[T] = U
      OBVIOUS
    <3> HIDE DEF f, Old, New
    <3>4. f \in Bijection(Old, New)
      BY <3>1, <3>2, <3>3 DEF Bijection, Injection, Surjection, IsInjective
    <3> QED BY <3>4 DEF ExistsBijection
  <2>4. IsFiniteSet(Old) /\ Cardinality(Old) = 2 ^ n /\ 2 ^ n \in Nat
    BY <1>2
  <2> HIDE DEF Old, New
  <2>5. IsFiniteSet(New) /\ Cardinality(New) = 2 ^ n
    BY <2>3, <2>4, FS_Bijection
  <2>6. Cardinality(Old \cup New) = Cardinality(Old) + Cardinality(New) - Cardinality(Old \cap New)
    BY <2>4, <2>5, FS_Union
  <2>7. Cardinality(Old \cap New) = 0
    BY <2>2, FS_EmptySet
  <2>8. 2 ^ (n + 1) = 2 ^ n + 2 ^ n
    BY <1>2, <2>1, <2>4, <2>5, <2>6, <2>7
  <2>9. 2 ^ n # 0
    BY <2>4, FS_EmptySet DEF Old
  <2> QED BY <2>4, <2>8, <2>9
<1> QED BY <1>1, <1>2, <1>3

-----------------------------------------------------------------------------
(* Folds.  A fold takes out of a set what CHOOSE picks, until none is left. *)
Picked(s) == CHOOSE x \in s : TRUE

Others(s)  == s \ {Picked(s)}

\* What is left after a pick is smaller.
LEMMA PickedOf ==
    ASSUME NEW s, IsFiniteSet(s), s # {}
    PROVE  /\ Picked(s) \in s /\ IsFiniteSet(Others(s)) /\ Others(s) \subseteq s
           /\ Cardinality(Others(s)) = Cardinality(s) - 1
           /\ Cardinality(s) \in Nat \ {0}
<1>1. Picked(s) \in s
  BY DEF Picked
<1>2. Cardinality(s) \in Nat /\ Cardinality(s) # 0
  BY FS_CardinalityType, FS_EmptySet
<1> QED BY <1>1, <1>2, FS_RemoveElement DEF Others

\* A property of the subsets of a finite set that each has when the smaller ones have it.
LEMMA SizeInduction ==
    ASSUME NEW S, IsFiniteSet(S), NEW P,
           \A s \in SUBSET S : (\A t \in SUBSET S : Cardinality(t) < Cardinality(s) => t \in P) => s \in P
    PROVE  SUBSET S \subseteq P
<1>1. \A s \in SUBSET S : IsFiniteSet(s) /\ Cardinality(s) \in Nat
  BY FS_Subset, FS_CardinalityType
<1> DEFINE B == {n \in Nat : \E s \in SUBSET S : s \notin P /\ Cardinality(s) = n}
<1> SUFFICES ASSUME NEW s0 \in SUBSET S, s0 \notin P PROVE FALSE
  OBVIOUS
<1>2. Cardinality(s0) \in B
  BY <1>1
<1>3. PICK m \in B : \A n \in B : m <= n
  <2>1. B \in SUBSET Nat /\ B # {}
    BY <1>2
  <2> HIDE DEF B
  <2> QED BY <2>1, LeastNat
<1>4. PICK s \in SUBSET S : s \notin P /\ Cardinality(s) = m
  BY <1>3
<1>5. ASSUME NEW t \in SUBSET S, Cardinality(t) < Cardinality(s)
      PROVE  t \in P
  <2> SUFFICES ASSUME t \notin P PROVE FALSE
    OBVIOUS
  <2>1. Cardinality(t) \in B
    BY <1>1
  <2>2. m <= Cardinality(t)
    BY <1>3, <2>1
  <2> QED BY <1>1, <1>4, <1>5, <2>2
<1> QED BY <1>4, <1>5

\* The same, one picked element at a time.
LEMMA PickInduction ==
    ASSUME NEW S, IsFiniteSet(S), NEW P, {} \in P,
           \A s \in SUBSET S : s # {} /\ Others(s) \in P => s \in P
    PROVE  SUBSET S \subseteq P
<1>1. ASSUME NEW s \in SUBSET S, \A t \in SUBSET S : Cardinality(t) < Cardinality(s) => t \in P
      PROVE  s \in P
  <2>1. CASE s = {}
    BY <2>1
  <2>2. CASE s # {}
    <3>1. IsFiniteSet(s)
      BY FS_Subset
    <3>2. Others(s) \in SUBSET S /\ Cardinality(Others(s)) < Cardinality(s)
      BY <2>2, <3>1, PickedOf
    <3> QED BY <1>1, <2>2, <3>2
  <2> QED BY <2>1, <2>2
<1> QED BY <1>1, SizeInduction

\* f folds H over every subset of S, from base.
FoldsOver(f, S, V, base, H) ==
    /\ f \in [SUBSET S -> V]
    /\ \A s \in SUBSET S : f[s] = IF s = {} THEN base ELSE H[<<Picked(s), f[Others(s)]>>]

\* The recursion of a fold has a solution.
LEMMA FoldExists ==
    ASSUME NEW S, IsFiniteSet(S), NEW V, NEW base \in V, NEW H \in [S \X V -> V]
    PROVE  \E f : FoldsOver(f, S, V, base, H)
<1> DEFINE Eq(f, s) == f[s] = IF s = {} THEN base ELSE H[<<Picked(s), f[Others(s)]>>]
           Q == {n \in Nat : \E f \in [SUBSET S -> V] :
                                \A s \in SUBSET S : Cardinality(s) <= n => Eq(f, s)}
<1>0. \A s \in SUBSET S : IsFiniteSet(s) /\ Cardinality(s) \in Nat /\ (Cardinality(s) = 0 <=> s = {})
  BY FS_Subset, FS_CardinalityType, FS_EmptySet
<1>1. 0 \in Q
  <2> DEFINE f == [s \in SUBSET S |-> base]
  <2>1. f \in [SUBSET S -> V]
    OBVIOUS
  <2>2. \A s \in SUBSET S : Cardinality(s) <= 0 => Eq(f, s)
    BY <1>0
  <2> HIDE DEF f, Eq
  <2> QED BY <2>1, <2>2
<1>2. ASSUME NEW n \in Nat, n \in Q
      PROVE  n + 1 \in Q
  <2>1. PICK f \in [SUBSET S -> V] : \A s \in SUBSET S : Cardinality(s) <= n => Eq(f, s)
    BY <1>2
  <2> DEFINE g == [s \in SUBSET S |-> IF s = {} THEN base ELSE H[<<Picked(s), f[Others(s)]>>]]
  <2>2. \A s \in SUBSET S : s # {} => /\ Picked(s) \in S /\ Others(s) \in SUBSET S
                                      /\ Cardinality(Others(s)) = Cardinality(s) - 1
    BY <1>0, PickedOf
  <2>3. g \in [SUBSET S -> V]
    BY <2>2
  <2>4. ASSUME NEW s \in SUBSET S, Cardinality(s) <= n + 1
        PROVE  Eq(g, s)
    <3>1. CASE s = {}
      BY <3>1
    <3>2. CASE s # {}
      <4>1. Others(s) \in SUBSET S /\ Cardinality(Others(s)) <= n
        BY <1>0, <2>2, <2>4, <3>2
      <4>2. f[Others(s)] = g[Others(s)]
        BY <2>1, <4>1
      <4> QED BY <3>2, <4>2
    <3> QED BY <3>1, <3>2
  <2> HIDE DEF g, Eq
  <2> QED BY <2>3, <2>4
<1>3. \A n \in Nat : n \in Q
  <2> HIDE DEF Q
  <2> QED BY <1>1, <1>2, SetInduction
<1>4. Cardinality(S) \in Q
  BY <1>0, <1>3
<1>5. \A s \in SUBSET S : Cardinality(s) <= Cardinality(S)
  BY FS_Subset
<1>6. PICK f \in [SUBSET S -> V] : \A s \in SUBSET S : Cardinality(s) <= Cardinality(S) => Eq(f, s)
  BY <1>4
<1> QED BY <1>5, <1>6 DEF FoldsOver

-----------------------------------------------------------------------------
(* Sums over finite sets, of the integers a function gives.                *)
SumStep(f, g, S) == [s \in SUBSET S |-> IF s = {} THEN 0 ELSE g[Picked(s)] + f[Others(s)]]

Summing(g, S)    == CHOOSE f : f = SumStep(f, g, S)

SumOver(g, S)    == Summing(g, S)[S]

\* The summing fold has the recursion of a fold.
LEMMA SummingSolves ==
    ASSUME NEW S, IsFiniteSet(S), NEW g, \A x \in S : g[x] \in Int
    PROVE  /\ Summing(g, S) = SumStep(Summing(g, S), g, S)
           /\ \A s \in SUBSET S : Summing(g, S)[s] \in Int
           /\ \A h : h = SumStep(h, g, S) => \A s \in SUBSET S : h[s] = Summing(g, S)[s]
<1> DEFINE H == [p \in S \X Int |-> g[p[1]] + p[2]]
<1>0. H \in [S \X Int -> Int]
  OBVIOUS
<1>1. PICK f : FoldsOver(f, S, Int, 0, H)
  <2>1. 0 \in Int
    OBVIOUS
  <2> HIDE DEF H
  <2> QED BY <1>0, <2>1, FoldExists
<1>7. /\ f \in [SUBSET S -> Int]
      /\ \A s \in SUBSET S : f[s] = IF s = {} THEN 0 ELSE H[<<Picked(s), f[Others(s)]>>]
  BY <1>1 DEF FoldsOver
<1>2. \A s \in SUBSET S : s # {} => Picked(s) \in S /\ Others(s) \in SUBSET S
  BY PickedOf, FS_Subset
<1>3. \A s \in SUBSET S : s # {} => H[<<Picked(s), f[Others(s)]>>] = g[Picked(s)] + f[Others(s)]
  <2>1. \A x \in S, n \in Int : H[<<x, n>>] = g[x] + n
    OBVIOUS
  <2> HIDE DEF H
  <2> QED BY <1>2, <1>7, <2>1
<1> HIDE DEF H
<1>4. f = SumStep(f, g, S)
  BY <1>3, <1>7 DEF SumStep
<1>5. Summing(g, S) = SumStep(Summing(g, S), g, S)
  BY <1>4 DEF Summing
<1>6. ASSUME NEW h, h = SumStep(h, g, S)
      PROVE  \A s \in SUBSET S : h[s] = f[s]
  <2> DEFINE P == {s \in SUBSET S : h[s] = f[s]}
  <2>0. \A s \in SUBSET S : h[s] = IF s = {} THEN 0 ELSE g[Picked(s)] + h[Others(s)]
    <3> DEFINE k == SumStep(h, g, S)
    <3>1. \A s \in SUBSET S : k[s] = IF s = {} THEN 0 ELSE g[Picked(s)] + h[Others(s)]
      BY DEF SumStep
    <3> HIDE DEF k
    <3>2. h = k
      BY <1>6 DEF k
    <3> QED BY <3>1, <3>2
  <2>1. {} \in P
    BY <1>7, <2>0
  <2>2. \A s \in SUBSET S : s # {} /\ Others(s) \in P => s \in P
    BY <1>3, <1>7, <2>0
  <2>3. SUBSET S \subseteq P
    <3> HIDE DEF P
    <3> QED BY <2>1, <2>2, PickInduction
  <2> QED BY <2>3
<1> QED BY <1>5, <1>6, <1>7

\* Summing depends on S only through the sets it is asked about.
LEMMA SumEquation ==
    ASSUME NEW S, IsFiniteSet(S), NEW g, \A x \in S : g[x] \in Int
    PROVE  /\ SumOver(g, S) \in Int
           /\ S = {} => SumOver(g, S) = 0
           /\ S # {} => SumOver(g, S) = g[Picked(S)] + SumOver(g, Others(S))
<1> DEFINE T == Others(S)
           F == Summing(g, S)
           G == Summing(g, T)
<1>1. /\ F = SumStep(F, g, S) /\ \A s \in SUBSET S : F[s] \in Int
  BY SummingSolves
<1>2. F[S] = IF S = {} THEN 0 ELSE g[Picked(S)] + F[T]
  <2> DEFINE k == SumStep(F, g, S)
  <2>1. k[S] = IF S = {} THEN 0 ELSE g[Picked(S)] + F[T]
    BY DEF SumStep
  <2> HIDE DEF k, F
  <2>2. F = k
    BY <1>1 DEF k
  <2> QED BY <2>1, <2>2
<1>3. T \subseteq S /\ IsFiniteSet(T)
  BY FS_RemoveElement DEF Others
<1>4. \A h : h = SumStep(h, g, T) => \A s \in SUBSET T : h[s] = G[s]
  BY <1>3, SummingSolves
<1>5. F[T] = G[T]
  <2> DEFINE h == [s \in SUBSET T |-> F[s]]
  <2>1. \A s \in SUBSET T : s # {} => Others(s) \in SUBSET T
    BY DEF Others
  <2>2. \A s \in SUBSET T : F[s] = IF s = {} THEN 0 ELSE g[Picked(s)] + F[Others(s)]
    <3> DEFINE k == SumStep(F, g, S)
    <3>1. \A s \in SUBSET S : k[s] = IF s = {} THEN 0 ELSE g[Picked(s)] + F[Others(s)]
      BY DEF SumStep
    <3> HIDE DEF k, F
    <3>2. F = k
      BY <1>1 DEF k
    <3> QED BY <1>3, <3>1, <3>2
  <2>3. h = SumStep(h, g, T)
    <3> HIDE DEF F, T
    <3> QED BY <2>1, <2>2 DEF SumStep
  <2>4. h[T] = G[T]
    <3> HIDE DEF h, G, T
    <3> QED BY <1>4, <2>3
  <2> QED BY <2>4
<1> QED BY <1>1, <1>2, <1>5 DEF SumOver

\* Any element may be taken out of a sum.
LEMMA SumRemove ==
    ASSUME NEW S, IsFiniteSet(S), NEW g, \A x \in S : g[x] \in Int, NEW x \in S
    PROVE  SumOver(g, S) = g[x] + SumOver(g, S \ {x})
<1> DEFINE P == {s \in SUBSET S : \A y \in s : SumOver(g, s) = g[y] + SumOver(g, s \ {y})}
<1>1. ASSUME NEW s \in SUBSET S, \A t \in SUBSET S : Cardinality(t) < Cardinality(s) => t \in P
      PROVE  s \in P
  <2> SUFFICES ASSUME NEW y \in s PROVE SumOver(g, s) = g[y] + SumOver(g, s \ {y})
    OBVIOUS
  <2>1. IsFiniteSet(s) /\ \A z \in s : g[z] \in Int
    BY FS_Subset
  <2> DEFINE p == Picked(s)
  <2>2. p \in s
    BY DEF Picked
  <2>3. SumOver(g, s) = g[p] + SumOver(g, s \ {p})
    BY <2>1, SumEquation DEF Others
  <2>4. CASE y = p
    BY <2>3, <2>4
  <2>5. CASE y # p
    <3> HIDE DEF p
    <3>1. \A z \in s : s \ {z} \in P
      <4> TAKE z \in s
      <4>1. Cardinality(s \ {z}) = Cardinality(s) - 1 /\ Cardinality(s) \in Nat
        BY <2>1, FS_RemoveElement, FS_CardinalityType
      <4> HIDE DEF P
      <4> QED BY <1>1, <4>1
    <3>2. SumOver(g, s \ {p}) = g[y] + SumOver(g, (s \ {p}) \ {y})
      BY <2>2, <2>5, <3>1
    <3>3. SumOver(g, s \ {y}) = g[p] + SumOver(g, (s \ {y}) \ {p})
      BY <2>2, <2>5, <3>1
    <3>4. (s \ {p}) \ {y} = (s \ {y}) \ {p}
      OBVIOUS
    <3>5. IsFiniteSet((s \ {y}) \ {p})
      BY <2>1, FS_RemoveElement
    <3>6. SumOver(g, (s \ {y}) \ {p}) \in Int
      BY <2>1, <3>5, SumEquation
    <3>7. g[p] \in Int /\ g[y] \in Int
      BY <2>1, <2>2
    <3>8. SumOver(g, s \ {p}) = g[y] + SumOver(g, (s \ {y}) \ {p})
      BY <3>2, <3>4
    <3> DEFINE c == SumOver(g, (s \ {y}) \ {p})  d == SumOver(g, s \ {p})  e == SumOver(g, s \ {y})
    <3>9. c \in Int /\ d = g[y] + c /\ e = g[p] + c /\ SumOver(g, s) = g[p] + d
      BY <2>3, <3>3, <3>6, <3>8
    <3> HIDE DEF c, d
    <3>10. SumOver(g, s) = g[y] + e
      <4> HIDE DEF e
      <4> QED BY <3>7, <3>9
    <3> QED BY <3>10
  <2> QED BY <2>4, <2>5
<1>2. SUBSET S \subseteq P
  <2> HIDE DEF P
  <2> QED BY <1>1, SizeInduction
<1> QED BY <1>2

\* Sums of equal terms are equal.
LEMMA SumSame ==
    ASSUME NEW S, IsFiniteSet(S), NEW g, NEW h, \A x \in S : g[x] \in Int /\ g[x] = h[x]
    PROVE  SumOver(g, S) = SumOver(h, S)
<1>1. \A f : SumStep(f, g, S) = SumStep(f, h, S)
  <2> TAKE f
  <2>1. \A s \in SUBSET S : s # {} => g[Picked(s)] = h[Picked(s)]
    BY DEF Picked
  <2> QED BY <2>1 DEF SumStep
<1> QED BY <1>1 DEF SumOver, Summing

\* A sum of naturals is one.
LEMMA SumNatural ==
    ASSUME NEW S, IsFiniteSet(S), NEW g, \A x \in S : g[x] \in Nat
    PROVE  SumOver(g, S) \in Nat /\ \A x \in S : g[x] <= SumOver(g, S)
<1> DEFINE P == {s \in SUBSET S : SumOver(g, s) \in Nat}
<1>0. \A s \in SUBSET S : IsFiniteSet(s) /\ \A x \in s : g[x] \in Int
  BY FS_Subset
<1>1. {} \in P
  BY <1>0, SumEquation
<1>2. ASSUME NEW s \in SUBSET S, s # {}, Others(s) \in P
      PROVE  s \in P
  <2>1. SumOver(g, s) = g[Picked(s)] + SumOver(g, Others(s))
    BY <1>0, <1>2, SumEquation
  <2>2. g[Picked(s)] \in Nat
    BY <1>0, <1>2, PickedOf
  <2> QED BY <1>2, <2>1, <2>2
<1>3. SUBSET S \subseteq P
  <2> HIDE DEF P
  <2> QED BY <1>1, <1>2, PickInduction
<1>4. ASSUME NEW x \in S
      PROVE  g[x] <= SumOver(g, S)
  <2>1. SumOver(g, S) = g[x] + SumOver(g, S \ {x})
    BY SumRemove
  <2>2. SumOver(g, S \ {x}) \in Nat
    BY <1>3
  <2> QED BY <2>1, <2>2
<1> QED BY <1>3, <1>4

\* What the library sums over a set.
LEMMA SumSetIs ==
    ASSUME NEW S, S \subseteq Int, IsFiniteSet(S)
    PROVE  SumSet(S) = SumOver([x \in S |-> x], S)
<1> DEFINE g == [x \in S |-> x]
           Lib(f) == [s \in SUBSET S |-> IF s = {} THEN 0
                        ELSE (CHOOSE x \in s : TRUE) + f[s \ {CHOOSE x \in s : TRUE}]]
<1>1. SumSet(S) = (CHOOSE f : f = Lib(f))[S]
  BY DEF SumSet, FoldSet, MapThenFoldSet
<1>2. \A f : Lib(f) = SumStep(f, g, S)
  <2> TAKE f
  <2>1. \A s \in SUBSET S : s # {} => g[Picked(s)] = Picked(s)
    BY DEF Picked
  <2> HIDE DEF g
  <2> QED BY <2>1 DEF SumStep, Picked, Others
<1> HIDE DEF g, Lib
<1> QED BY <1>1, <1>2 DEF SumOver, Summing, g

\* The count of ones is such a sum.
LEMMA MapSumIs ==
    ASSUME NEW v, IsFiniteSet(DOMAIN v.val)
    PROVE  ones(v) = SumOver([k \in DOMAIN v.val |-> Cardinality(Known1(Quads(v, k)))], DOMAIN v.val)
<1> DEFINE S == DOMAIN v.val
           C(k) == Cardinality(Known1(Quads(v, k)))
           g == [k \in S |-> C(k)]
           Lib(f) == [s \in SUBSET S |-> IF s = {} THEN 0
                        ELSE C(CHOOSE x \in s : TRUE) + f[s \ {CHOOSE x \in s : TRUE}]]
<1>1. ones(v) = (CHOOSE f : f = Lib(f))[S]
  BY DEF ones, MapThenSumSet, MapThenFoldSet
<1>2. \A f : Lib(f) = SumStep(f, g, S)
  <2> TAKE f
  <2>1. \A s \in SUBSET S : s # {} => g[Picked(s)] = C(Picked(s))
    BY DEF Picked
  <2> HIDE DEF g, C, S
  <2> QED BY <2>1 DEF SumStep, Picked, Others
<1> HIDE DEF Lib
<1>3. ones(v) = SumOver(g, S)
  <2> HIDE DEF g, S
  <2> QED BY <1>1, <1>2 DEF SumOver, Summing
<1> QED BY <1>3

-----------------------------------------------------------------------------
(* Answers are canonical.                                                  *)
\* The powers of two of a finite set of bits.
Powers(B) == {2 ^ b : b \in B}

\* The powers of a finite set of bits are finite and positive.
LEMMA PowersFinite ==
    ASSUME NEW B \in SUBSET Nat, IsFiniteSet(B)
    PROVE  IsFiniteSet(Powers(B)) /\ Powers(B) \subseteq Nat \ {0}
<1>1. Powers(B) \subseteq Nat \ {0}
  BY PowerOfTwo DEF Powers
<1>2. IsFiniteSet(Powers(B))
  <2> DEFINE f == [b \in B |-> 2 ^ b]
  <2>1. f \in Surjection(B, Powers(B))
    BY DEF Surjection, Powers
  <2> QED BY <2>1, FS_Surjection
<1> QED BY <1>1, <1>2

\* The number of a word, and the sum of the powers of any bits.
LEMMA PowerSum ==
    ASSUME NEW B \in SUBSET Nat, IsFiniteSet(B)
    PROVE  /\ SumSet(Powers(B)) \in Nat
           /\ \A b \in B : 2 ^ b <= SumSet(Powers(B))
           /\ B = {} => SumSet(Powers(B)) = 0
<1> DEFINE S == Powers(B)
           g == [x \in S |-> x]
<1>1. IsFiniteSet(S) /\ S \subseteq Nat /\ S \subseteq Int
  BY PowersFinite
<1>2. SumSet(S) = SumOver(g, S)
  <2> HIDE DEF S
  <2> QED BY <1>1, SumSetIs
<1>3. SumOver(g, S) \in Nat /\ \A x \in S : g[x] <= SumOver(g, S)
  <2>1. \A x \in S : g[x] \in Nat
    BY <1>1
  <2> HIDE DEF g, S
  <2> QED BY <1>1, <2>1, SumNatural
<1>4. \A b \in B : 2 ^ b \in S /\ g[2 ^ b] = 2 ^ b
  BY DEF Powers
<1>5. B = {} => S = {}
  BY DEF Powers
<1>6. S = {} => SumOver(g, S) = 0
  <2>1. \A x \in S : g[x] \in Int
    BY <1>1
  <2> HIDE DEF g, S
  <2> QED BY <1>1, <2>1, SumEquation
<1> HIDE DEF g, S
<1>7. \A b \in B : 2 ^ b <= SumOver(g, S)
  BY <1>3, <1>4
<1> QED BY <1>2, <1>3, <1>5, <1>6, <1>7 DEF S

\* The number of a word is below the base.
LEMMA NumType ==
    ASSUME NEW word \in Word
    PROVE  Num(word) \in Nat /\ Num(word) = SumSet(Powers(word)) /\ IsFiniteSet(word)
<1>1. IsFiniteSet(Bit) /\ Bit \subseteq Nat
  <2>1. WordBits - 1 \in Int
    BY WordBitsAssumption
  <2> QED BY <2>1, FS_Interval DEF Bit
<1>2. IsFiniteSet(word) /\ word \in SUBSET Nat
  BY <1>1, FS_Subset DEF Word
<1> QED BY <1>2, PowerSum DEF Num, Powers

\* A shift amount is a natural, a selected offset is one or -1.
LEMMA AmountType ==
    ASSUME NEW v \in Values
    PROVE  Amount(v) \in Nat /\ to_u64(v) \in Nat \cup {-1}
<1>1. At(v.val, 0) \in Word
  BY ValueParts, NothingBeyond DEF Word
<1>2. to_u64(v) \in Nat \cup {-1}
  BY <1>1, NumType DEF to_u64
<1>3. 2 ^ WordBits \in Nat \ {0}
  BY PowerOfTwo, WordBitsAssumption
<1> QED BY <1>2, <1>3 DEF Amount

\* A canonical value of width w and sign s.
Region(v, w, s) == v \in Values /\ v.width = w /\ v.signed = s

\* The bits of a number make a word.
LEMMA Bits == ASSUME NEW d PROVE BitsOf(d) \in Word
BY DEF BitsOf, Word

\* Planes of one plane's words and of none.
LEMMA PlaneOfWords ==
    ASSUME NEW p, \A k \in DOMAIN p : p[k] \in Word, NEW w \in Nat, NEW s \in BOOLEAN
    PROVE  Region(Value(p, <<>>, w, s), w, s)
<1>1. Wordwise(p, w) /\ Wordwise(<<>>, w)
  BY DEF Wordwise, At, Word
<1> QED BY <1>1, ValueBits DEF Region

\* A number in a value of any width is cut to it (OfDigits, OfLane, Integer).
LEMMA DigitsType ==
    ASSUME NEW a, NEW w \in Nat, NEW s \in BOOLEAN
    PROVE  Region(OfDigits(a, w, s), w, s)
<1> DEFINE p == [k \in DOMAIN a |-> BitsOf(a[k])]
<1>1. \A k \in DOMAIN p : p[k] \in Word
  BY Bits
<1>2. Region(Value(p, <<>>, w, s), w, s)
  <2> HIDE DEF p
  <2> QED BY <1>1, PlaneOfWords
<1> QED BY <1>2 DEF OfDigits

\* The filled values have the width and the sign asked for.
LEMMA FillType ==
    ASSUME NEW w \in Nat, NEW s \in BOOLEAN
    PROVE  Region(zeros(w, s), w, s) /\ Region(xs(w, s), w, s)
BY FilledBits DEF Region

\* A truth value is a value of one bit.
LEMMA TruthType ==
    /\ \A b : Region(logic(b), 1, FALSE)
    /\ Region(x1, 1, FALSE)
    /\ \A b : Region(Tri(b), 1, FALSE)
<1>1. ASSUME NEW b PROVE Region(logic(b), 1, FALSE)
  <2> DEFINE p == [k \in {0} |-> IF b THEN {0} ELSE {}]
  <2>1. 0 \in Bit
    BY WordBitsAssumption DEF Bit
  <2>2. \A k \in DOMAIN p : p[k] \in Word
    BY <2>1 DEF Word
  <2>3. Region(Value(p, <<>>, 1, FALSE), 1, FALSE)
    <3> HIDE DEF p
    <3> QED BY <2>2, PlaneOfWords
  <2> QED BY <2>3 DEF logic
<1>2. Region(x1, 1, FALSE)
  BY FillType DEF x1
<1>3. ASSUME NEW b PROVE Region(Tri(b), 1, FALSE)
  BY <1>1, <1>2 DEF Tri
<1> QED BY <1>1, <1>2, <1>3

\* - answers at the width of its operand.
LEMMA NegateType ==
    ASSUME NEW a \in Values
    PROVE  Region(negate(a), a.width, a.signed)
BY ValueParts, FillType, DigitsType DEF negate

-----------------------------------------------------------------------------
(* Replication.                                                            *)
LEMMA Copies ==
    ASSUME NEW n \in Nat, NEW c \in Nat, NEW k \in Nat
    PROVE  /\ c * n \in Nat /\ n * c = c * n /\ (c + 1) * n = c * n + n
           /\ c < k => c * n + n <= n * k
<1>1. c * n \in Nat /\ n * c = c * n /\ (c + 1) * n = c * n + n
  OBVIOUS
<1>2. ASSUME c < k PROVE c * n + n <= n * k
  <2>1. PICK d \in Nat : k = c + 1 + d
    <3>1. k - c - 1 \in Nat /\ k = c + 1 + (k - c - 1)
      BY <1>2
    <3> QED BY <3>1
  <2>2. n * k = (c * n + n) + n * d /\ n * d \in Nat
    BY <2>1
  <2> QED BY <1>1, <2>2
<1> QED BY <1>1, <1>2

\* A place of copy number c, and its place in the copy.
LEMMA PlaceInCopy ==
    ASSUME NEW n \in Nat \ {0}, NEW c \in Nat, NEW i \in Nat, c * n <= i, i < c * n + n
    PROVE  i % n = i - c * n
<1>1. c * n \in Nat
  BY Copies
<1>2. PICK j \in Nat : i = c * n + j /\ j < n
  <2>1. i - c * n \in Nat /\ i - c * n < n
    BY <1>1
  <2> QED BY <1>1, <2>1
<1>3. (c * n + j) % n = j
  BY <1>2
<1> QED BY <1>1, <1>2, <1>3

\* The copies of v, one after the other.
RepTo(count, v) ==
    LET Rep[c \in 0 .. count] ==
          IF c = 0 THEN zeros(v.width * count, FALSE)
          ELSE copy_bits(Rep[c - 1], (c - 1) * v.width, v, 0, v.width)
    IN  Rep

Copying(f, m, count, v) ==
    /\ f = [c \in 0 .. count |-> f[c]]
    /\ \A c \in 0 .. count : c <= m =>
          f[c] = IF c = 0 THEN zeros(v.width * count, FALSE)
                 ELSE copy_bits(f[c - 1], (c - 1) * v.width, v, 0, v.width)

\* The recursion of eval_replicate holds at every count.
LEMMA CopyEquation ==
    ASSUME NEW count \in Nat, NEW v, NEW c \in 0 .. count
    PROVE  RepTo(count, v)[c] = IF c = 0 THEN zeros(v.width * count, FALSE)
              ELSE copy_bits(RepTo(count, v)[c - 1], (c - 1) * v.width, v, 0, v.width)
<1> DEFINE P == {m \in Nat : \E f : Copying(f, m, count, v)}
           Next_(x, n) == copy_bits(x, (n - 1) * v.width, v, 0, v.width)
           z == zeros(v.width * count, FALSE)
<1>1. 0 \in P
  <2> DEFINE f == [n \in 0 .. count |-> z]
  <2>1. \A n \in 0 .. count : f[n] = z /\ (n <= 0 => n = 0)
    <3> HIDE DEF z
    <3> QED OBVIOUS
  <2>2. f = [n \in 0 .. count |-> f[n]]
    <3> HIDE DEF z
    <3> QED OBVIOUS
  <2>3. Copying(f, 0, count, v)
    <3> HIDE DEF f
    <3> QED BY <2>1, <2>2 DEF Copying
  <2> HIDE DEF f
  <2> QED BY <2>3
<1>2. ASSUME NEW m \in Nat, m \in P
      PROVE  m + 1 \in P
  <2>1. PICK f : Copying(f, m, count, v)
    BY <1>2
  <2> DEFINE g == [n \in 0 .. count |-> IF n = m + 1 THEN Next_(f[n - 1], n) ELSE f[n]]
  <2>2. \A n \in 0 .. count : n <= m => g[n] = f[n]
    OBVIOUS
  <2>3. g = [n \in 0 .. count |-> g[n]]
    OBVIOUS
  <2>4. ASSUME NEW n \in 0 .. count, n <= m + 1
        PROVE  g[n] = IF n = 0 THEN z ELSE Next_(g[n - 1], n)
    <3>1. n # 0 => g[n - 1] = f[n - 1]
      <4> HIDE DEF g
      <4> QED BY <2>2, <2>4
    <3>2. CASE n = m + 1
      <4>1. g[n] = Next_(f[n - 1], n) /\ n # 0
        BY <3>2
      <4> HIDE DEF g, z, Next_
      <4> QED BY <3>1, <4>1
    <3>3. CASE n # m + 1
      <4>1. g[n] = f[n] /\ n <= m
        BY <2>4, <3>3
      <4>2. f[n] = IF n = 0 THEN z ELSE Next_(f[n - 1], n)
        BY <2>1, <4>1 DEF Copying
      <4> HIDE DEF g, z, Next_
      <4> QED BY <3>1, <4>1, <4>2
    <3> QED BY <3>2, <3>3
  <2>5. Copying(g, m + 1, count, v)
    <3> HIDE DEF g
    <3> QED BY <2>3, <2>4 DEF Copying
  <2> HIDE DEF g
  <2> QED BY <2>5
<1>3. count \in P
  <2> HIDE DEF P
  <2> QED BY <1>1, <1>2, SetInduction
<1>4. PICK f : Copying(f, count, count, v)
  BY <1>3
<1>5. f = [n \in 0 .. count |-> IF n = 0 THEN z ELSE Next_(f[n - 1], n)]
  <2>1. f = [n \in 0 .. count |-> f[n]]
    BY <1>4 DEF Copying
  <2>2. ASSUME NEW n \in 0 .. count
        PROVE  f[n] = IF n = 0 THEN z ELSE Next_(f[n - 1], n)
    <3>1. n <= count
      OBVIOUS
    <3> QED BY <1>4, <3>1 DEF Copying
  <2> HIDE DEF z, Next_
  <2> QED BY <2>1, <2>2
<1>6. RepTo(count, v) = [n \in 0 .. count |-> IF n = 0 THEN z ELSE Next_(RepTo(count, v)[n - 1], n)]
  BY <1>5 DEF RepTo
<1> QED BY <1>6

\* A replication repeats every bit of its operand (eval_replicate).
THEOREM ReplicateMoves ==
    ASSUME NEW v \in Values, NEW count \in Nat
    PROVE  /\ Region(eval_replicate(count, v), count * v.width, FALSE)
           /\ \A i \in Nat : i < count * v.width =>
                 BitOf(eval_replicate(count, v), i) = BitOf(v, i % v.width)
<1> DEFINE n == v.width
           F(c) == RepTo(count, v)[c]
           Done(c) == /\ Region(F(c), n * count, FALSE)
                      /\ \A i \in Nat : i < n * count =>
                            BitOf(F(c), i) = IF i < c * n THEN BitOf(v, i % n) ELSE "0"
           P == {c \in Nat : c <= count => Done(c)}
<1>1. n \in Nat /\ n * count \in Nat /\ n * count = count * n
  BY ValueParts, Copies
<1>2. F(0) = zeros(n * count, FALSE)
  <2>1. 0 \in 0 .. count
    OBVIOUS
  <2> QED BY <2>1, CopyEquation
<1>3. ASSUME NEW c \in Nat, c + 1 <= count
      PROVE  F(c + 1) = copy_bits(F(c), c * n, v, 0, n)
  <2>1. c + 1 \in 0 .. count /\ c + 1 # 0 /\ (c + 1) - 1 = c
    BY <1>3
  <2>2. F(c + 1) = copy_bits(RepTo(count, v)[(c + 1) - 1], ((c + 1) - 1) * v.width, v, 0, v.width)
    BY <2>1, CopyEquation
  <2> QED BY <2>1, <2>2
<1>4. eval_replicate(count, v) = F(count)
  BY DEF eval_replicate, RepTo
<1> HIDE DEF F
<1>5. 0 \in P
  <2> DEFINE m == n * count  none == 0
  <2>1. Region(F(none), m, FALSE) /\ \A i \in Nat : BitOf(F(none), i) = "0"
    <3> DEFINE unsigned == FALSE
    <3>1. m \in Nat /\ unsigned \in BOOLEAN /\ F(none) = zeros(m, unsigned)
      BY <1>1, <1>2
    <3> HIDE DEF m, none, unsigned
    <3>2. Region(F(none), m, unsigned) /\ \A i \in Nat : BitOf(F(none), i) = "0"
      BY <3>1, FilledBits DEF Region
    <3> QED BY <3>2 DEF unsigned
  <2>2. none * n = none /\ \A i \in Nat : ~(i < none)
    BY <1>1
  <2> HIDE DEF n, none
  <2>3. Done(none)
    BY <2>1, <2>2
  <2> HIDE DEF Done
  <2> QED BY <2>3 DEF none
<1>6. ASSUME NEW c \in Nat, c \in P
      PROVE  c + 1 \in P
  <2> DEFINE at == c * n  none == 0
  <2>1. ASSUME c + 1 <= count
        PROVE  Done(c + 1)
    <3>1. Done(c)
      <4>1. c <= count
        BY <2>1
      <4> HIDE DEF Done
      <4> QED BY <1>6, <4>1
    <3>2. at \in Nat /\ at + n <= n * count /\ (c + 1) * n = at + n
      BY <1>1, <2>1, Copies
    <3>3. F(c + 1) = copy_bits(F(c), at, v, none, n)
      BY <1>3, <2>1
    <3>4. F(c) \in Values /\ F(c).width = n * count /\ F(c).signed = FALSE
      BY <3>1 DEF Region
    <3>5. at + n <= F(c).width /\ none \in Nat
      BY <3>2, <3>4
    <3>6. \A i \in Nat : i < n * count => BitOf(F(c), i) = IF i < at THEN BitOf(v, i % n) ELSE "0"
      BY <3>1
    <3>7. \A i \in Nat : at <= i /\ i < at + n => i - at = i % n
      <4> TAKE i \in Nat
      <4> HAVE at <= i /\ i < at + n
      <4>1. n \in Nat \ {0}
        BY <1>1, <3>2
      <4> HIDE DEF n
      <4> QED BY <4>1, PlaceInCopy
    <3> HIDE DEF at, none
    <3>8. Blank(F(c), at, n)
      <4> DEFINE m == n * count
      <4>1. \A i \in Nat : at <= i /\ i < at + n => i < m /\ ~(i < at)
        <5> HIDE DEF n, m
        <5>1. at + n <= m /\ m \in Nat /\ n \in Nat
          BY <1>1, <3>2 DEF m
        <5> QED BY <3>2, <5>1
      <4> HIDE DEF n
      <4> QED BY <3>6, <4>1 DEF Blank
    <3>9. Spliced(F(c + 1), F(c), at, v, none, n)
      <4> HIDE DEF n
      <4> QED BY <1>1, <3>2, <3>3, <3>4, <3>5, <3>8, CopyMoves
    <3>10. Region(F(c + 1), n * count, FALSE)
      <4> HIDE DEF n
      <4> QED BY <3>4, <3>9 DEF Spliced, Region
    <3>11. ASSUME NEW i \in Nat, i < n * count
          PROVE  BitOf(F(c + 1), i) = IF i < at + n THEN BitOf(v, i % n) ELSE "0"
      <4>1. BitOf(F(c + 1), i) = IF at <= i /\ i < at + n THEN BitOf(v, none + (i - at)) ELSE BitOf(F(c), i)
        <5> HIDE DEF n
        <5> QED BY <3>4, <3>9, <3>11 DEF Spliced
      <4>2. at <= i /\ i < at + n => none + (i - at) = i % n
        <5>1. none + (i - at) = i - at
          BY <3>2 DEF none
        <5> HIDE DEF n
        <5> QED BY <3>7, <5>1
      <4>3. ~(at <= i) => i < at /\ i < at + n
        BY <1>1, <3>2
      <4>4. ~(i < at + n) => ~(i < at)
        BY <1>1, <3>2
      <4>5. BitOf(F(c), i) = IF i < at THEN BitOf(v, i % n) ELSE "0"
        BY <3>6, <3>11
      <4> HIDE DEF n
      <4> QED BY <4>1, <4>2, <4>3, <4>4, <4>5
    <3> HIDE DEF n
    <3> QED BY <3>2, <3>10, <3>11
  <2> HIDE DEF Done
  <2> QED BY <2>1
<1>7. count \in P
  <2> HIDE DEF P
  <2> QED BY <1>5, <1>6, SetInduction
<1>8. Done(count)
  <2>1. count <= count
    OBVIOUS
  <2> HIDE DEF Done
  <2> QED BY <1>7, <2>1
<1> HIDE DEF n
<1> QED BY <1>1, <1>4, <1>8 DEF n

\* Shifts keep the width and the sign of their operand; << may grow it.
LEMMA ShiftType ==
    ASSUME NEW a \in Values, NEW b \in Values
    PROVE  /\ shift_left(a, b) \in Values /\ shift_left(a, b).width >= a.width
           /\ \A s : Region(shift_right(a, b, s), a.width, a.signed)
<1>1. a.width \in Nat /\ a.signed \in BOOLEAN /\ Amount(b) \in Nat
  BY ValueParts, AmountType
<1>2. Region(xs(a.width, a.signed), a.width, a.signed)
  BY <1>1, FillType
<1>3. shift_left(a, b) \in Values /\ shift_left(a, b).width >= a.width
  <2> DEFINE grown == Mx(Mn(a.width + Amount(b), GrowCap), a.width)
  <2>1. grown \in Nat /\ grown >= a.width
    BY <1>1, BoundsAssumption DEF Mx, Mn
  <2>2. shl_grow(a, Amount(b), grown) \in Values /\ shl_grow(a, Amount(b), grown).width = grown
    <3> HIDE DEF grown
    <3> QED BY <1>1, <2>1, ShiftLeftMoves
  <2> HIDE DEF grown
  <2>3. xs(a.width, a.signed).width >= a.width
    BY <1>1, <1>2 DEF Region
  <2>4. shift_left(a, b) = IF has_xz(b) THEN xs(a.width, a.signed) ELSE shl_grow(a, Amount(b), grown)
    BY DEF shift_left, grown
  <2> QED BY <1>2, <2>1, <2>2, <2>3, <2>4 DEF Region
<1>4. ASSUME NEW s
      PROVE  Region(shift_right(a, b, s), a.width, a.signed)
  <2> DEFINE f == IF s THEN get_vu(a, a.width - 1) ELSE [val |-> FALSE, unk |-> FALSE]
  <2>1. f \in [val : BOOLEAN, unk : BOOLEAN]
    BY DEF get_vu
  <2>2. Region(shr_fill(a, Amount(b), a.width, f), a.width, a.signed)
    <3> HIDE DEF f
    <3>1. shr_fill(a, Amount(b), a.width, f).signed = a.signed
      BY DEF shr_fill, Value
    <3> QED BY <1>1, <2>1, <3>1, ShiftRightMoves DEF Region
  <2> QED BY <1>2, <2>2 DEF shift_right
<1> QED BY <1>3, <1>4

\* A merge answers at the width and the sign of the region.
LEMMA MergeType ==
    ASSUME NEW a, NEW b, NEW w \in Nat, NEW s \in BOOLEAN, Region(a, w, s), Region(b, w, s)
    PROVE  Region(merge_x(a, b, w, s), w, s)
<1>1. merge_x(a, b, w, s) \in Values
  BY NotAndMergeAreTables DEF Region
<1> QED BY <1>1 DEF Region, merge_x, FromWords, Value

-----------------------------------------------------------------------------
(* Nets.                                                                   *)
\* What 6.6 says a bit of a net is when its drivers have the bits Drives.
NetBit(kind, Drives) ==
    LET B == Drives \ {"z"}
    IN  IF B = {} THEN "z"
        ELSE IF Cardinality(B) = 1 THEN CHOOSE b \in B : TRUE
        ELSE IF kind = "wand" /\ "0" \in B THEN "0"
        ELSE IF kind = "wor" /\ "1" \in B THEN "1" ELSE "x"

\* Two drivers of a bit.
PairBit(kind, p, q) == CASE kind = "wire" -> WireBit(p, q)
                         [] kind = "wand" -> WandBit(p, q)
                         [] kind = "wor"  -> WorBit(p, q)

\* The bits the drivers have at a place.
DriverBits(drivers, i) == {BitOf(drivers[k], i) : k \in DOMAIN drivers}

\* A sequence of one.
LEMMA OneTuple ==
    ASSUME NEW a
    PROVE  DOMAIN <<a>> = 1 .. 1 /\ \A j \in 1 .. 1 : <<a>>[j] = a
<1>1. DOMAIN <<a>> = 1 .. 1
  OBVIOUS
<1>2. \A j \in DOMAIN <<a>> : <<a>>[j] = a
  OBVIOUS
<1> QED BY <1>1, <1>2

-----------------------------------------------------------------------------
(* Counting.                                                               *)
\* The places of the ones of a value.
OnesOf(v) == {i \in 0 .. v.width - 1 : BitOf(v, i) = "1"}

\* A value counts its ones, whatever words they fall in (count_ones).
THEOREM CountsOnes ==
    ASSUME NEW v \in Values
    PROVE  ones(v) = Cardinality(OnesOf(v)) /\ IsFiniteSet(OnesOf(v))
<1> DEFINE S == DOMAIN v.val
           g == [k \in S |-> Cardinality(Known1(Quads(v, k)))]
           In(s) == {i \in OnesOf(v) : i \div WordBits \in s}
           P == {s \in SUBSET S : SumOver(g, s) = Cardinality(In(s))}
<1>1. /\ v.width \in Nat /\ S = Index(v.width) /\ S \subseteq Nat
      /\ v.width - 1 \in Int /\ NWords(v.width) - 1 \in Int
  BY ValueParts, LastWord DEF PlanesOf, Index
<1>2. IsFiniteSet(S) /\ IsFiniteSet(OnesOf(v))
  <2>1. IsFiniteSet(0 .. NWords(v.width) - 1) /\ IsFiniteSet(0 .. v.width - 1)
    <3>1. 0 \in Int
      OBVIOUS
    <3> QED BY <1>1, <3>1, FS_Interval
  <2>2. OnesOf(v) \subseteq 0 .. v.width - 1
    BY DEF OnesOf
  <2> QED BY <1>1, <2>1, <2>2, FS_Subset DEF Index
<1>3. ones(v) = SumOver(g, S)
  BY <1>2, MapSumIs
<1>4. \A s : IsFiniteSet(In(s))
  BY <1>2, FS_Subset
<1>5. ASSUME NEW k \in S
      PROVE  /\ Cardinality(In({k})) = Cardinality(Known1(Quads(v, k)))
             /\ Cardinality(In({k})) \in Nat
  <2> DEFINE K == Known1(Quads(v, k))
             f == [b \in K |-> k * WordBits + b]
  <2>0. k \in Nat
    BY <1>1
  <2>1. K \subseteq Bit /\ \A b \in Bit : b \in K <=> State(Quads(v, k), b) = "1"
    <3>1. Quads(v, k) \in Quad
      BY QuadsType
    <3> HIDE DEF K
    <3> QED BY <3>1 DEF K, Known1, Not, State, Quad, Word
  <2>2. \A b \in Bit : /\ k * WordBits + b \in Nat /\ (k * WordBits + b) \div WordBits = k
                       /\ BitOf(v, k * WordBits + b) = State(Quads(v, k), b)
    BY <2>0, PlaceIs, BitAtPlace
  <2>3. ASSUME NEW b \in K PROVE f[b] \in In({k})
    <3>1. /\ b \in Bit /\ k * WordBits + b \in Nat /\ (k * WordBits + b) \div WordBits = k
          /\ BitOf(v, k * WordBits + b) = "1"
      BY <2>1, <2>2
    <3>2. k * WordBits + b < v.width
      <4> DEFINE i == k * WordBits + b
      <4>1. i \in Nat /\ BitOf(v, i) = "1"
        BY <3>1
      <4> HIDE DEF i
      <4> QED BY <1>1, <4>1, BitBeyond DEF i
    <3> DEFINE i == k * WordBits + b
    <3>3. i \in 0 .. v.width - 1 /\ BitOf(v, i) = "1" /\ i \div WordBits = k /\ f[b] = i
      BY <1>1, <3>1, <3>2
    <3> HIDE DEF i, f
    <3> QED BY <3>3 DEF OnesOf
  <2>4. ASSUME NEW i \in In({k}) PROVE \E b \in K : f[b] = i
    <3>1. i \in Nat /\ BitOf(v, i) = "1" /\ i \div WordBits = k
      BY <1>1 DEF OnesOf
    <3>2. i % WordBits \in Bit /\ i = k * WordBits + (i % WordBits)
      BY <3>1, PlaceOf
    <3> DEFINE b == i % WordBits
    <3> HIDE DEF b
    <3>3. b \in K
      BY <2>1, <2>2, <3>1, <3>2 DEF b
    <3> QED BY <3>2, <3>3 DEF b
  <2>5. \A b, c \in K : f[b] = f[c] => b = c
    <3>1. \A b, c \in K : b \in Int /\ c \in Int /\ k * WordBits \in Int
      BY <2>0, <2>1, WordOrder DEF Bit
    <3> HIDE DEF K
    <3> QED BY <3>1
  <2> DEFINE T == In({k})
  <2> HIDE DEF K, T
  <2>6. f \in Bijection(K, T)
    <3>1. f \in [K -> T]
      BY <2>3 DEF T
    <3>2. \A i \in T : \E b \in K : f[b] = i
      BY <2>4 DEF T
    <3> HIDE DEF f
    <3> QED BY <2>5, <3>1, <3>2 DEF Bijection, Injection, Surjection, IsInjective
  <2>7. IsFiniteSet(K)
    <3>1. IsFiniteSet(Bit)
      <4>1. WordBits - 1 \in Int /\ 0 \in Int
        BY WordBitsAssumption
      <4> QED BY <4>1, FS_Interval DEF Bit
    <3> QED BY <2>1, <3>1, FS_Subset
  <2>8. Cardinality(T) = Cardinality(K)
    BY <2>6, <2>7, FS_Bijection DEF ExistsBijection
  <2>9. Cardinality(K) \in Nat
    BY <2>7, FS_CardinalityType
  <2> QED BY <2>8, <2>9 DEF T, K
<1>6. \A k \in S : g[k] = Cardinality(In({k})) /\ g[k] \in Nat /\ g[k] \in Int
  <2> TAKE k \in S
  <2>1. g[k] = Cardinality(Known1(Quads(v, k)))
    OBVIOUS
  <2>2. Cardinality(In({k})) = g[k] /\ Cardinality(In({k})) \in Nat
    BY <1>5, <2>1
  <2> HIDE DEF g, In
  <2> QED BY <2>2
<1> HIDE DEF g
<1>7. {} \in P
  <2>1. In({}) = {}
    OBVIOUS
  <2>2. SumOver(g, {}) = 0
    <3>1. IsFiniteSet({}) /\ \A x \in {} : g[x] \in Int
      BY FS_EmptySet
    <3> QED BY <3>1, SumEquation
  <2>3. Cardinality({}) = 0
    BY FS_EmptySet
  <2> QED BY <2>1, <2>2, <2>3
<1>8. ASSUME NEW s \in SUBSET S, s # {}, Others(s) \in P
      PROVE  s \in P
  <2> DEFINE p == Picked(s)  t == Others(s)
  <2>1. p \in s /\ t \in SUBSET S /\ s = t \cup {p} /\ p \notin t
    BY <1>8 DEF Picked, Others
  <2>2. SumOver(g, s) = g[p] + SumOver(g, t)
    <3>1. IsFiniteSet(s)
      BY <1>2, FS_Subset
    <3>2. \A x \in s : g[x] \in Int
      BY <1>6, Zenon
    <3> QED BY <1>8, <3>1, <3>2, SumEquation
  <2>3. SumOver(g, t) = Cardinality(In(t))
    BY <1>8
  <2> HIDE DEF p, t
  <2> DEFINE A == In({p})  B == In(t)
  <2>4. In(s) = A \cup B /\ A \cap B = {}
    BY <2>1
  <2>5. g[p] = Cardinality(A) /\ IsFiniteSet(A) /\ IsFiniteSet(B)
    BY <1>4, <1>6, <2>1
  <2> HIDE DEF A, B
  <2>6. Cardinality(A \cup B) = Cardinality(A) + Cardinality(B) - Cardinality({})
    BY <2>4, <2>5, FS_Union
  <2>7. Cardinality({}) = 0 /\ Cardinality(A) \in Nat /\ Cardinality(B) \in Nat
    BY <2>5, FS_EmptySet, FS_CardinalityType
  <2>8. SumOver(g, s) = Cardinality(A \cup B)
    BY <2>2, <2>3, <2>5, <2>6, <2>7 DEF B
  <2> QED BY <2>4, <2>8
<1>9. SUBSET S \subseteq P
  <2> HIDE DEF P, S
  <2> QED BY <1>2, <1>7, <1>8, PickInduction
<1>10. SumOver(g, S) = Cardinality(In(S))
  BY <1>9
<1>11. In(S) = OnesOf(v)
  <2>1. \A i \in OnesOf(v) : i \in Nat /\ i < v.width
    BY <1>1 DEF OnesOf
  <2>2. \A i \in OnesOf(v) : i \div WordBits \in S
    BY <1>1, <2>1, BelowIsIn
  <2> QED BY <2>2
<1> QED BY <1>2, <1>3, <1>10, <1>11

\* A value is true when one of its bits is 1, else unknown when one is unknown
\* (truthiness, reduce_word).
LEMMA TruthOfBits ==
    ASSUME NEW v \in Values
    PROVE  /\ truthiness(v) = IF OnesOf(v) # {} THEN "1" ELSE IF HasUnknown(v) THEN "x" ELSE "0"
           /\ reduce_word(v, "or") = truthiness(v)
<1>1. ones(v) \in Nat /\ (ones(v) = 0 <=> OnesOf(v) = {})
  BY CountsOnes, FS_CardinalityType, FS_EmptySet
<1>2. ones(v) > 0 <=> OnesOf(v) # {}
  BY <1>1
<1> QED BY <1>2, UnknownIsUnknown DEF truthiness, reduce_word

-----------------------------------------------------------------------------
(* Offsets, amounts and places.                                            *)

\* Powers of two are in order.
LEMMA PowerOrder ==
    ASSUME NEW a \in Nat, NEW b \in Nat, a <= b
    PROVE  2 ^ a <= 2 ^ b
<1>1. \A n \in Nat : Cardinality(SUBSET (1 .. n)) = 2 ^ n /\ IsFiniteSet(SUBSET (1 .. n))
  <2> TAKE n \in Nat
  <2>1. IsFiniteSet(1 .. n) /\ Cardinality(1 .. n) = n
    BY FS_Interval
  <2> QED BY <2>1, FS_SUBSET
<1>2. SUBSET (1 .. a) \subseteq SUBSET (1 .. b)
  OBVIOUS
<1>3. Cardinality(SUBSET (1 .. a)) <= Cardinality(SUBSET (1 .. b))
  BY <1>1, <1>2, FS_Subset
<1> QED BY <1>1, <1>3

\* A context that keeps the width and the sign keeps the bits.
LEMMA SameRegion ==
    ASSUME NEW v \in Values, NEW w \in Nat, NEW s \in BOOLEAN, v.width = w
    PROVE  /\ Region(resize_keep_sign(v, w, s), w, s)
           /\ \A i \in Nat : i < w => BitOf(resize_keep_sign(v, w, s), i) = BitOf(v, i)
<1> DEFINE u == resize_keep_sign(v, w, s)
           t == v.signed /\ s
<1>2. /\ Region(u, w, s)
      /\ \A i \in Nat : i < w => BitOf(u, i) = Ext(v, t, i)
  BY ContextExtends DEF Region
<1> HIDE DEF t
<1>3. \A i \in Nat : i < w => Ext(v, t, i) = BitOf(v, i)
  BY DEF Ext
<1> HIDE DEF u
<1>4. \A i \in Nat : i < w => BitOf(u, i) = BitOf(v, i)
  BY <1>2, <1>3
<1> QED BY <1>2, <1>4 DEF u

\* A wider context extends an answer without a sign by zeros.
LEMMA Widened ==
    ASSUME NEW v \in Values, NEW n \in Nat, v.width = n, NEW c \in Nat
    PROVE  LET u == resize_keep_sign(v, Mx(n, c), FALSE)
           IN  /\ Region(u, Mx(n, c), FALSE)
               /\ \A i \in Nat : i < Mx(n, c) => BitOf(u, i) = IF i < n THEN BitOf(v, i) ELSE "0"
<1> DEFINE w == Mx(n, c)
           off == FALSE
           u == resize_keep_sign(v, w, off)
<1>1. w \in Nat /\ off \in BOOLEAN /\ ~(v.signed /\ off)
  BY Wider
<1> HIDE DEF w, off
<1>2. /\ Region(u, w, off)
      /\ \A i \in Nat : i < w => BitOf(u, i) = Ext(v, v.signed /\ off, i)
  BY <1>1, ContextExtends DEF Region
<1> HIDE DEF u
<1>3. \A i \in Nat : i < w => BitOf(u, i) = IF i < n THEN BitOf(v, i) ELSE "0"
  BY <1>1, <1>2 DEF Ext
<1> QED BY <1>2, <1>3 DEF u, w, off

\* The count of bits a select of one operator reads.
PartOf(o, a) == IF o = "[i]" THEN 1 ELSE a

-----------------------------------------------------------------------------
(* The order of numbers and of the bits they are written with.             *)
\* The number whose ones are at the places of B.
SumAt(B) == SumSet(Powers(B))

\* A set of places.
PlaceSet(B) == B \in SUBSET Nat /\ IsFiniteSet(B)

\* The sum of the powers of a set of places.
LEMMA SumType == ASSUME NEW B, PlaceSet(B) PROVE SumAt(B) \in Nat /\ (B = {} => SumAt(B) = 0) /\ \A b \in B : 2 ^ b <= SumAt(B)
BY PowerSum DEF SumAt, PlaceSet

\* Different places have different powers.
LEMMA PowerApart ==
    ASSUME NEW a \in Nat, NEW b \in Nat, a # b
    PROVE  2 ^ a # 2 ^ b
<1>1. ASSUME NEW i \in Nat, NEW j \in Nat, i < j PROVE 2 ^ i < 2 ^ j
  <2>1. 2 ^ (i + 1) = 2 * 2 ^ i /\ 2 ^ i \in Nat \ {0} /\ 2 ^ (i + 1) \in Nat /\ 2 ^ j \in Nat
    BY PowerOfTwo
  <2>2. 2 ^ (i + 1) <= 2 ^ j
    BY <1>1, PowerOrder
  <2> DEFINE x == 2 ^ i  y == 2 ^ (i + 1)  z == 2 ^ j
  <2>3. y = 2 * x /\ x \in Nat \ {0} /\ y \in Nat /\ z \in Nat /\ y <= z
    BY <2>1, <2>2
  <2> HIDE DEF x, y, z
  <2>4. x < z
    BY <2>3
  <2> QED BY <2>4 DEF x, z
<1>2. a < b \/ b < a
  OBVIOUS
<1>3. 2 ^ a \in Nat /\ 2 ^ b \in Nat
  BY PowerOfTwo
<1>4. 2 ^ a < 2 ^ b \/ 2 ^ b < 2 ^ a
  BY <1>1, <1>2
<1> QED BY <1>3, <1>4

\* One more place adds its power.
LEMMA SumAdds ==
    ASSUME NEW B, PlaceSet(B), NEW b \in Nat, b \notin B
    PROVE  PlaceSet(B \cup {b}) /\ SumAt(B \cup {b}) = SumAt(B) + 2 ^ b
<1> DEFINE S == Powers(B)
           T == Powers(B \cup {b})
           p == 2 ^ b
           g == [x \in S |-> x]
           h == [x \in T |-> x]
<1>1. PlaceSet(B \cup {b})
  BY FS_AddElement DEF PlaceSet
<1>2. /\ IsFiniteSet(S) /\ S \subseteq Nat \ {0}
      /\ IsFiniteSet(T) /\ T \subseteq Nat \ {0}
  BY <1>1, PowersFinite DEF PlaceSet
<1>3. p \in T /\ T \ {p} = S
  <2>1. \A c \in B : 2 ^ c # 2 ^ b
    BY PowerApart DEF PlaceSet
  <2> QED BY <2>1 DEF Powers
<1>4. SumAt(B) = SumOver(g, S) /\ SumAt(B \cup {b}) = SumOver(h, T)
  <2>1. S \subseteq Int /\ T \subseteq Int
    BY <1>2
  <2>2. SumSet(S) = SumOver(g, S) /\ SumSet(T) = SumOver(h, T)
    <3> HIDE DEF S, T
    <3> QED BY <1>2, <2>1, SumSetIs
  <2> QED BY <2>2 DEF SumAt
<1> HIDE DEF S, T, p
<1>5. SumOver(h, T) = h[p] + SumOver(h, T \ {p})
  <2>1. \A x \in T : h[x] \in Int
    BY <1>2
  <2> HIDE DEF h
  <2> QED BY <1>2, <1>3, <2>1, SumRemove
<1>6. SumOver(h, S) = SumOver(g, S)
  <2>1. \A x \in S : h[x] \in Int /\ h[x] = g[x]
    BY <1>2, <1>3
  <2> HIDE DEF h, g
  <2> QED BY <1>2, <2>1, SumSame
<1>7. h[p] = p
  BY <1>3
<1>8. SumAt(B) \in Nat /\ p \in Nat
  BY <1>2, <1>3, SumType
<1> HIDE DEF h, g
<1>9. SumAt(B \cup {b}) = p + SumAt(B)
  BY <1>3, <1>4, <1>5, <1>6, <1>7
<1>10. SumAt(B \cup {b}) = SumAt(B) + p
  BY <1>8, <1>9
<1> QED BY <1>1, <1>10 DEF p

\* Two sets of places apart from each other add up.
LEMMA SumJoins ==
    ASSUME NEW A, PlaceSet(A), NEW B, PlaceSet(B), A \cap B = {}
    PROVE  PlaceSet(A \cup B) /\ SumAt(A \cup B) = SumAt(A) + SumAt(B)
<1> DEFINE P == {X \in SUBSET B : SumAt(A \cup X) = SumAt(A) + SumAt(X)}
<1>1. \A X \in SUBSET B : PlaceSet(X) /\ PlaceSet(A \cup X) /\ SumAt(X) \in Nat
  <2> SUFFICES ASSUME NEW X \in SUBSET B PROVE PlaceSet(X) /\ PlaceSet(A \cup X) /\ SumAt(X) \in Nat
    OBVIOUS
  <2>1. PlaceSet(X)
    BY FS_Subset DEF PlaceSet
  <2>2. PlaceSet(A \cup X)
    BY <2>1, FS_Union DEF PlaceSet
  <2> QED BY <2>1, <2>2, SumType
<1>2. SumAt(A) \in Nat
  BY SumType
<1>3. {} \in P
  <2>1. SumAt({}) = 0 /\ A \cup {} = A
    BY <1>1, SumType
  <2> QED BY <1>2, <2>1
<1>4. ASSUME NEW X \in SUBSET B, X # {}, Others(X) \in P
      PROVE  X \in P
  <2> DEFINE Y == Others(X)  b == Picked(X)
  <2>1. IsFiniteSet(X)
    BY <1>1 DEF PlaceSet
  <2>2. b \in X /\ Y \subseteq X
    BY <1>4, <2>1, PickedOf
  <2>3. Y = X \ {b}
    BY DEF Others, Picked
  <2> HIDE DEF Y, b
  <2>4. b \in Nat /\ b \notin Y /\ b \notin A \cup Y /\ Y \in SUBSET B
    BY <2>2, <2>3 DEF PlaceSet
  <2>5. Y \cup {b} = X /\ (A \cup Y) \cup {b} = A \cup X
    BY <2>2, <2>3
  <2>6. SumAt(X) = SumAt(Y) + 2 ^ b
    BY <1>1, <2>4, <2>5, SumAdds
  <2>7. SumAt(A \cup X) = SumAt(A \cup Y) + 2 ^ b
    BY <1>1, <2>4, <2>5, SumAdds
  <2>8. SumAt(A \cup Y) = SumAt(A) + SumAt(Y)
    BY <1>4 DEF Y
  <2>9. SumAt(Y) \in Nat /\ 2 ^ b \in Nat
    BY <1>1, <2>4, PowerOfTwo
  <2> DEFINE x == SumAt(X)  y == SumAt(Y)  z == SumAt(A)  u == SumAt(A \cup X)  v == SumAt(A \cup Y)  p == 2 ^ b
  <2>10. x = y + p /\ u = v + p /\ v = z + y /\ y \in Nat /\ p \in Nat /\ z \in Nat
    BY <1>2, <2>6, <2>7, <2>8, <2>9
  <2> HIDE DEF x, y, z, u, v, p
  <2>11. u = z + x
    BY <2>10
  <2> QED BY <2>11 DEF u, z, x
<1>5. SUBSET B \subseteq P
  <2>1. IsFiniteSet(B)
    BY DEF PlaceSet
  <2> HIDE DEF P
  <2> QED BY <1>3, <1>4, <2>1, PickInduction
<1> QED BY <1>1, <1>5

\* A number of n bits is below 2 ^ n.
LEMMA SumBound ==
    ASSUME NEW n \in Nat, NEW B, B \subseteq 0 .. n - 1
    PROVE  PlaceSet(B) /\ SumAt(B) < 2 ^ n
<1>1. \A k \in Nat : IsFiniteSet(0 .. k - 1)
  <2> SUFFICES ASSUME NEW k \in Nat PROVE IsFiniteSet(0 .. k - 1)
    OBVIOUS
  <2>1. 0 \in Int /\ k - 1 \in Int
    OBVIOUS
  <2> QED BY <2>1, FS_Interval
<1>2. \A k \in Nat : \A X : X \subseteq 0 .. k - 1 => PlaceSet(X)
  <2> SUFFICES ASSUME NEW k \in Nat, NEW X, X \subseteq 0 .. k - 1 PROVE PlaceSet(X)
    OBVIOUS
  <2>1. IsFiniteSet(X)
    BY <1>1, FS_Subset
  <2>2. X \subseteq Nat
    OBVIOUS
  <2> QED BY <2>1, <2>2 DEF PlaceSet
<1> DEFINE P == {k \in Nat : \A X : X \subseteq 0 .. k - 1 => SumAt(X) < 2 ^ k}
<1>3. 0 \in P
  <2>1. \A X : X \subseteq 0 .. 0 - 1 => X = {}
    OBVIOUS
  <2>2. SumAt({}) = 0
    BY <1>2, SumType
  <2>3. 0 < 2 ^ 0
    BY PowerOfTwo
  <2> QED BY <2>1, <2>2, <2>3
<1>4. ASSUME NEW k \in Nat, k \in P PROVE k + 1 \in P
  <2> SUFFICES ASSUME NEW X, X \subseteq 0 .. (k + 1) - 1 PROVE SumAt(X) < 2 ^ (k + 1)
    OBVIOUS
  <2> DEFINE Y == X \ {k}
  <2>1. Y \subseteq 0 .. k - 1
    OBVIOUS
  <2>2. SumAt(Y) < 2 ^ k /\ PlaceSet(Y)
    BY <1>2, <1>4, <2>1
  <2>3. SumAt(Y) \in Nat /\ 2 ^ k \in Nat /\ 2 ^ (k + 1) = 2 * 2 ^ k
    BY <2>2, SumType, PowerOfTwo
  <2>4. SumAt(X) = SumAt(Y) \/ SumAt(X) = SumAt(Y) + 2 ^ k
    <3>1. CASE k \in X
      <4>1. Y \cup {k} = X /\ k \notin Y
        BY <3>1
      <4> HIDE DEF Y
      <4> QED BY <2>2, <4>1, SumAdds
    <3>2. CASE k \notin X
      <4>1. Y = X
        BY <3>2
      <4> QED BY <4>1
    <3> QED BY <3>1, <3>2
  <2> DEFINE x == SumAt(X)  y == SumAt(Y)  p == 2 ^ k  q == 2 ^ (k + 1)
  <2>5. y < p /\ y \in Nat /\ p \in Nat /\ q = 2 * p /\ (x = y \/ x = y + p)
    BY <2>2, <2>3, <2>4
  <2> HIDE DEF x, y, p, q
  <2>6. x < q
    BY <2>5
  <2> QED BY <2>6 DEF x, q
<1>5. \A k \in Nat : k \in P
  <2> HIDE DEF P
  <2> QED BY <1>3, <1>4, SetInduction
<1> QED BY <1>2, <1>5

\* The greatest of some places.
LEMMA Greatest ==
    ASSUME NEW S, PlaceSet(S), S # {}
    PROVE  \E m \in S : \A i \in S : i <= m
<1> DEFINE n == SumAt(S)
           T == {k \in Nat : \A i \in S : i < k}
<1>1. n \in Nat /\ \A i \in S : 2 ^ i <= n
  BY SumType
<1>2. \A i \in Nat : i < 2 ^ i
  <2> DEFINE P == {i \in Nat : i < 2 ^ i}
  <2>1. 0 \in P
    BY PowerOfTwo
  <2>2. ASSUME NEW i \in Nat, i \in P PROVE i + 1 \in P
    <3>1. i < 2 ^ i /\ 2 ^ i \in Nat /\ 2 ^ (i + 1) = 2 * 2 ^ i
      BY <2>2, PowerOfTwo
    <3> DEFINE x == 2 ^ i  y == 2 ^ (i + 1)
    <3>2. i < x /\ x \in Nat /\ y = 2 * x
      BY <3>1
    <3> HIDE DEF x, y
    <3>3. i + 1 < y
      BY <3>2
    <3> QED BY <3>3 DEF y
  <2>3. \A i \in Nat : i \in P
    <3> HIDE DEF P
    <3> QED BY <2>1, <2>2, SetInduction
  <2> QED BY <2>3
<1>3. \A i \in S : i \in Nat /\ i < n
  <2> SUFFICES ASSUME NEW i \in S PROVE i \in Nat /\ i < n
    OBVIOUS
  <2>1. i \in Nat
    BY DEF PlaceSet
  <2>2. i < 2 ^ i /\ 2 ^ i <= n /\ 2 ^ i \in Nat
    BY <1>1, <1>2, <2>1, PowerOfTwo
  <2> QED BY <1>1, <2>1, <2>2
<1> HIDE DEF n
<1>4. T \subseteq Nat /\ n \in T
  BY <1>1, <1>3
<1>5. PICK k \in T : \A j \in T : k <= j
  <2> HIDE DEF T
  <2> QED BY <1>4, LeastNat
<1>6. PICK i \in S : ~(i < k - 1)
  <2>1. k \in Nat /\ k # 0
    BY <1>3, <1>5
  <2>2. k - 1 \in Nat /\ k - 1 \notin T
    BY <1>5, <2>1
  <2> QED BY <2>2
<1>7. \A j \in S : j <= i
  BY <1>3, <1>5, <1>6
<1> QED BY <1>7

\* The highest place where two numbers differ decides their order.
LEMMA TopDecides ==
    ASSUME NEW A, PlaceSet(A), NEW B, PlaceSet(B), NEW m \in Nat, m \in B, m \notin A,
           \A i \in Nat : i > m => (i \in A <=> i \in B)
    PROVE  SumAt(A) < SumAt(B)
<1> DEFINE H == {i \in A : i > m}
           La == {i \in A : i < m}
           Lb == {i \in B : i < m}
<1>0. A \subseteq Nat /\ B \subseteq Nat /\ \A i \in Nat : i < m \/ i = m \/ i > m
  BY DEF PlaceSet
<1>1. PlaceSet(H) /\ PlaceSet(La) /\ PlaceSet(Lb)
  BY FS_Subset DEF PlaceSet
<1>2. La \subseteq 0 .. m - 1
  <2> SUFFICES ASSUME NEW i \in A, i < m PROVE i \in 0 .. m - 1
    OBVIOUS
  <2> QED BY <1>0
<1>3. SumAt(La) < 2 ^ m
  BY <1>2, SumBound
<1>13. ~(m > m) /\ ~(m < m) /\ \A i \in Nat : ~(i < m /\ i > m)
  OBVIOUS
<1>4. A = H \cup La /\ H \cap La = {}
  <2>1. \A i \in A : i \in H \/ i \in La
    BY <1>0
  <2>2. \A i \in H : i \notin La
    BY <1>0, <1>13
  <2> QED BY <2>1, <2>2
<1>5. B = (H \cup Lb) \cup {m} /\ H \cap Lb = {} /\ m \notin H \cup Lb
  <2>1. \A i \in B : i \in H \/ i \in Lb \/ i = m
    BY <1>0
  <2>2. \A i \in H : i \notin Lb /\ i \in B
    BY <1>0, <1>13
  <2>3. m \notin H /\ m \notin Lb /\ Lb \subseteq B
    BY <1>13
  <2> QED BY <2>1, <2>2, <2>3
<1> HIDE DEF H, La, Lb
<1>6. SumAt(A) = SumAt(H) + SumAt(La)
  BY <1>1, <1>4, SumJoins
<1>7. PlaceSet(H \cup Lb) /\ SumAt(H \cup Lb) = SumAt(H) + SumAt(Lb)
  BY <1>1, <1>5, SumJoins
<1>8. SumAt(B) = SumAt(H \cup Lb) + 2 ^ m
  BY <1>5, <1>7, SumAdds
<1>9. SumAt(H) \in Nat /\ SumAt(La) \in Nat /\ SumAt(Lb) \in Nat /\ 2 ^ m \in Nat
  BY <1>1, SumType, PowerOfTwo
<1> DEFINE a == SumAt(A)  b == SumAt(B)  h == SumAt(H)  x == SumAt(La)  y == SumAt(Lb)  z == SumAt(H \cup Lb)  p == 2 ^ m
<1>10. a = h + x /\ z = h + y /\ b = z + p /\ x < p /\ h \in Nat /\ x \in Nat /\ y \in Nat /\ p \in Nat
  BY <1>3, <1>6, <1>7, <1>8, <1>9
<1> HIDE DEF a, b, h, x, y, z, p
<1>11. a < b
  BY <1>10
<1> QED BY <1>11 DEF a, b

\* The places n .. w - 1 add up to 2 ^ w - 2 ^ n: the sign of an extended number.
LEMMA SumOfSign ==
    ASSUME NEW n \in Nat, NEW w \in Nat, n <= w
    PROVE  PlaceSet(n .. w - 1) /\ SumAt(n .. w - 1) = 2 ^ w - 2 ^ n
<1> DEFINE P == {k \in Nat : PlaceSet(n .. (n + k) - 1) /\ SumAt(n .. (n + k) - 1) = 2 ^ (n + k) - 2 ^ n}
<1>1. 0 \in P
  <2>1. n .. (n + 0) - 1 = {} /\ n + 0 = n
    OBVIOUS
  <2>2. PlaceSet({}) /\ SumAt({}) = 0
    <3>1. PlaceSet({})
      BY FS_EmptySet DEF PlaceSet
    <3> QED BY <3>1, SumType
  <2>3. 2 ^ n \in Nat
    BY PowerOfTwo
  <2>4. 2 ^ n - 2 ^ n = 0
    <3> DEFINE p == 2 ^ n
    <3>1. p \in Nat
      BY <2>3
    <3> HIDE DEF p
    <3>2. p - p = 0
      BY <3>1
    <3> QED BY <3>2 DEF p
  <2> QED BY <2>1, <2>2, <2>4
<1>2. ASSUME NEW k \in Nat, k \in P PROVE k + 1 \in P
  <2> DEFINE X == n .. (n + k) - 1  Y == n .. (n + (k + 1)) - 1
  <2>1. Y = X \cup {n + k} /\ n + k \notin X /\ n + k \in Nat /\ n + (k + 1) = (n + k) + 1
    OBVIOUS
  <2>2. PlaceSet(X) /\ SumAt(X) = 2 ^ (n + k) - 2 ^ n
    BY <1>2
  <2> HIDE DEF X, Y
  <2>3. PlaceSet(Y) /\ SumAt(Y) = SumAt(X) + 2 ^ (n + k)
    BY <2>1, <2>2, SumAdds
  <2>4. 2 ^ (n + k) \in Nat /\ 2 ^ n \in Nat /\ 2 ^ (n + (k + 1)) = 2 * 2 ^ (n + k)
    BY <2>1, PowerOfTwo
  <2> DEFINE y == SumAt(Y)  x == SumAt(X)  p == 2 ^ (n + k)  q == 2 ^ n  u == 2 ^ (n + (k + 1))
  <2>5. y = x + p /\ x = p - q /\ u = 2 * p /\ p \in Nat /\ q \in Nat
    BY <2>2, <2>3, <2>4
  <2> HIDE DEF y, x, p, q, u
  <2>6. y = u - q
    BY <2>5
  <2>7. SumAt(Y) = 2 ^ (n + (k + 1)) - 2 ^ n
    BY <2>6 DEF y, u, q
  <2> QED BY <2>3, <2>7 DEF Y
<1>3. \A k \in Nat : k \in P
  <2> HIDE DEF P
  <2> QED BY <1>1, <1>2, SetInduction
<1>4. w - n \in Nat /\ n + (w - n) = w
  OBVIOUS
<1>5. w - n \in P
  BY <1>3, <1>4
<1> QED BY <1>4, <1>5

\* The places of the ones of a plane.
PlaneOnes(p, w) == {i \in 0 .. w - 1 : Has(p, i)}

\* The places of the ones of a plane, and the number they make.
LEMMA PlaneOnesType ==
    ASSUME NEW w \in Nat, NEW p \in PlanesOf(w)
    PROVE  /\ PlaceSet(PlaneOnes(p, w)) /\ SumAt(PlaneOnes(p, w)) \in Nat /\ SumAt(PlaneOnes(p, w)) < 2 ^ w
           /\ \A i \in Nat : i \in PlaneOnes(p, w) <=> Has(p, i)
<1>1. PlaneOnes(p, w) \subseteq 0 .. w - 1
  BY DEF PlaneOnes
<1>2. PlaceSet(PlaneOnes(p, w)) /\ SumAt(PlaneOnes(p, w)) < 2 ^ w
  BY <1>1, SumBound
<1>3. SumAt(PlaneOnes(p, w)) \in Nat
  BY <1>2, SumType
<1>4. \A i \in Nat : i \in PlaneOnes(p, w) <=> Has(p, i)
  <2>1. \A i \in Nat : Has(p, i) => i < w
    BY NothingBeyond
  <2>2. \A i \in Nat : i < w => i \in 0 .. w - 1
    OBVIOUS
  <2> QED BY <2>1, <2>2 DEF PlaneOnes
<1> QED BY <1>2, <1>3, <1>4

\* The highest word in which two planes differ, and the highest bit of it, decide
\* the order of the two words and of the two planes.
LEMMA HighestBit ==
    ASSUME NEW w \in Nat, NEW a \in PlanesOf(w), NEW b \in PlanesOf(w), NEW k \in Index(w),
           \A j \in Index(w) : j > k => a[j] = b[j],
           NEW m \in Bit, m \in b[k], m \notin a[k],
           \A i \in Bit : i > m => (i \in a[k] <=> i \in b[k])
    PROVE  Num(a[k]) < Num(b[k]) /\ SumAt(PlaneOnes(a, w)) < SumAt(PlaneOnes(b, w))
<1>1. /\ a \in [Index(w) -> Word] /\ b \in [Index(w) -> Word] /\ k \in Nat /\ m \in Nat
      /\ DOMAIN a = Index(w) /\ DOMAIN b = Index(w) /\ WordBits \in Nat /\ Bit \subseteq Nat
  <2>1. Index(w) \subseteq Nat
    BY LastWord DEF Index
  <2> QED BY <2>1, WordBitsAssumption DEF PlanesOf, Bit
<1>2. Num(a[k]) < Num(b[k])
  <2>1. a[k] \in Word /\ b[k] \in Word
    BY <1>1
  <2>2. /\ Num(a[k]) = SumAt(a[k]) /\ Num(b[k]) = SumAt(b[k]) /\ PlaceSet(a[k]) /\ PlaceSet(b[k])
    BY <1>1, <2>1, NumType DEF SumAt, PlaceSet, Word
  <2>3. \A i \in Nat : i > m => (i \in a[k] <=> i \in b[k])
    BY <2>1 DEF Word
  <2> DEFINE x == a[k]  y == b[k]
  <2>4. PlaceSet(x) /\ PlaceSet(y) /\ m \in y /\ m \notin x /\ \A i \in Nat : i > m => (i \in x <=> i \in y)
    BY <2>2, <2>3
  <2> HIDE DEF x, y
  <2>5. SumAt(x) < SumAt(y)
    BY <1>1, <2>4, TopDecides
  <2> QED BY <2>2, <2>5 DEF x, y
<1> DEFINE M == k * WordBits + m
<1>3. M \in Nat /\ M \div WordBits = k /\ M % WordBits = m
  BY <1>1, PlaceIs
<1>4. At(a, k) = a[k] /\ At(b, k) = b[k]
  BY <1>1 DEF At
<1>5. ASSUME NEW i \in Nat, i > M PROVE Has(a, i) <=> Has(b, i)
  <2> DEFINE j == i \div WordBits  c == i % WordBits
  <2>1. j \in Nat /\ c \in Bit /\ c \in Nat /\ i = j * WordBits + c
    BY PlaceOf
  <2>2. Has(a, i) <=> c \in At(a, j)
    BY DEF Has
  <2>3. Has(b, i) <=> c \in At(b, j)
    BY DEF Has
  <2> HIDE DEF j, c
  <2>4. CASE j > k
    <3>1. At(a, j) = At(b, j)
      BY <1>1, <2>4 DEF At
    <3> QED BY <2>2, <2>3, <3>1
  <2>5. CASE j = k
    <3>1. c > m
      <4>1. k * WordBits \in Nat
        BY <1>1, WordOrder
      <4> DEFINE z == k * WordBits
      <4>2. i = z + c /\ i > z + m /\ z \in Nat
        BY <1>5, <2>1, <2>5, <4>1
      <4> HIDE DEF z, M
      <4> QED BY <1>1, <2>1, <4>2
    <3> QED BY <1>4, <2>1, <2>2, <2>3, <2>5, <3>1
  <2>6. CASE j < k
    <3>1. j * WordBits \in Nat /\ k * WordBits \in Nat /\ j * WordBits + WordBits <= k * WordBits
      BY <1>1, <2>1, <2>6, WordOrder
    <3>2. c < WordBits
      BY <1>1, <2>1 DEF Bit
    <3> DEFINE y == j * WordBits  z == k * WordBits
    <3>3. y \in Nat /\ z \in Nat /\ y + WordBits <= z /\ i = y + c /\ i > z + m
      BY <1>5, <2>1, <3>1
    <3> HIDE DEF y, z, M
    <3>4. FALSE
      BY <1>1, <2>1, <3>2, <3>3
    <3> QED BY <3>4
  <2> QED BY <1>1, <2>1, <2>4, <2>5, <2>6
<1>6. Has(b, M) /\ ~Has(a, M)
  BY <1>3, <1>4 DEF Has
<1> DEFINE X == PlaneOnes(a, w)  Y == PlaneOnes(b, w)
<1>7. /\ PlaceSet(X) /\ PlaceSet(Y)
      /\ \A i \in Nat : (i \in X <=> Has(a, i)) /\ (i \in Y <=> Has(b, i))
  BY PlaneOnesType
<1> HIDE DEF M, X, Y
<1>8. M \in Y /\ M \notin X /\ \A i \in Nat : i > M => (i \in X <=> i \in Y)
  BY <1>3, <1>5, <1>6, <1>7
<1>9. SumAt(X) < SumAt(Y)
  BY <1>3, <1>7, <1>8, TopDecides
<1> QED BY <1>2, <1>9 DEF X, Y

\* Two words that differ have a highest bit in which they do.
LEMMA HighestDiffers ==
    ASSUME NEW x \in Word, NEW y \in Word, x # y
    PROVE  \E m \in Bit : /\ ~(m \in x <=> m \in y)
                          /\ \A i \in Bit : i > m => (i \in x <=> i \in y)
<1> DEFINE S == {b \in Bit : ~(b \in x <=> b \in y)}
<1>1. Bit \subseteq Nat
  BY WordBitsAssumption DEF Bit
<1>2. S # {}
  BY DEF Word
<1>3. PlaceSet(S)
  <2>1. S \subseteq 0 .. WordBits - 1
    BY DEF Bit
  <2> HIDE DEF S
  <2> QED BY <2>1, SumBound, WordBitsAssumption
<1>4. PICK m \in S : \A i \in S : i <= m
  <2> HIDE DEF S
  <2> QED BY <1>2, <1>3, Greatest
<1>5. \A i \in Bit : i > m => i \notin S
  BY <1>1, <1>4
<1> QED BY <1>4, <1>5

\* Words are compared as the numbers they make, whatever word they differ in
\* (cmp_words).
THEOREM WordsCompare ==
    ASSUME NEW w \in Nat, NEW a \in PlanesOf(w), NEW b \in PlanesOf(w)
    PROVE  LET x == SumAt(PlaneOnes(a, w))
               y == SumAt(PlaneOnes(b, w))
           IN  cmp_words(a, b) = IF x < y THEN -1 ELSE IF y < x THEN 1 ELSE 0
<1> DEFINE x == SumAt(PlaneOnes(a, w))
           y == SumAt(PlaneOnes(b, w))
           differ == {k \in DOMAIN a \cup DOMAIN b : At(a, k) # At(b, k)}
<1>1. /\ a \in [Index(w) -> Word] /\ b \in [Index(w) -> Word] /\ Index(w) \subseteq Nat
      /\ DOMAIN a = Index(w) /\ DOMAIN b = Index(w)
  <2>1. Index(w) \subseteq Nat
    BY LastWord DEF Index
  <2> QED BY <2>1 DEF PlanesOf
<1>2. differ = {k \in Index(w) : a[k] # b[k]} /\ \A k \in Index(w) : At(a, k) = a[k] /\ At(b, k) = b[k]
  BY <1>1 DEF At
<1>3. x \in Nat /\ y \in Nat
  BY PlaneOnesType
<1>4. CASE differ = {}
  <2>1. cmp_words(a, b) = 0
    BY <1>4 DEF cmp_words
  <2>2. a = b
    <3>1. \A k \in Index(w) : a[k] = b[k]
      BY <1>2, <1>4
    <3> HIDE DEF differ
    <3> QED BY <1>1, <3>1
  <2>3. x = y
    BY <2>2
  <2> HIDE DEF x, y, differ
  <2>4. ~(x < y) /\ ~(y < x)
    BY <1>3, <2>3
  <2> QED BY <2>1, <2>4 DEF x, y
<1>5. CASE differ # {}
  <2> DEFINE k == Max(differ)
  <2>1. PlaceSet(differ)
    <3>1. differ \subseteq 0 .. NWords(w) - 1
      BY <1>2 DEF Index
    <3>2. NWords(w) \in Nat
      BY LastWord
    <3> HIDE DEF differ
    <3> QED BY <3>1, <3>2, SumBound
  <2>2. \E m \in differ : \A i \in differ : m >= i
    <3>1. PICK m \in differ : \A i \in differ : i <= m
      <4> HIDE DEF differ
      <4> QED BY <1>5, <2>1, Greatest
    <3>2. differ \subseteq Nat
      BY <2>1 DEF PlaceSet
    <3> HIDE DEF differ
    <3>3. \A i \in differ : m >= i
      BY <3>1, <3>2
    <3> QED BY <3>3
  <2>3. k \in differ /\ \A i \in differ : k >= i
    <3> HIDE DEF differ
    <3> QED BY <2>2 DEF Max
  <2>4. cmp_words(a, b) = IF Num(At(a, k)) < Num(At(b, k)) THEN -1 ELSE 1
    BY <1>5 DEF cmp_words
  <2> HIDE DEF k
  <2>5. /\ k \in Index(w) /\ a[k] # b[k] /\ a[k] \in Word /\ b[k] \in Word
        /\ \A j \in Index(w) : j > k => a[j] = b[j]
        /\ At(a, k) = a[k] /\ At(b, k) = b[k]
    <3>1. k \in Index(w) /\ a[k] # b[k]
      BY <1>2, <2>3
    <3>2. \A j \in Index(w) : j > k => j \notin differ
      <4> HIDE DEF differ
      <4>1. \A j \in Index(w) : j > k => ~(k >= j)
        BY <1>1, <3>1
      <4> QED BY <2>3, <4>1
    <3> QED BY <1>1, <1>2, <3>1, <3>2
  <2> HIDE DEF differ
  <2>6. PICK m \in Bit : /\ ~(m \in a[k] <=> m \in b[k])
                         /\ \A i \in Bit : i > m => (i \in a[k] <=> i \in b[k])
    <3> DEFINE p == a[k]  q == b[k]
    <3>1. p \in Word /\ q \in Word /\ p # q
      BY <2>5
    <3> HIDE DEF p, q
    <3>2. \E m \in Bit : ~(m \in p <=> m \in q) /\ \A i \in Bit : i > m => (i \in p <=> i \in q)
      BY <3>1, HighestDiffers
    <3> QED BY <3>2 DEF p, q
  <2>7. Num(a[k]) \in Nat /\ Num(b[k]) \in Nat
    BY <2>5, NumType
  <2>8. CASE m \in b[k]
    <3>1. m \notin a[k]
      BY <2>6, <2>8
    <3>2. Num(a[k]) < Num(b[k]) /\ x < y
      BY <2>5, <2>6, <2>8, <3>1, HighestBit
    <3> HIDE DEF x, y
    <3> QED BY <2>4, <2>5, <3>2 DEF x, y
  <2>9. CASE m \notin b[k]
    <3>1. m \in a[k]
      BY <2>6, <2>9
    <3>2. /\ \A j \in Index(w) : j > k => b[j] = a[j]
          /\ \A i \in Bit : i > m => (i \in b[k] <=> i \in a[k])
      BY <2>5, <2>6
    <3>3. Num(b[k]) < Num(a[k]) /\ y < x
      BY <2>5, <2>9, <3>1, <3>2, HighestBit
    <3> HIDE DEF x, y
    <3>4. ~(Num(a[k]) < Num(b[k])) /\ ~(x < y)
      BY <1>3, <2>7, <3>3
    <3> QED BY <2>4, <2>5, <3>3, <3>4 DEF x, y
  <2> QED BY <2>8, <2>9
<1> QED BY <1>4, <1>5

\* A value is negative when its sign is taken and its top bit is 1.
Below0(v, s) == s /\ BitOf(v, v.width - 1) = "1"

\* The ones of a known value are the ones of its plane.
LEMMA OnesArePlane ==
    ASSUME NEW v \in Values, ~HasUnknown(v)
    PROVE  OnesOf(v) = PlaneOnes(v.val, v.width)
<1>1. v.width \in Nat
  BY ValueParts
<1>2. \A i \in 0 .. v.width - 1 : i \in Nat /\ i < v.width
  BY <1>1
<1>3. ASSUME NEW i \in 0 .. v.width - 1
      PROVE  BitOf(v, i) = "1" <=> Has(v.val, i)
  <2>1. BitOf(v, i) \in Defined
    BY <1>2 DEF HasUnknown
  <2> QED BY <2>1 DEF BitOf, State, Quads, Has, Defined
<1> QED BY <1>3 DEF OnesOf, PlaneOnes

\* The top bit of a known value: what get_vu reads there.
LEMMA TopBit ==
    ASSUME NEW v \in Values, ~HasUnknown(v)
    PROVE  /\ get_vu(v, v.width - 1).val <=> BitOf(v, v.width - 1) = "1"
           /\ BitOf(v, v.width - 1) = "1" => v.width - 1 \in Nat /\ v.width - 1 < v.width
<1> DEFINE i == v.width - 1
<1>1. v.width \in Nat /\ v.val \in PlanesOf(v.width) /\ v.unk \in PlanesOf(v.width)
  BY ValueParts
<1>2. CASE v.width = 0
  <2>1. \A k : At(v.val, k) = {} /\ At(v.unk, k) = {}
    <3>1. NWords(v.width) = 1 /\ top_mask(v.width) = {}
      BY <1>2, WordBitsAssumption DEF NWords, nwords, top_mask, Mx
    <3>2. Index(v.width) = {0} /\ NWords(v.width) - 1 = 0
      BY <3>1 DEF Index
    <3>3. DOMAIN v.val = {0} /\ DOMAIN v.unk = {0} /\ v.val[0] = {} /\ v.unk[0] = {}
      BY <1>1, <3>1, <3>2 DEF PlanesOf
    <3> QED BY <3>3 DEF At
  <2> QED BY <2>1 DEF BitOf, State, Quads, get_vu
<1>3. CASE v.width > 0
  <2>1. i \in Nat /\ i < v.width
    BY <1>1, <1>3
  <2> HIDE DEF i
  <2>2. BitOf(v, i) \in Defined
    BY <2>1 DEF HasUnknown
  <2>3. get_vu(v, i).val <=> BitOf(v, i) = "1"
    BY <2>2 DEF BitOf, State, Quads, get_vu, Defined
  <2> QED BY <2>1, <2>3 DEF i
<1> QED BY <1>1, <1>2, <1>3

\* What a relational operator says of two numbers.
Compared(o, a, b) == CASE o = "<" -> a < b [] o = "<=" -> a <= b [] o = ">" -> a > b [] o = ">=" -> a >= b

-----------------------------------------------------------------------------
(* Comparisons, reductions and logical operators.                          *)
TriState == {"0", "1", "x"}

\* What a comparison answers of two operands, the sign and the places they share.
Shared(p, q) == p.signed /\ q.signed

Span(p, q) == 0 .. Mx(p.width, q.width) - 1

Wild(o, b) == b = "z" \/ (b = "x" /\ o = "casex")

-----------------------------------------------------------------------------
(* Numbers and the places of their ones.                                   *)
LEMMA PowerAdds ==
    ASSUME NEW a \in Nat, NEW b \in Nat
    PROVE  2 ^ (a + b) = 2 ^ a * 2 ^ b
<1> DEFINE P == {n \in Nat : 2 ^ (a + n) = 2 ^ a * 2 ^ n}
<1>1. 0 \in P
  BY PowerOfTwo
<1>2. ASSUME NEW n \in Nat, n \in P PROVE n + 1 \in P
  <2> DEFINE x == 2 ^ a  y == 2 ^ n  z == 2 ^ (a + n)  y1 == 2 ^ (n + 1)  z1 == 2 ^ (a + (n + 1))
  <2>1. x \in Nat /\ y \in Nat /\ z \in Nat /\ y1 = 2 * y /\ z = x * y
    BY <1>2, PowerOfTwo
  <2>2. z1 = 2 * z
    <3>1. a + (n + 1) = (a + n) + 1 /\ a + n \in Nat
      OBVIOUS
    <3> QED BY <3>1, PowerOfTwo
  <2> HIDE DEF x, y, z, y1, z1
  <2>3. z1 = x * y1
    BY <2>1, <2>2
  <2> QED BY <2>3 DEF z1, x, y1
<1>3. b \in P
  <2> HIDE DEF P
  <2> QED BY <1>1, <1>2, SetInduction
<1> QED BY <1>3

\* Division by parts.
LEMMA DividedParts ==
    ASSUME NEW d \in Nat \ {0}, NEW q \in Int, NEW e \in Nat, e < d
    PROVE  (d * q + e) \div d = q /\ (d * q + e) % d = e
OBVIOUS

\* Integer division by a positive number.
LEMMA Divides ==
    ASSUME NEW n \in Int, NEW d \in Nat \ {0}
    PROVE  n \div d \in Int /\ n % d \in Nat /\ n % d < d /\ n = d * (n \div d) + (n % d)
OBVIOUS

\* Places moved up.
Moved(X, n) == {n + j : j \in X}

\* Places moved up by n: the number is multiplied by 2^n.
LEMMA MovedSum ==
    ASSUME NEW X, PlaceSet(X), NEW n \in Nat
    PROVE  PlaceSet(Moved(X, n)) /\ SumAt(Moved(X, n)) = 2 ^ n * SumAt(X)
<1> DEFINE P == {Y \in SUBSET X : PlaceSet(Moved(Y, n)) /\ SumAt(Moved(Y, n)) = 2 ^ n * SumAt(Y)}
<1>1. \A Y \in SUBSET X : PlaceSet(Y) /\ SumAt(Y) \in Nat
  <2> SUFFICES ASSUME NEW Y \in SUBSET X PROVE PlaceSet(Y) /\ SumAt(Y) \in Nat
    OBVIOUS
  <2>1. PlaceSet(Y)
    BY FS_Subset DEF PlaceSet
  <2> QED BY <2>1, SumType
<1>2. {} \in P
  <2>1. Moved({}, n) = {} /\ PlaceSet({}) /\ {} \in SUBSET X
    BY <1>1 DEF Moved
  <2>2. SumAt({}) = 0 /\ 2 ^ n \in Nat
    BY <2>1, SumType, PowerOfTwo
  <2> QED BY <2>1, <2>2
<1>3. ASSUME NEW Y \in SUBSET X, Y # {}, Others(Y) \in P
      PROVE  Y \in P
  <2> DEFINE Z == Others(Y)  b == Picked(Y)
  <2>1. b \in Y /\ Z = Y \ {b}
    <3>1. IsFiniteSet(Y)
      BY <1>1 DEF PlaceSet
    <3> QED BY <1>3, <3>1, PickedOf DEF Others, Picked
  <2>2. Z \in SUBSET X /\ PlaceSet(Moved(Z, n)) /\ SumAt(Moved(Z, n)) = 2 ^ n * SumAt(Z)
    BY <1>3
  <2> HIDE DEF Z, b
  <2>3. b \in Nat /\ b \notin Z /\ Z \cup {b} = Y /\ n + b \in Nat
    BY <2>1 DEF PlaceSet
  <2>4. Moved(Y, n) = Moved(Z, n) \cup {n + b}
    BY <2>3 DEF Moved
  <2>5. n + b \notin Moved(Z, n)
    <3>1. \A j \in Z : j \in Nat
      BY <2>2 DEF PlaceSet
    <3> QED BY <2>3, <3>1 DEF Moved
  <2>6. PlaceSet(Moved(Y, n)) /\ SumAt(Moved(Y, n)) = SumAt(Moved(Z, n)) + 2 ^ (n + b)
    BY <2>2, <2>3, <2>4, <2>5, SumAdds
  <2>7. SumAt(Y) = SumAt(Z) + 2 ^ b
    BY <1>1, <2>2, <2>3, SumAdds
  <2>8. 2 ^ (n + b) = 2 ^ n * 2 ^ b /\ 2 ^ n \in Nat /\ 2 ^ b \in Nat /\ SumAt(Z) \in Nat
    BY <1>1, <2>2, <2>3, PowerAdds, PowerOfTwo
  <2> DEFINE p == 2 ^ n  c == 2 ^ b  z == SumAt(Z)
  <2>9. p * z + p * c = p * (z + c)
    <3>1. p \in Nat /\ c \in Nat /\ z \in Nat
      BY <2>8
    <3> HIDE DEF p, c, z
    <3> QED BY <3>1
  <2>10. SumAt(Moved(Y, n)) = 2 ^ n * SumAt(Y)
    BY <2>2, <2>6, <2>7, <2>8, <2>9
  <2> QED BY <2>6, <2>10
<1>4. SUBSET X \subseteq P
  <2>1. IsFiniteSet(X)
    BY DEF PlaceSet
  <2> HIDE DEF P
  <2> QED BY <1>2, <1>3, <2>1, PickInduction
<1> QED BY <1>4

\* A number is the sum of its low ones and of a multiple.
LEMMA Cut ==
    ASSUME NEW B, PlaceSet(B), NEW n \in Nat
    PROVE  LET low  == {i \in B : i < n}
               high == {j \in Nat : n + j \in B}
           IN  /\ PlaceSet(low) /\ PlaceSet(high) /\ SumAt(low) \in Nat /\ SumAt(low) < 2 ^ n
               /\ SumAt(high) \in Nat /\ SumAt(B) = SumAt(low) + 2 ^ n * SumAt(high)
<1> DEFINE low  == {i \in B : i < n}
           high == {j \in Nat : n + j \in B}
           up   == {i \in B : ~(i < n)}
<1>1. B \in SUBSET Nat /\ IsFiniteSet(B)
  BY DEF PlaceSet
<1>2. PlaceSet(low) /\ PlaceSet(up)
  BY <1>1, FS_Subset DEF PlaceSet
<1>3. low \subseteq 0 .. n - 1
  <2> SUFFICES ASSUME NEW i \in B, i < n PROVE i \in 0 .. n - 1
    OBVIOUS
  <2> QED BY <1>1
<1>4. SumAt(low) < 2 ^ n
  BY <1>3, SumBound
<1>5. up = Moved(high, n)
  <2>1. ASSUME NEW i \in up PROVE i \in Moved(high, n)
    <3>1. i - n \in high /\ i = n + (i - n)
      BY <1>1
    <3> QED BY <3>1 DEF Moved
  <2>2. ASSUME NEW i \in Moved(high, n) PROVE i \in up
    BY DEF Moved
  <2> QED BY <2>1, <2>2
<1>6. PlaceSet(high)
  <2> DEFINE f == [i \in up |-> i - n]
  <2>1. \A i \in up : i \in Nat /\ i >= n
    BY <1>1
  <2>2. f \in [up -> high]
    BY <2>1
  <2>3. \A j \in high : \E i \in up : f[i] = j
    <3> TAKE j \in high
    <3>1. n + j \in up /\ (n + j) - n = j
      OBVIOUS
    <3> QED BY <3>1
  <2>4. f \in Surjection(up, high)
    <3> HIDE DEF f, up, high
    <3> QED BY <2>2, <2>3 DEF Surjection
  <2>5. IsFiniteSet(high)
    <3>1. IsFiniteSet(up)
      BY <1>2 DEF PlaceSet
    <3> HIDE DEF f, up, high
    <3> QED BY <2>4, <3>1, FS_Surjection
  <2> QED BY <2>5 DEF PlaceSet
<1>7. SumAt(up) = 2 ^ n * SumAt(high)
  <2> HIDE DEF up, high
  <2> QED BY <1>5, <1>6, MovedSum
<1>8. low \cap up = {} /\ low \cup up = B
  OBVIOUS
<1>9. SumAt(B) = SumAt(low) + SumAt(up)
  <2> HIDE DEF low, up
  <2> QED BY <1>2, <1>8, SumJoins
<1>10. SumAt(low) \in Nat /\ SumAt(high) \in Nat
  <2> HIDE DEF low, high
  <2> QED BY <1>2, <1>6, SumType
<1> HIDE DEF low, high, up
<1>11. SumAt(B) = SumAt(low) + 2 ^ n * SumAt(high)
  BY <1>7, <1>9
<1> QED BY <1>2, <1>4, <1>6, <1>10, <1>11 DEF low, high

\* Every number has its ones.
LEMMA EveryNumber ==
    ASSUME NEW n \in Nat, NEW x \in Nat, x < 2 ^ n
    PROVE  \E B \in SUBSET (0 .. n - 1) : PlaceSet(B) /\ SumAt(B) = x
<1> DEFINE P == {m \in Nat : \A y \in Nat : y < 2 ^ m => \E B \in SUBSET (0 .. m - 1) : SumAt(B) = y}
<1>0. \A m \in Nat : \A B \in SUBSET (0 .. m - 1) : PlaceSet(B)
  BY SumBound
<1>1. 0 \in P
  <2>1. {} \in SUBSET (0 .. 0 - 1) /\ PlaceSet({})
    BY <1>0
  <2>2. SumAt({}) = 0
    BY <2>1, SumType
  <2> QED BY <2>1, <2>2, PowerOfTwo
<1>2. ASSUME NEW m \in Nat, m \in P PROVE m + 1 \in P
  <2> SUFFICES ASSUME NEW y \in Nat, y < 2 ^ (m + 1)
               PROVE  \E B \in SUBSET (0 .. (m + 1) - 1) : SumAt(B) = y
    OBVIOUS
  <2> DEFINE p == 2 ^ m
  <2>1. p \in Nat /\ 2 ^ (m + 1) = 2 * p
    BY PowerOfTwo
  <2>2. CASE y < p
    <3>1. PICK B \in SUBSET (0 .. m - 1) : SumAt(B) = y
      BY <1>2, <2>2
    <3>2. B \in SUBSET (0 .. (m + 1) - 1)
      OBVIOUS
    <3> QED BY <3>1, <3>2
  <2>3. CASE ~(y < p)
    <3>1. y - p \in Nat /\ y - p < p
      <4> HIDE DEF p
      <4> QED BY <2>1, <2>3
    <3>2. PICK B \in SUBSET (0 .. m - 1) : SumAt(B) = y - p
      BY <1>2, <3>1
    <3>3. m \notin B /\ B \cup {m} \in SUBSET (0 .. (m + 1) - 1)
      OBVIOUS
    <3>4. SumAt(B \cup {m}) = SumAt(B) + p
      BY <1>0, <3>3, SumAdds
    <3>5. SumAt(B \cup {m}) = y
      <4> HIDE DEF p
      <4> QED BY <2>1, <3>2, <3>4
    <3> QED BY <3>3, <3>5
  <2> QED BY <2>2, <2>3
<1>3. n \in P
  <2> HIDE DEF P
  <2> QED BY <1>1, <1>2, SetInduction
<1>4. PICK B \in SUBSET (0 .. n - 1) : SumAt(B) = x
  BY <1>3
<1> QED BY <1>0, <1>4

\* The bits of an integer, from a number that is the same modulo a power of two.
LEMMA BitIs ==
    ASSUME NEW B, PlaceSet(B), NEW n \in Int, NEW q \in Int, NEW w \in Nat, NEW i \in Nat, i < w,
           SumAt(B) = n + 2 ^ w * q
    PROVE  (i \in B) <=> ((n \div 2 ^ i) % 2 = 1)
<1> DEFINE low  == {j \in B : j < i}
           high == {j \in Nat : i + j \in B}
           top  == {j \in Nat : 1 + j \in high}
           one  == {j \in high : j < 1}
           bit  == IF i \in B THEN 1 ELSE 0
           p == 2 ^ i
           t == 2 ^ (w - (i + 1))
           a == SumAt(low)
           h == SumAt(high)
           u == SumAt(top)
<1>1. PlaceSet(high) /\ a \in Nat /\ a < p /\ h \in Nat /\ SumAt(B) = a + p * h
  BY Cut
<1>2. u \in Nat /\ h = SumAt(one) + 2 * u
  <2>1. 2 ^ 1 = 2
    BY PowerOfTwo
  <2> HIDE DEF high
  <2>2. u \in Nat /\ h = SumAt(one) + 2 ^ 1 * u
    BY <1>1, Cut
  <2> QED BY <2>1, <2>2
<1>3. SumAt(one) = bit
  <2>1. \A j \in Nat : j < 1 <=> j = 0
    OBVIOUS
  <2>2. 0 \in high <=> i \in B
    OBVIOUS
  <2>3. high \subseteq Nat
    OBVIOUS
  <2> HIDE DEF high
  <2>4. one = IF i \in B THEN {0} ELSE {}
    BY <2>1, <2>2, <2>3
  <2>5. PlaceSet({}) /\ SumAt({}) = 0 /\ SumAt({} \cup {0}) = SumAt({}) + 2 ^ 0
    <3>1. PlaceSet({})
      BY FS_EmptySet DEF PlaceSet
    <3> QED BY <3>1, SumType, SumAdds
  <2>6. {} \cup {0} = {0} /\ 2 ^ 0 = 1
    BY PowerOfTwo
  <2>7. CASE i \in B
    <3>1. SumAt({} \cup {0}) = 1
      BY <2>5, <2>6
    <3>2. one = {} \cup {0}
      BY <2>4, <2>7
    <3> HIDE DEF one
    <3>3. SumAt(one) = 1
      BY <3>1, <3>2, Zenon
    <3> QED BY <2>7, <3>3
  <2>8. CASE i \notin B
    BY <2>4, <2>5, <2>8
  <2> QED BY <2>7, <2>8
<1>4. 2 ^ w = 2 * p * t /\ p \in Nat \ {0} /\ t \in Nat
  <2>1. w - (i + 1) \in Nat /\ w = (i + 1) + (w - (i + 1)) /\ i + 1 \in Nat
    OBVIOUS
  <2>2. 2 ^ w = 2 ^ (i + 1) * t /\ 2 ^ (i + 1) = 2 * p /\ p \in Nat \ {0} /\ t \in Nat
    BY <2>1, PowerAdds, PowerOfTwo
  <2> HIDE DEF p, t
  <2> QED BY <2>2
<1>5. bit \in {0, 1} /\ (bit = 1 <=> i \in B)
  OBVIOUS
<1> HIDE DEF low, high, top, one, bit, a, h, u
<1> DEFINE c == u - t * q
           N == 2 * c + bit
<1>6. n = p * N + a /\ N \in Int /\ c \in Int
  <2>0. 2 ^ w * q = 2 * p * t * q
    BY <1>4
  <2> HIDE DEF p, t
  <2> DEFINE m1 == p * bit  m2 == p * u  m3 == p * (t * q)
  <2>1. c \in Int /\ N \in Int /\ t * q \in Int
    BY <1>2, <1>4, <1>5
  <2>2. 2 * p * t * q = 2 * m3
    BY <1>4
  <2>3. n = a + p * h - 2 * m3
    BY <1>1, <1>4, <2>0, <2>2
  <2>4. p * h = m1 + 2 * m2
    <3>1. h = bit + 2 * u
      BY <1>2, <1>3
    <3> QED BY <1>2, <1>4, <1>5, <3>1
  <2>5. p * c = m2 - m3
    <3> DEFINE e == t * q
    <3> HIDE DEF e
    <3>1. e \in Int /\ c = u - e
      BY <2>1 DEF e
    <3>2. p * (u - e) = p * u - p * e
      BY <1>2, <1>4, <3>1
    <3> QED BY <3>1, <3>2 DEF e
  <2>6. p * N = 2 * (p * c) + m1
    <3> HIDE DEF c
    <3>1. p * (2 * c + bit) = 2 * (p * c) + p * bit
      BY <1>4, <1>5, <2>1
    <3> QED BY <3>1
  <2>7. m1 \in Int /\ m2 \in Int /\ m3 \in Int
    BY <1>2, <1>4, <1>5, <2>1
  <2> HIDE DEF c, N, m1, m2, m3
  <2>8. n = p * N + a
    BY <1>1, <2>3, <2>4, <2>5, <2>6, <2>7
  <2> QED BY <2>1, <2>8
<1>7. n \div p = N
  <2> HIDE DEF N, p
  <2> QED BY <1>1, <1>4, <1>6, DividedParts
<1>8. N % 2 = bit
  <2> HIDE DEF c
  <2> QED BY <1>5, <1>6, DividedParts
<1> HIDE DEF p, N
<1> QED BY <1>5, <1>7, <1>8 DEF p

\* The word of places that word k of a number is.
WordAt(B, k) == {b \in Bit : k * WordBits + b \in B}

\* a are the digits of B on the first n words.
DigitsOf(a, n, B) == \A k \in 0 .. n - 1 : k \in DOMAIN a /\ a[k] = Num(WordAt(B, k))

\* A word of the places of a number is a word, and a number below the base.
LEMMA WordsOf ==
    ASSUME NEW B, NEW k
    PROVE  WordAt(B, k) \in Word /\ PlaceSet(WordAt(B, k)) /\ Num(WordAt(B, k)) = SumAt(WordAt(B, k))
           /\ Num(WordAt(B, k)) \in Nat /\ Num(WordAt(B, k)) < Base
<1>1. WordAt(B, k) \in Word /\ WordAt(B, k) \subseteq 0 .. WordBits - 1
  BY DEF WordAt, Word, Bit
<1>2. PlaceSet(WordAt(B, k)) /\ SumAt(WordAt(B, k)) < Base
  BY <1>1, SumBound, WordBitsAssumption DEF Base
<1>3. Num(WordAt(B, k)) \in Nat /\ Num(WordAt(B, k)) = SumAt(WordAt(B, k))
  BY <1>1, NumType DEF SumAt
<1> QED BY <1>1, <1>2, <1>3

\* A word is given back by its number.
LEMMA BitsOfNum ==
    ASSUME NEW x \in Word
    PROVE  BitsOf(Num(x)) = x
<1>1. x \subseteq 0 .. WordBits - 1 /\ Bit = 0 .. WordBits - 1 /\ WordBits \in Nat
  BY WordBitsAssumption DEF Word, Bit
<1>2. PlaceSet(x)
  BY <1>1, SumBound
<1>3. Num(x) = SumAt(x) /\ Num(x) \in Nat
  BY NumType DEF SumAt
<1>4. 2 ^ WordBits \in Nat
  BY <1>1, PowerOfTwo
<1>5. SumAt(x) = Num(x) + 2 ^ WordBits * 0
  BY <1>3, <1>4
<1>6. \A b \in Bit : b \in x <=> (Num(x) \div 2 ^ b) % 2 = 1
  <2> TAKE b \in Bit
  <2>1. b \in Nat /\ b < WordBits /\ 0 \in Int /\ Num(x) \in Int
    BY <1>1, <1>3
  <2> QED BY <1>1, <1>2, <1>5, <2>1, BitIs
<1> QED BY <1>1, <1>6 DEF BitsOf, Word

\* Every digit is a word's.
LEMMA DigitIs ==
    ASSUME NEW d \in Nat, d < Base
    PROVE  BitsOf(d) \in Word /\ Num(BitsOf(d)) = d
<1>1. WordBits \in Nat /\ Bit = 0 .. WordBits - 1
  BY WordBitsAssumption DEF Bit
<1>2. PICK x \in SUBSET (0 .. WordBits - 1) : SumAt(x) = d
  BY <1>1, EveryNumber DEF Base
<1>3. x \in Word /\ Num(x) = d
  BY <1>1, <1>2, NumType DEF SumAt, Word
<1> QED BY <1>3, BitsOfNum

\* One more word of a number.
Below(B, n) == {i \in B : i < n}

\* What is below the next word of a number: one more word of it.
LEMMA NextWord ==
    ASSUME NEW B, PlaceSet(B), NEW k \in Nat
    PROVE  SumAt(Below(B, (k + 1) * WordBits)) =
              SumAt(Below(B, k * WordBits)) + 2 ^ (k * WordBits) * Num(WordAt(B, k))
<1> DEFINE n == k * WordBits
           C == Below(B, (k + 1) * WordBits)
<1>1. n \in Nat /\ WordBits \in Nat /\ (k + 1) * WordBits = n + WordBits /\ B \subseteq Nat
  BY WordBitsAssumption DEF PlaceSet
<1>2. PlaceSet(C)
  BY FS_Subset DEF PlaceSet, Below
<1>3. {i \in C : i < n} = Below(B, n)
  <2>1. \A i : i \in C <=> i \in B /\ i < n + WordBits
    BY <1>1 DEF Below
  <2> HIDE DEF n, C
  <2>2. \A i \in Nat : i < n => i < n + WordBits
    BY <1>1
  <2> QED BY <1>1, <2>1, <2>2 DEF Below
<1>4. {j \in Nat : n + j \in C} = WordAt(B, k)
  <2> HIDE DEF n
  <2>1. \A j \in Nat : n + j < n + WordBits <=> j \in Bit
    BY <1>1 DEF Bit
  <2>2. \A j \in Nat : n + j \in C <=> n + j \in B /\ j \in Bit
    BY <1>1, <2>1 DEF Below
  <2>3. Bit \subseteq Nat
    BY <1>1 DEF Bit
  <2> HIDE DEF C
  <2> QED BY <2>2, <2>3 DEF WordAt, n
<1> HIDE DEF n, C
<1>5. SumAt(C) = SumAt(Below(B, n)) + 2 ^ n * SumAt(WordAt(B, k))
  BY <1>1, <1>2, <1>3, <1>4, Cut
<1> QED BY <1>5, WordsOf DEF n, C

\* What is below a place is the rest of a division by a power of two.
LEMMA BelowType ==
    ASSUME NEW B, PlaceSet(B), NEW n \in Nat
    PROVE  PlaceSet(Below(B, n)) /\ SumAt(Below(B, n)) \in Nat /\ SumAt(Below(B, n)) < 2 ^ n
           /\ \E h \in Nat : SumAt(B) = SumAt(Below(B, n)) + 2 ^ n * h
BY Cut DEF Below

-----------------------------------------------------------------------------
(* Sums of words: mw_add and mw_neg.                                       *)

\* A recursion over 0 .. n has a solution.
Stays(H, S)     == \A k \in Nat : \A x \in S : H[<<k, x>>] \in S

Solves(f, n, z, H) == \A k \in 0 .. n : f[k] = IF k = 0 THEN z ELSE H[<<k, f[k - 1]>>]

\* A recursion that stays in a set has a solution in it.
LEMMA Recursion ==
    ASSUME NEW n \in Nat, NEW S, NEW z \in S, NEW H, Stays(H, S)
    PROVE  \E f \in [0 .. n -> S] : Solves(f, n, z, H)
<1> DEFINE P == {m \in Nat : \E f \in [0 .. m -> S] : Solves(f, m, z, H)}
<1>1. 0 \in P
  <2> DEFINE f == [k \in 0 .. 0 |-> z]
  <2>1. f \in [0 .. 0 -> S] /\ \A k \in 0 .. 0 : k = 0 /\ f[k] = z
    OBVIOUS
  <2> HIDE DEF f
  <2>2. Solves(f, 0, z, H)
    BY <2>1 DEF Solves
  <2> QED BY <2>1, <2>2
<1>2. ASSUME NEW m \in Nat, m \in P PROVE m + 1 \in P
  <2>1. PICK f \in [0 .. m -> S] : Solves(f, m, z, H)
    BY <1>2
  <2> DEFINE g == [k \in 0 .. m + 1 |-> IF k = m + 1 THEN H[<<k, f[k - 1]>>] ELSE f[k]]
  <2>2. /\ \A k \in 0 .. m : g[k] = f[k] /\ f[k] \in S
        /\ g[m + 1] = H[<<m + 1, f[m]>>]
    <3>1. (m + 1) - 1 = m
      OBVIOUS
    <3> QED BY <3>1
  <2>3. g \in [0 .. m + 1 -> S]
    <3>1. H[<<m + 1, f[m]>>] \in S
      BY <2>2 DEF Stays
    <3>2. \A k \in 0 .. m + 1 : g[k] \in S
      <4>1. \A k \in 0 .. m + 1 : k = m + 1 \/ k \in 0 .. m
        OBVIOUS
      <4> HIDE DEF g
      <4> QED BY <2>2, <3>1, <4>1
    <3> QED BY <3>2
  <2>4. ASSUME NEW k \in 0 .. m + 1 PROVE g[k] = IF k = 0 THEN z ELSE H[<<k, g[k - 1]>>]
    <3> HIDE DEF g
    <3>1. CASE k = m + 1
      <4>1. k - 1 = m /\ k # 0 /\ m \in 0 .. m
        BY <3>1
      <4> QED BY <2>2, <3>1, <4>1
    <3>2. CASE k # m + 1
      <4>1. k \in 0 .. m /\ (k # 0 => k - 1 \in 0 .. m)
        BY <3>2
      <4>2. f[k] = IF k = 0 THEN z ELSE H[<<k, f[k - 1]>>]
        BY <2>1, <4>1 DEF Solves
      <4> QED BY <2>2, <4>1, <4>2
    <3> QED BY <3>1, <3>2
  <2> HIDE DEF g
  <2>5. Solves(g, m + 1, z, H)
    BY <2>4 DEF Solves
  <2> QED BY <2>3, <2>5
<1>3. n \in P
  <2> HIDE DEF P
  <2> QED BY <1>1, <1>2, SetInduction
<1> QED BY <1>3

\* The carry chain of mw_add.
AddStep(f, a, b, n) ==
    [k \in 0 .. n |-> IF k = 0 THEN <<0, 0>>
                      ELSE LET d == a[k - 1] + D(b, k - 1) + f[k - 1][2]
                           IN  <<d % Base, Carry(d)>>]

Chain(a, b, n) == CHOOSE f : f = AddStep(f, a, b, n)

\* The base is a power of two.
LEMMA BaseType == Base \in Nat \ {0} /\ Base = 2 ^ WordBits /\ WordBits \in Nat
BY WordBitsAssumption, PowerOfTwo DEF Base

\* mw_add is a chain of carries.
LEMMA AddIs ==
    ASSUME NEW n \in Nat, NEW a, DOMAIN a = 0 .. n - 1, NEW b
    PROVE  mw_add(a, b) = [k \in 0 .. n - 1 |-> Chain(a, b, n)[k + 1][1]]
<1>1. Cardinality(DOMAIN a) = n
  <2>1. 0 \in Int /\ n - 1 \in Int
    OBVIOUS
  <2> QED BY <2>1, FS_Interval
<1>2. mw_add(a, b) = [k \in DOMAIN a |-> Chain(a, b, Cardinality(DOMAIN a))[k + 1][1]]
  BY DEF mw_add, Chain, AddStep
<1> QED BY <1>1, <1>2

Numeric(a, b, n) == \A k \in 0 .. n - 1 : a[k] \in Nat /\ D(b, k) \in Nat

Carries(f, a, b, k) == f[k] = IF k = 0 THEN <<0, 0>>
                              ELSE LET d == a[k - 1] + D(b, k - 1) + f[k - 1][2]
                                   IN  <<d % Base, Carry(d)>>

\* The chain of mw_add holds the sum so far, and a carry of one bit.
LEMMA ChainStep ==
    ASSUME NEW n \in Nat, NEW a, NEW b, Numeric(a, b, n), NEW k \in 0 .. n
    PROVE  Carries(Chain(a, b, n), a, b, k)
<1> DEFINE S == Nat \X Nat
           At0(x, j) == IF j \in 0 .. n - 1 THEN x ELSE 0
           d(p) == At0(a[p[1] - 1], p[1] - 1) + At0(D(b, p[1] - 1), p[1] - 1) + p[2][2]
           H == [p \in Nat \X S |-> <<d(p) % Base, Carry(d(p))>>]
           z == <<0, 0>>
<1>1. ASSUME NEW j \in Nat, NEW x \in S PROVE H[<<j, x>>] \in S
  <2> DEFINE e == d(<<j, x>>)
  <2>1. e \in Nat
    <3>1. At0(a[j - 1], j - 1) \in Nat /\ At0(D(b, j - 1), j - 1) \in Nat /\ x[2] \in Nat
      BY DEF Numeric
    <3> HIDE DEF At0
    <3> QED BY <3>1
  <2>2. H[<<j, x>>] = <<e % Base, Carry(e)>>
    BY Zenon
  <2>3. e % Base \in Nat /\ Carry(e) \in Nat
    <3> HIDE DEF d, e
    <3> QED BY <2>1, BaseType DEF Carry
  <2> HIDE DEF e, H
  <2> QED BY <2>2, <2>3
<1>2. z \in S
  OBVIOUS
<1>3. PICK f \in [0 .. n -> S] : Solves(f, n, z, H)
  <2> HIDE DEF H, S, z
  <2>1. Stays(H, S)
    BY <1>1 DEF Stays
  <2> QED BY <1>2, <2>1, Recursion
<1>4. ASSUME NEW j \in 0 .. n, j # 0
      PROVE  H[<<j, f[j - 1]>>] = LET e == a[j - 1] + D(b, j - 1) + f[j - 1][2] IN <<e % Base, Carry(e)>>
  <2>1. j \in Nat /\ j - 1 \in 0 .. n - 1 /\ j - 1 \in 0 .. n
    BY <1>4
  <2>2. f[j - 1] \in S
    BY <2>1
  <2>3. H[<<j, f[j - 1]>>] = <<d(<<j, f[j - 1]>>) % Base, Carry(d(<<j, f[j - 1]>>))>>
    <3>1. <<j, f[j - 1]>> \in Nat \X S
      BY <2>1, <2>2
    <3> HIDE DEF d, S
    <3> QED BY <3>1
  <2>4. d(<<j, f[j - 1]>>) = a[j - 1] + D(b, j - 1) + f[j - 1][2]
    BY <2>1
  <2> HIDE DEF d, H
  <2> QED BY <2>3, <2>4
<1>5. f = AddStep(f, a, b, n)
  <2>1. f = [j \in 0 .. n |-> f[j]]
    OBVIOUS
  <2>2. \A j \in 0 .. n : f[j] = IF j = 0 THEN <<0, 0>>
                      ELSE LET e == a[j - 1] + D(b, j - 1) + f[j - 1][2] IN <<e % Base, Carry(e)>>
    <3> HIDE DEF H, S
    <3> QED BY <1>3, <1>4, Zenon DEF Solves
  <2> QED BY <2>1, <2>2 DEF AddStep
<1>6. Chain(a, b, n) = AddStep(Chain(a, b, n), a, b, n)
  BY <1>5 DEF Chain
<1> HIDE DEF H, S
<1> DEFINE F == Chain(a, b, n)
<1>7. F = [j \in 0 .. n |-> IF j = 0 THEN <<0, 0>>
                      ELSE LET e == a[j - 1] + D(b, j - 1) + F[j - 1][2] IN <<e % Base, Carry(e)>>]
  BY <1>6 DEF AddStep
<1> HIDE DEF F
<1>8. Carries(F, a, b, k)
  BY <1>7 DEF Carries
<1> QED BY <1>8 DEF F

\* mw_add adds, but for what is carried out of its last word.
LEMMA AddsWords ==
    ASSUME NEW n \in Nat, NEW a, DOMAIN a = 0 .. n - 1, NEW b,
           NEW A, PlaceSet(A), DigitsOf(a, n, A), NEW B, PlaceSet(B), DigitsOf(b, n, B)
    PROVE  \E C : /\ PlaceSet(C) /\ DigitsOf(mw_add(a, b), n, C) /\ DOMAIN mw_add(a, b) = 0 .. n - 1
                  /\ \E c \in Int : SumAt(C) = SumAt(Below(A, n * WordBits)) + SumAt(Below(B, n * WordBits))
                                               + 2 ^ (n * WordBits) * c
<1> DEFINE F == Chain(a, b, n)
           digit(k) == F[k + 1][1]
           X(k) == Num(WordAt(A, k))
           Y(k) == Num(WordAt(B, k))
           C == {i \in 0 .. n * WordBits - 1 : i % WordBits \in BitsOf(digit(i \div WordBits))}
           La(k) == SumAt(Below(A, k * WordBits))
           Lb(k) == SumAt(Below(B, k * WordBits))
           Lc(k) == SumAt(Below(C, k * WordBits))
           p(k)  == 2 ^ (k * WordBits)
<1>1. \A k \in Nat : X(k) \in Nat /\ X(k) < Base /\ Y(k) \in Nat /\ Y(k) < Base
  BY WordsOf
<1>2. \A k \in 0 .. n - 1 : a[k] = X(k) /\ D(b, k) = Y(k)
  BY DEF DigitsOf, D
<1>3. /\ F[0] = <<0, 0>>
      /\ \A k \in 0 .. n - 1 : F[k + 1] = <<(X(k) + Y(k) + F[k][2]) % Base, (X(k) + Y(k) + F[k][2]) \div Base>>
  <2>1. Numeric(a, b, n)
    <3> SUFFICES \A k \in 0 .. n - 1 : a[k] \in Nat /\ D(b, k) \in Nat
      BY DEF Numeric
    <3> TAKE k \in 0 .. n - 1
    <3>1. k \in Nat
      OBVIOUS
    <3> HIDE DEF X, Y
    <3> QED BY <1>1, <1>2, <3>1
  <2>2. F[0] = <<0, 0>>
    <3>1. 0 \in 0 .. n
      OBVIOUS
    <3> HIDE DEF F
    <3>2. Carries(F, a, b, 0)
      BY <2>1, <3>1, ChainStep DEF F
    <3> QED BY <3>2 DEF Carries
  <2>3. ASSUME NEW k \in 0 .. n - 1
        PROVE  F[k + 1] = <<(X(k) + Y(k) + F[k][2]) % Base, (X(k) + Y(k) + F[k][2]) \div Base>>
    <3> DEFINE j == k + 1
    <3>1. j \in 0 .. n /\ j # 0 /\ j - 1 = k
      OBVIOUS
    <3> HIDE DEF j
    <3>2. Carries(F, a, b, j)
      BY <2>1, <3>1, ChainStep
    <3> HIDE DEF F, X, Y
    <3> QED BY <1>2, <3>1, <3>2 DEF Carries, Carry, j
  <2> QED BY <2>2, <2>3
<1> HIDE DEF F, X, Y
<1>4. \A k \in 0 .. n : /\ F[k][2] \in {0, 1}
                        /\ k < n => /\ X(k) + Y(k) + F[k][2] \in Nat
                                    /\ digit(k) \in Nat /\ digit(k) < Base /\ F[k + 1][2] \in {0, 1}
                                    /\ X(k) + Y(k) + F[k][2] = Base * F[k + 1][2] + digit(k)
  <2> DEFINE P == {k \in Nat : k <= n => F[k][2] \in {0, 1}}
  <2>1. ASSUME NEW k \in 0 .. n - 1, F[k][2] \in {0, 1}
        PROVE  LET d == X(k) + Y(k) + F[k][2]
               IN  /\ d \in Nat /\ digit(k) \in Nat /\ digit(k) < Base /\ F[k + 1][2] \in {0, 1}
                   /\ d = Base * F[k + 1][2] + digit(k)
    <3> DEFINE d == X(k) + Y(k) + F[k][2]
               q == d \div Base
               e == d % Base
    <3>1. d \in Nat /\ d < 2 * Base
      <4>1. X(k) \in Nat /\ Y(k) \in Nat /\ X(k) < Base /\ Y(k) < Base
        <5>1. k \in Nat
          OBVIOUS
        <5> QED BY <1>1, <5>1
      <4> QED BY <2>1, <4>1, BaseType
    <3>2. F[k + 1][1] = e /\ F[k + 1][2] = q
      BY <1>3
    <3> HIDE DEF d
    <3>3. q \in Int /\ e \in Nat /\ e < Base /\ d = Base * q + e
      <4>1. d \in Int /\ Base \in Nat \ {0}
        BY <3>1, BaseType
      <4> QED BY <4>1, Divides, Zenon
    <3> HIDE DEF q, e
    <3>4. q \in {0, 1}
      <4>1. q >= 0
        <5> SUFFICES ASSUME q <= -1 PROVE FALSE
          BY <3>3
        <5>1. Base * q <= -Base
          BY <3>3, BaseType
        <5> QED BY <3>1, <3>3, <5>1, BaseType
      <4>2. q <= 1
        <5> SUFFICES ASSUME q >= 2 PROVE FALSE
          BY <3>3
        <5>1. Base * q >= 2 * Base
          BY <3>3, BaseType
        <5> QED BY <3>1, <3>3, <5>1, BaseType
      <4> QED BY <3>3, <4>1, <4>2
    <3> QED BY <3>1, <3>2, <3>3, <3>4 DEF d
  <2>2. 0 \in P
    BY <1>3
  <2>3. ASSUME NEW k \in Nat, k \in P PROVE k + 1 \in P
    BY <2>1, <2>3
  <2>4. Nat \subseteq P
    <3> HIDE DEF P
    <3> QED BY <2>2, <2>3, SetInduction
  <2>5. \A k \in 0 .. n : F[k][2] \in {0, 1}
    BY <2>4
  <2> HIDE DEF P
  <2> QED BY <2>1, <2>5
<1>5. n * WordBits \in Nat /\ C \subseteq 0 .. n * WordBits - 1
  BY WordBitsAssumption
<1>6. PlaceSet(C)
  <2> HIDE DEF C
  <2> QED BY <1>5, SumBound
<1>7. \A k \in 0 .. n - 1 : WordAt(C, k) = BitsOf(digit(k)) /\ Num(WordAt(C, k)) = digit(k)
  <2> TAKE k \in 0 .. n - 1
  <2>1. \A b1 \in Bit : k * WordBits + b1 \in C <=> b1 \in BitsOf(digit(k))
    <3> TAKE b1 \in Bit
    <3>1. /\ k \in Nat /\ k * WordBits + b1 \in Nat
          /\ (k * WordBits + b1) \div WordBits = k /\ (k * WordBits + b1) % WordBits = b1
      BY PlaceIs
    <3>2. k * WordBits + b1 < n * WordBits
      <4>1. k * WordBits + WordBits <= n * WordBits /\ k * WordBits \in Nat
        BY WordOrder
      <4> QED BY <1>5, <4>1, WordBitsAssumption DEF Bit
    <3> DEFINE i == k * WordBits + b1
    <3>3. i \in 0 .. n * WordBits - 1
      BY <1>5, <3>1, <3>2
    <3> HIDE DEF i, digit
    <3> QED BY <3>1, <3>3 DEF i
  <2>2. WordAt(C, k) = BitsOf(digit(k))
    <3>1. BitsOf(digit(k)) \subseteq Bit
      BY DEF BitsOf
    <3> HIDE DEF C, digit
    <3> QED BY <2>1, <3>1 DEF WordAt
  <2>3. digit(k) \in Nat /\ digit(k) < Base
    <3>1. k \in 0 .. n /\ k < n
      OBVIOUS
    <3> HIDE DEF digit, C
    <3> QED BY <1>4, <3>1
  <2> HIDE DEF C, digit
  <2> QED BY <2>2, <2>3, DigitIs
<1>8. DigitsOf(mw_add(a, b), n, C) /\ DOMAIN mw_add(a, b) = 0 .. n - 1
  <2>1. mw_add(a, b) = [k \in 0 .. n - 1 |-> digit(k)]
    BY AddIs DEF F
  <2> HIDE DEF C, digit
  <2> QED BY <1>7, <2>1 DEF DigitsOf
<1>9. \A k \in Nat : /\ La(k) \in Nat /\ Lb(k) \in Nat /\ Lc(k) \in Nat /\ p(k) \in Nat
                     /\ La(k + 1) = La(k) + p(k) * X(k) /\ Lb(k + 1) = Lb(k) + p(k) * Y(k)
                     /\ Lc(k + 1) = Lc(k) + p(k) * Num(WordAt(C, k)) /\ p(k + 1) = p(k) * Base
  <2> TAKE k \in Nat
  <2>1. k * WordBits \in Nat /\ (k + 1) * WordBits = k * WordBits + WordBits
    BY WordBitsAssumption
  <2>2. p(k) \in Nat /\ p(k + 1) = p(k) * Base
    BY <2>1, PowerAdds, PowerOfTwo, BaseType
  <2>3. La(k) \in Nat /\ Lb(k) \in Nat /\ Lc(k) \in Nat
    <3> HIDE DEF C
    <3> QED BY <1>6, <2>1, BelowType
  <2> HIDE DEF C, p
  <2> QED BY <1>6, <2>2, <2>3, NextWord DEF X, Y, p
<1>10. La(0) = 0 /\ Lb(0) = 0 /\ Lc(0) = 0 /\ p(0) = 1
  <2>1. 0 * WordBits = 0
    BY WordBitsAssumption
  <2>2. \A Z : PlaceSet(Z) => Below(Z, 0) = {}
    <3> SUFFICES ASSUME NEW Z, PlaceSet(Z), NEW i \in Z, i < 0 PROVE FALSE
      BY DEF Below
    <3> QED BY DEF PlaceSet
  <2>3. SumAt({}) = 0
    <3>1. PlaceSet({})
      BY FS_EmptySet DEF PlaceSet
    <3> QED BY <3>1, SumType
  <2> HIDE DEF C
  <2> QED BY <1>6, <2>1, <2>2, <2>3, PowerOfTwo
<1> HIDE DEF C, digit, La, Lb, Lc, p
<1>11. Lc(n) + p(n) * F[n][2] = La(n) + Lb(n)
  <2> DEFINE P == {k \in Nat : k <= n => Lc(k) + p(k) * F[k][2] = La(k) + Lb(k)}
  <2>1. 0 \in P
    BY <1>3, <1>10
  <2>2. ASSUME NEW k \in Nat, k \in P, k + 1 <= n PROVE Lc(k + 1) + p(k + 1) * F[k + 1][2] = La(k + 1) + Lb(k + 1)
    <3> DEFINE P0 == p(k)  c == F[k][2]  e == F[k + 1][2]  x == X(k)  y == Y(k)  t == digit(k)
               a0 == La(k)  b0 == Lb(k)  c0 == Lc(k)  a1 == La(k + 1)  b1 == Lb(k + 1)  c1 == Lc(k + 1)  P1 == p(k + 1)
    <3>1. k \in 0 .. n - 1 /\ k \in 0 .. n /\ k < n
      BY <2>2
    <3>2. c \in {0, 1} /\ e \in {0, 1} /\ t \in Nat /\ x + y + c = Base * e + t /\ x \in Nat /\ y \in Nat
      BY <1>1, <1>4, <3>1
    <3>3. /\ a0 \in Nat /\ b0 \in Nat /\ c0 \in Nat /\ P0 \in Nat
          /\ a1 = a0 + P0 * x /\ b1 = b0 + P0 * y /\ c1 = c0 + P0 * t /\ P1 = P0 * Base
      BY <1>7, <1>9, <3>1
    <3>4. c0 + P0 * c = a0 + b0
      BY <2>2
    <3> HIDE DEF P0, c, e, x, y, t, a0, b0, c0, a1, b1, c1, P1
    <3>5. P0 * x + P0 * y + P0 * c = P0 * Base * e + P0 * t
      <4>1. P0 * (x + y + c) = P0 * (Base * e + t)
        BY <3>2
      <4>2. P0 * (x + y + c) = P0 * x + P0 * y + P0 * c
        BY <3>2, <3>3
      <4>3. P0 * (Base * e + t) = P0 * Base * e + P0 * t
        BY <3>2, <3>3, BaseType
      <4> QED BY <4>1, <4>2, <4>3
    <3>6. c1 + P1 * e = a1 + b1
      <4> DEFINE m1 == P0 * x  m2 == P0 * y  m3 == P0 * c  m4 == P0 * Base * e  m5 == P0 * t
      <4>1. m1 \in Int /\ m2 \in Int /\ m3 \in Int /\ m4 \in Int /\ m5 \in Int
        BY <3>2, <3>3, BaseType
      <4>2. a1 = a0 + m1 /\ b1 = b0 + m2 /\ c1 = c0 + m5 /\ P1 * e = m4 /\ c0 + m3 = a0 + b0 /\ m1 + m2 + m3 = m4 + m5
        BY <3>3, <3>4, <3>5
      <4> HIDE DEF m1, m2, m3, m4, m5
      <4> QED BY <3>3, <4>1, <4>2
    <3> QED BY <3>6 DEF P1, c1, e, a1, b1
  <2>3. \A k \in Nat : k \in P => k + 1 \in P
    BY <2>2
  <2>4. n \in P
    <3> HIDE DEF P
    <3> QED BY <2>1, <2>3, SetInduction
  <2> QED BY <2>4
<1>12. Lc(n) = SumAt(C)
  <2>1. Below(C, n * WordBits) = C
    BY <1>5 DEF C, Below
  <2> QED BY <2>1 DEF Lc
<1>13. SumAt(C) = La(n) + Lb(n) + p(n) * (-F[n][2]) /\ -F[n][2] \in Int
  <2>1. F[n][2] \in {0, 1} /\ La(n) \in Nat /\ Lb(n) \in Nat /\ Lc(n) \in Nat /\ p(n) \in Nat
    BY <1>4, <1>9
  <2> QED BY SMTT(20), <1>11, <1>12, <2>1
<1> QED BY <1>6, <1>8, <1>13 DEF La, Lb, p

\* The ones of n places are 2 ^ n - 1, and those that are not in B are the rest.
Apart(B, n) == (0 .. n - 1) \ B

\* A number and its complement make all ones.
LEMMA ApartSum ==
    ASSUME NEW n \in Nat, NEW B
    PROVE  /\ PlaceSet(Apart(B, n)) /\ SumAt(Apart(B, n)) \in Nat
           /\ PlaceSet(Below(B, n)) => SumAt(Apart(B, n)) + SumAt(Below(B, n)) = 2 ^ n - 1
<1>1. Apart(B, n) \subseteq 0 .. n - 1 /\ Apart(B, n) \cap Below(B, n) = {}
  BY DEF Apart, Below
<1>2. PlaceSet(Apart(B, n)) /\ SumAt(Apart(B, n)) \in Nat
  BY <1>1, SumBound, SumType
<1>3. ASSUME PlaceSet(Below(B, n)) PROVE SumAt(Apart(B, n)) + SumAt(Below(B, n)) = 2 ^ n - 1
  <2>1. Apart(B, n) \cup Below(B, n) = 0 .. n - 1
    BY <1>3 DEF Apart, Below, PlaceSet
  <2>2. SumAt(0 .. n - 1) = 2 ^ n - 1
    <3>1. 0 \in Nat /\ 0 <= n
      OBVIOUS
    <3>2. SumAt(0 .. n - 1) = 2 ^ n - 2 ^ 0
      BY <3>1, SumOfSign, Zenon
    <3> QED BY <3>2, PowerOfTwo
  <2> QED BY <1>1, <1>2, <1>3, <2>1, <2>2, SumJoins
<1> QED BY <1>2, <1>3

\* The complement of every word is the complement of the number.
LEMMA ComplementDigits ==
    ASSUME NEW n \in Nat, NEW a, DOMAIN a = 0 .. n - 1, NEW B, PlaceSet(B), DigitsOf(a, n, B)
    PROVE  DigitsOf([k \in DOMAIN a |-> Base - 1 - a[k]], n, Apart(B, n * WordBits))
<1> DEFINE A == Apart(B, n * WordBits)
           c == [k \in DOMAIN a |-> Base - 1 - a[k]]
<1> SUFFICES ASSUME NEW k \in 0 .. n - 1 PROVE c[k] = Num(WordAt(A, k))
  BY DEF DigitsOf
<1>1. WordBits \in Nat /\ Bit = 0 .. WordBits - 1
  BY WordBitsAssumption DEF Bit
<1>2. \A b \in Bit : k * WordBits + b \in 0 .. n * WordBits - 1
  <2> TAKE b \in Bit
  <2>1. k * WordBits + b \in Nat
    BY PlaceIs
  <2>2. k * WordBits + WordBits <= n * WordBits /\ k * WordBits \in Nat /\ n * WordBits \in Nat
    BY <1>1, WordOrder
  <2> QED BY <1>1, <2>1, <2>2
<1>3. WordAt(A, k) = Apart(WordAt(B, k), WordBits)
  BY <1>1, <1>2 DEF WordAt, Apart
<1>4. Below(WordAt(B, k), WordBits) = WordAt(B, k)
  BY <1>1 DEF WordAt, Below
<1>5. SumAt(WordAt(A, k)) + SumAt(WordAt(B, k)) = Base - 1 /\ SumAt(WordAt(A, k)) \in Nat
  BY <1>1, <1>3, <1>4, WordsOf, ApartSum, BaseType
<1>6. a[k] = SumAt(WordAt(B, k)) /\ SumAt(WordAt(B, k)) \in Nat /\ Num(WordAt(A, k)) = SumAt(WordAt(A, k))
  BY WordsOf DEF DigitsOf
<1>7. c[k] = Base - 1 - a[k]
  OBVIOUS
<1> HIDE DEF A, c
<1> QED BY <1>5, <1>6, <1>7, BaseType

\* mw_one is 1.
LEMMA OneDigits ==
    ASSUME NEW n \in Nat
    PROVE  DigitsOf(mw_one(n), n, {0}) /\ PlaceSet({0}) /\ SumAt({0}) = 1
<1>1. PlaceSet({0}) /\ SumAt({0}) = 1
  <2>1. PlaceSet({})
    BY FS_EmptySet DEF PlaceSet
  <2>2. 0 \in Nat /\ 0 \notin {} /\ SumAt({}) = 0
    BY <2>1, SumType
  <2>4. PlaceSet({} \cup {0}) /\ SumAt({} \cup {0}) = SumAt({}) + 2 ^ 0
    BY <2>1, <2>2, SumAdds, Zenon
  <2>3. {} \cup {0} = {0}
    OBVIOUS
  <2>5. SumAt({} \cup {0}) = 1
    BY <2>2, <2>4, PowerOfTwo
  <2> QED BY <2>3, <2>4, <2>5
<1>2. ASSUME NEW k \in 0 .. n - 1 PROVE mw_one(n)[k] = Num(WordAt({0}, k))
  <2>1. mw_one(n)[k] = IF k = 0 THEN 1 ELSE 0
    BY DEF mw_one, Words
  <2>2. WordAt({0}, k) = IF k = 0 THEN {0} ELSE {}
    <3>1. \A b \in Bit : k * WordBits + b = 0 <=> k = 0 /\ b = 0
      <4> TAKE b \in Bit
      <4>1. WordBits \in Nat \ {0} /\ k * WordBits \in Nat /\ b \in Nat /\ (k # 0 => k * WordBits > 0)
        BY WordBitsAssumption DEF Bit
      <4>2. 0 * WordBits = 0
        BY <4>1
      <4> QED BY <4>1, <4>2
    <3>2. 0 \in Bit
      BY WordBitsAssumption DEF Bit
    <3> QED BY <3>1, <3>2 DEF WordAt
  <2>3. Num(WordAt({0}, k)) = SumAt(WordAt({0}, k)) /\ SumAt({}) = 0
    <3>1. PlaceSet({})
      BY FS_EmptySet DEF PlaceSet
    <3> QED BY <3>1, WordsOf, SumType
  <2> QED BY <1>1, <2>1, <2>2, <2>3
<1>3. DOMAIN mw_one(n) = 0 .. n - 1
  BY DEF mw_one, Words
<1> QED BY <1>1, <1>2, <1>3 DEF DigitsOf

\* mw_neg negates, but for multiples of what its words can hold.
LEMMA NegatesWords ==
    ASSUME NEW n \in Nat \ {0}, NEW a, DOMAIN a = 0 .. n - 1, NEW B, PlaceSet(B), DigitsOf(a, n, B)
    PROVE  \E C : /\ PlaceSet(C) /\ DigitsOf(mw_neg(a), n, C) /\ DOMAIN mw_neg(a) = 0 .. n - 1
                  /\ \E c \in Int : SumAt(C) = -SumAt(Below(B, n * WordBits)) + 2 ^ (n * WordBits) * c
<1> DEFINE m == n * WordBits
           A == Apart(B, m)
           d == [k \in DOMAIN a |-> Base - 1 - a[k]]
<1>1. m \in Nat \ {0} /\ 2 ^ m \in Nat
  BY WordBitsAssumption, PowerOfTwo
<1>2. mw_neg(a) = mw_add(d, mw_one(n)) /\ DOMAIN d = 0 .. n - 1
  <2>1. 0 \in Int /\ n - 1 \in Int
    OBVIOUS
  <2>2. Cardinality(DOMAIN a) = n
    BY <2>1, FS_Interval
  <2> QED BY <2>2 DEF mw_neg
<1>3. DigitsOf(d, n, A) /\ PlaceSet(A)
  BY <1>1, ComplementDigits, ApartSum
<1> HIDE DEF A, d
<1>4. PICK C : /\ PlaceSet(C) /\ DigitsOf(mw_neg(a), n, C) /\ DOMAIN mw_neg(a) = 0 .. n - 1
               /\ \E c \in Int : SumAt(C) = SumAt(Below(A, m)) + SumAt(Below({0}, m)) + 2 ^ m * c
  BY <1>2, <1>3, AddsWords, OneDigits
<1>5. PICK c \in Int : SumAt(C) = SumAt(Below(A, m)) + SumAt(Below({0}, m)) + 2 ^ m * c
  BY <1>4
<1> HIDE DEF m
<1>6. Below(A, m) = A /\ Below({0}, m) = {0}
  BY <1>1 DEF A, Apart, Below
<1>7. SumAt(A) + SumAt(Below(B, m)) = 2 ^ m - 1 /\ SumAt(A) \in Nat /\ SumAt(Below(B, m)) \in Nat
  BY <1>1, ApartSum, BelowType DEF A
<1>8. SumAt(C) = -SumAt(Below(B, m)) + 2 ^ m * (c + 1) /\ c + 1 \in Int
  <2>1. SumAt(C) = SumAt(A) + 1 + 2 ^ m * c
    BY <1>5, <1>6, OneDigits
  <2> DEFINE p == 2 ^ m  x == SumAt(A)  y == SumAt(Below(B, m))  z == SumAt(C)
  <2>2. p \in Nat /\ x + y = p - 1 /\ x \in Nat /\ y \in Nat /\ z = x + 1 + p * c
    BY <1>1, <1>7, <2>1
  <2> HIDE DEF p, x, y, z
  <2>3. p * (c + 1) = p * c + p
    BY <2>2
  <2>4. p * c \in Int
    BY <2>2
  <2>5. z = -y + p * (c + 1)
    BY <2>2, <2>3, <2>4
  <2> QED BY <2>5 DEF p, y, z
<1> QED BY <1>4, <1>8 DEF m

-----------------------------------------------------------------------------
(* Values that hold a number.                                              *)

\* The words of a width hold it.
LEMMA WordsHold ==
    ASSUME NEW w \in Nat
    PROVE  NWords(w) \in Nat \ {0} /\ NWords(w) * WordBits \in Nat /\ w <= NWords(w) * WordBits
<1> DEFINE n == NWords(w)
<1>1. n \in Nat \ {0} /\ (w # 0 => w <= (n - 1) * WordBits + WordBits) /\ WordBits \in Nat
  BY LastWord, WordBitsAssumption
<1> HIDE DEF n
<1>2. n * WordBits \in Nat /\ (n - 1) * WordBits + WordBits = n * WordBits
  BY <1>1
<1> QED BY <1>1, <1>2 DEF n

\* The digits of a known value are those of the number its ones make.
LEMMA HeldDigits ==
    ASSUME NEW v \in Values, ~HasUnknown(v)
    PROVE  /\ DOMAIN Digits(v) = 0 .. NWords(v.width) - 1
           /\ DigitsOf(Digits(v), NWords(v.width), OnesOf(v))
           /\ \A k \in 0 .. NWords(v.width) - 1 : v.val[k] = WordAt(OnesOf(v), k)
           /\ Below(OnesOf(v), NWords(v.width) * WordBits) = OnesOf(v)
<1> DEFINE w == v.width
           n == NWords(w)
           B == OnesOf(v)
<1>1. w \in Nat /\ v.val \in PlanesOf(w) /\ n \in Nat /\ Index(w) = 0 .. n - 1
  BY ValueParts, LastWord DEF Index
<1>2. DOMAIN v.val = 0 .. n - 1 /\ \A k \in 0 .. n - 1 : v.val[k] \subseteq Bit
  BY <1>1 DEF PlanesOf, Word
<1>3. \A i \in Nat : i \in B <=> Has(v.val, i)
  BY <1>1, OnesArePlane, PlaneOnesType
<1>4. B \subseteq 0 .. w - 1
  BY DEF OnesOf
<1> HIDE DEF B
<1>5. ASSUME NEW k \in 0 .. n - 1 PROVE v.val[k] = WordAt(B, k)
  <2>1. ASSUME NEW b \in Bit PROVE k * WordBits + b \in B <=> b \in v.val[k]
    <3>1. /\ k * WordBits + b \in Nat
          /\ (k * WordBits + b) \div WordBits = k /\ (k * WordBits + b) % WordBits = b
      BY PlaceIs
    <3>2. Has(v.val, k * WordBits + b) <=> b \in v.val[k]
      BY <1>2, <3>1 DEF Has, At
    <3> QED BY <1>3, <3>1, <3>2
  <2> QED BY <1>2, <2>1 DEF WordAt
<1>6. \A k \in 0 .. n - 1 : k \in DOMAIN Digits(v) /\ Digits(v)[k] = Num(v.val[k])
  BY <1>2 DEF Digits
<1>7. DOMAIN Digits(v) = 0 .. n - 1
  BY <1>2 DEF Digits
<1>8. Below(B, n * WordBits) = B
  <2>1. w <= n * WordBits /\ n * WordBits \in Nat
    BY <1>1, WordsHold
  <2>2. \A i \in 0 .. w - 1 : i < n * WordBits
    BY <1>1, <2>1
  <2> QED BY <1>4, <2>2 DEF Below
<1> QED BY <1>5, <1>6, <1>7, <1>8 DEF DigitsOf, B

\* A value made from digits holds, below its width, the number they are of.
LEMMA DigitsStand ==
    ASSUME NEW w \in Nat, NEW s \in BOOLEAN, NEW a, NEW C, PlaceSet(C), DigitsOf(a, NWords(w), C)
    PROVE  /\ Region(OfDigits(a, w, s), w, s)
           /\ \A i \in Nat : i < w => BitOf(OfDigits(a, w, s), i) = IF i \in C THEN "1" ELSE "0"
<1> DEFINE val == [k \in DOMAIN a |-> BitsOf(a[k])]
           v == Value(val, <<>>, w, s)
<1>1. Wordwise(val, w) /\ Wordwise(<<>>, w)
  BY DEF Wordwise, At, BitsOf
<1>2. OfDigits(a, w, s) = v
  BY DEF OfDigits
<1>3. ASSUME NEW i \in Nat, i < w PROVE Symbol(Has(val, i), Has(<<>>, i)) = IF i \in C THEN "1" ELSE "0"
  <2> DEFINE k == i \div WordBits  b == i % WordBits
  <2>1. k \in 0 .. NWords(w) - 1
    BY <1>3, BelowIsIn DEF Index
  <2>2. b \in Bit /\ i = k * WordBits + b
    BY PlaceOf
  <2>3. At(val, k) = BitsOf(a[k]) /\ a[k] = Num(WordAt(C, k))
    BY <2>1 DEF DigitsOf, At
  <2>4. At(val, k) = WordAt(C, k)
    BY <2>3, BitsOfNum, WordsOf
  <2>5. b \in WordAt(C, k) <=> i \in C
    <3> HIDE DEF k, b
    <3> QED BY <2>2 DEF WordAt
  <2>6. Has(val, i) <=> i \in C
    BY <2>4, <2>5 DEF Has
  <2>7. ~Has(<<>>, i)
    BY DEF Has, At
  <2> HIDE DEF val
  <2> QED BY <2>6, <2>7 DEF Symbol
<1> HIDE DEF val
<1>4. /\ v \in Values /\ v.width = w /\ v.signed = s
      /\ \A i \in Nat : i < w => BitOf(v, i) = Symbol(Has(val, i), Has(<<>>, i))
  BY <1>1, ValueBits
<1> HIDE DEF v
<1> QED BY <1>2, <1>3, <1>4 DEF Region

\* The words of a mask hold what is below it.
LEMMA MaskDigits ==
    ASSUME NEW w \in Nat, NEW a, NEW C, PlaceSet(C), DigitsOf(a, NWords(w), C)
    PROVE  DigitsOf(mw_mask(a, w), NWords(w), Below(C, w))
<1> DEFINE n == NWords(w)
           m == mw_mask(a, w)
<1> SUFFICES ASSUME NEW k \in 0 .. n - 1 PROVE k \in DOMAIN m /\ m[k] = Num(WordAt(Below(C, w), k))
  BY DEF DigitsOf
<1> DEFINE j == Mn(Mx(w - k * WordBits, 0), WordBits)
           X == WordAt(C, k)
           low == {b \in X : b < j}
           high == {i \in Nat : j + i \in X}
<1>1. k * WordBits \in Nat /\ WordBits \in Nat /\ Bit = 0 .. WordBits - 1
  BY WordBitsAssumption DEF Bit
<1>2. j \in Nat /\ \A b \in Bit : k * WordBits + b < w <=> b < j
  BY <1>1 DEF Mn, Mx
<1>3. WordAt(Below(C, w), k) = low
  <2> HIDE DEF j
  <2> QED BY <1>2 DEF WordAt, Below
<1>4. m[k] = Num(X) % 2 ^ j /\ k \in DOMAIN m
  <2>1. k \in DOMAIN a /\ a[k] = Num(X)
    BY DEF DigitsOf
  <2> QED BY <2>1 DEF mw_mask, Words, D
<1> HIDE DEF j, X, m
<1>5. PlaceSet(X) /\ Num(X) = SumAt(X)
  BY WordsOf DEF X
<1>6. /\ SumAt(low) \in Nat /\ SumAt(low) < 2 ^ j /\ SumAt(high) \in Nat
      /\ SumAt(X) = SumAt(low) + 2 ^ j * SumAt(high)
  BY <1>2, <1>5, Cut
<1>7. Num(WordAt(Below(C, w), k)) = SumAt(low)
  <2>1. Num(WordAt(Below(C, w), k)) = SumAt(WordAt(Below(C, w), k))
    BY WordsOf
  <2> QED BY <1>3, <2>1
<1>8. SumAt(X) % 2 ^ j = SumAt(low)
  <2> DEFINE p == 2 ^ j  e == SumAt(low)  h == SumAt(high)  x == SumAt(X)
  <2>1. p \in Nat \ {0} /\ e \in Nat /\ e < p /\ h \in Int /\ x = p * h + e
    BY <1>2, <1>6, PowerOfTwo
  <2> HIDE DEF p, e, h, x
  <2>2. x % p = e
    BY <2>1, DividedParts
  <2> QED BY <2>2 DEF p, e, x
<1> QED BY <1>4, <1>5, <1>7, <1>8

\* A value that holds the integer n, modulo 2 ^ its width.
Holds(v, w, s, n) ==
    Region(v, w, s) /\ \E C : /\ PlaceSet(C) /\ \E q \in Int : SumAt(C) = n + 2 ^ w * q
                              /\ \A i \in Nat : i < w => BitOf(v, i) = IF i \in C THEN "1" ELSE "0"

\* A value that holds a number has the bits of the number.
LEMMA HeldBits ==
    ASSUME NEW v, NEW w \in Nat, NEW s, NEW n \in Int, Holds(v, w, s, n)
    PROVE  /\ Region(v, w, s)
           /\ \A i \in Nat : i < w => BitOf(v, i) = IF (n \div 2 ^ i) % 2 = 1 THEN "1" ELSE "0"
<1>1. PICK C : /\ PlaceSet(C) /\ \E q \in Int : SumAt(C) = n + 2 ^ w * q
               /\ \A i \in Nat : i < w => BitOf(v, i) = IF i \in C THEN "1" ELSE "0"
  BY DEF Holds
<1>2. PICK q \in Int : SumAt(C) = n + 2 ^ w * q
  BY <1>1
<1>3. \A i \in Nat : i < w => (i \in C <=> (n \div 2 ^ i) % 2 = 1)
  BY <1>1, <1>2, BitIs
<1> QED BY <1>1, <1>3 DEF Holds

\* Integers that are the same modulo 2 ^ w.
Alike(x, y, w) == \E q \in Int : x = y + 2 ^ w * q

\* Numbers that agree modulo 2^w: an equivalence, kept by sums and negation.
LEMMA AlikeSteps ==
    ASSUME NEW w \in Nat, NEW x \in Int, NEW y \in Int
    PROVE  /\ Alike(x, y, w) => Alike(y, x, w) /\ Alike(-x, -y, w)
           /\ \A z \in Int : Alike(x, y, w) /\ Alike(y, z, w) => Alike(x, z, w)
           /\ \A u, v \in Int : Alike(x, y, w) /\ Alike(u, v, w) => Alike(x + u, y + v, w)
<1> DEFINE p == 2 ^ w
<1>1. p \in Int
  BY PowerOfTwo
<1> HIDE DEF p
<1>2. \A q, t \in Int : p * (-q) = -(p * q) /\ p * (q + t) = p * q + p * t /\ p * q \in Int
  BY <1>1
<1>3. ASSUME Alike(x, y, w) PROVE Alike(y, x, w) /\ Alike(-x, -y, w)
  <2>1. PICK q \in Int : x = y + p * q
    BY <1>3 DEF Alike, p
  <2> DEFINE m == p * q  k == p * (-q)
  <2>3. -q \in Int /\ m \in Int /\ k = -m /\ x = y + m
    BY <1>2, <2>1
  <2> HIDE DEF m, k
  <2>4. y = x + k /\ -x = -y + k
    BY <2>3
  <2>2. -q \in Int /\ y = x + p * (-q) /\ -x = -y + p * (-q)
    BY <2>3, <2>4 DEF k
  <2> QED BY <2>2 DEF Alike, p
<1>4. ASSUME NEW z \in Int, Alike(x, y, w), Alike(y, z, w) PROVE Alike(x, z, w)
  <2>1. PICK q \in Int : x = y + p * q
    BY <1>4 DEF Alike, p
  <2>2. PICK t \in Int : y = z + p * t
    BY <1>4 DEF Alike, p
  <2> DEFINE m == p * q  n == p * t  k == p * (q + t)
  <2>4. q + t \in Int /\ m \in Int /\ n \in Int /\ k = m + n /\ x = y + m /\ y = z + n
    BY <1>2, <2>1, <2>2
  <2> HIDE DEF m, n, k
  <2>5. x = z + k
    BY <2>4
  <2>3. q + t \in Int /\ x = z + p * (q + t)
    BY <2>4, <2>5 DEF k
  <2> QED BY <2>3 DEF Alike, p
<1>5. ASSUME NEW u \in Int, NEW v \in Int, Alike(x, y, w), Alike(u, v, w) PROVE Alike(x + u, y + v, w)
  <2>1. PICK q \in Int : x = y + p * q
    BY <1>5 DEF Alike, p
  <2>2. PICK t \in Int : u = v + p * t
    BY <1>5 DEF Alike, p
  <2> DEFINE m == p * q  n == p * t  k == p * (q + t)
  <2>4. q + t \in Int /\ m \in Int /\ n \in Int /\ k = m + n /\ x = y + m /\ u = v + n
    BY <1>2, <2>1, <2>2
  <2> HIDE DEF m, n, k
  <2>5. x + u = y + v + k
    BY <2>4
  <2>3. q + t \in Int /\ x + u = y + v + p * (q + t)
    BY <2>4, <2>5 DEF k
  <2> QED BY <2>3 DEF Alike, p
<1> QED BY <1>3, <1>4, <1>5

\* What agrees in m bits agrees in fewer.
LEMMA AlikeBelow ==
    ASSUME NEW m \in Nat, NEW w \in Nat, w <= m, NEW x \in Int, NEW y \in Int, Alike(x, y, m)
    PROVE  Alike(x, y, w)
<1> DEFINE p == 2 ^ w  t == 2 ^ (m - w)
<1>1. p \in Int /\ t \in Int /\ 2 ^ m = p * t
  <2>1. m - w \in Nat /\ m = w + (m - w)
    OBVIOUS
  <2> QED BY <2>1, PowerAdds, PowerOfTwo
<1>2. PICK q \in Int : x = y + 2 ^ m * q
  BY DEF Alike
<1>3. t * q \in Int /\ 2 ^ m * q = p * (t * q)
  <2>1. 2 ^ m * q = (p * t) * q
    BY <1>1
  <2> HIDE DEF p, t
  <2> QED BY <1>1, <2>1
<1>4. x = y + p * (t * q)
  BY <1>2, <1>3
<1> QED BY <1>3, <1>4 DEF Alike

\* A value made from the digits of a number holds every integer that is the same
\* modulo a power no smaller; the mask of the words changes nothing in that.
LEMMA DigitsHold ==
    ASSUME NEW w \in Nat, NEW s \in BOOLEAN, NEW a, NEW C, PlaceSet(C), DigitsOf(a, NWords(w), C),
           NEW n \in Int, NEW m \in Nat, w <= m, Alike(SumAt(C), n, m)
    PROVE  Holds(OfDigits(a, w, s), w, s, n) /\ Holds(OfDigits(mw_mask(a, w), w, s), w, s, n)
<1>1. \E q \in Int : SumAt(C) = n + 2 ^ w * q
  <2>1. SumAt(C) \in Int
    BY SumType
  <2> QED BY <2>1, AlikeBelow DEF Alike
<1>2. Holds(OfDigits(a, w, s), w, s, n)
  BY <1>1, DigitsStand DEF Holds
<1>6. PlaceSet(Below(C, w)) /\ DigitsOf(mw_mask(a, w), NWords(w), Below(C, w))
  BY MaskDigits, BelowType
<1>3. Region(OfDigits(mw_mask(a, w), w, s), w, s)
      /\ \A i \in Nat : i < w => BitOf(OfDigits(mw_mask(a, w), w, s), i) = IF i \in Below(C, w) THEN "1" ELSE "0"
  BY <1>6, DigitsStand
<1>4. \A i \in Nat : i < w => (i \in Below(C, w) <=> i \in C)
  BY DEF Below
<1>5. \A i \in Nat : i < w => BitOf(OfDigits(mw_mask(a, w), w, s), i) = IF i \in C THEN "1" ELSE "0"
  BY <1>3, <1>4
<1> QED BY <1>1, <1>2, <1>3, <1>5 DEF Holds

\* The library's sum of a function is such a sum.
LEMMA SumFunctionIs ==
    ASSUME NEW g
    PROVE  SumFunction(g) = SumOver(g, DOMAIN g)
<1> DEFINE S == DOMAIN g
           Lib(f) == [s \in SUBSET S |-> IF s = {} THEN 0
                        ELSE g[CHOOSE x \in s : TRUE] + f[s \ {CHOOSE x \in s : TRUE}]]
<1>1. SumFunction(g) = (CHOOSE f : f = Lib(f))[S]
  BY DEF SumFunction, SumFunctionOnSet, FoldFunctionOnSet, MapThenFoldSet
<1>2. \A f : Lib(f) = SumStep(f, g, S)
  BY DEF SumStep, Picked, Others
<1> HIDE DEF S, Lib
<1>3. SumFunction(g) = SumOver(g, S)
  BY <1>1, <1>2 DEF SumOver, Summing
<1> QED BY <1>3 DEF S

\* A word of a number, by division.
LEMMA WordDigit ==
    ASSUME NEW C, PlaceSet(C), NEW k \in Nat
    PROVE  (SumAt(C) \div 2 ^ (k * WordBits)) % Base = Num(WordAt(C, k))
<1> DEFINE j == k * WordBits
           low == {i \in C : i < j}
           high == {i \in Nat : j + i \in C}
           digit == {i \in high : i < WordBits}
           rest == {i \in Nat : WordBits + i \in high}
<1>1. j \in Nat /\ WordBits \in Nat /\ Base = 2 ^ WordBits /\ Base \in Nat \ {0} /\ 2 ^ j \in Nat \ {0}
  BY WordOrder, BaseType, PowerOfTwo
<1>2. PlaceSet(high) /\ SumAt(low) \in Nat /\ SumAt(low) < 2 ^ j /\ SumAt(high) \in Nat
      /\ SumAt(C) = SumAt(low) + 2 ^ j * SumAt(high)
  <2> HIDE DEF j
  <2> QED BY <1>1, Cut
<1>3. SumAt(digit) \in Nat /\ SumAt(digit) < 2 ^ WordBits /\ SumAt(rest) \in Nat
      /\ SumAt(high) = SumAt(digit) + 2 ^ WordBits * SumAt(rest)
  <2> HIDE DEF high
  <2> QED BY <1>1, <1>2, Cut
<1>4. digit = WordAt(C, k)
  <2>1. Bit \subseteq Nat /\ \A i \in Nat : i < WordBits <=> i \in Bit
    BY <1>1 DEF Bit
  <2> QED BY <2>1 DEF WordAt
<1>5. SumAt(C) \div 2 ^ j = SumAt(high)
  <2> DEFINE p == 2 ^ j  e == SumAt(low)  q == SumAt(high)  x == SumAt(C)
  <2>1. p \in Nat \ {0} /\ e \in Nat /\ e < p /\ q \in Int /\ x = p * q + e
    BY <1>1, <1>2
  <2> HIDE DEF p, e, q, x
  <2>2. x \div p = q
    BY <2>1, DividedParts
  <2> QED BY <2>2 DEF p, q, x
<1>6. SumAt(high) % Base = SumAt(digit)
  <2> DEFINE p == Base  e == SumAt(digit)  q == SumAt(rest)  x == SumAt(high)
  <2>1. p \in Nat \ {0} /\ e \in Nat /\ e < p /\ q \in Int /\ x = p * q + e
    BY <1>1, <1>3
  <2> HIDE DEF p, e, q, x
  <2>2. x % p = e
    BY <2>1, DividedParts
  <2> QED BY <2>2 DEF p, e, x
<1>7. SumAt(digit) = Num(WordAt(C, k))
  BY <1>4, WordsOf
<1> QED BY <1>5, <1>6, <1>7 DEF j

\* What the native lanes answer holds the integer they computed, however it wraps.
LEMMA LaneHolds ==
    ASSUME NEW n \in Int, NEW w \in Nat, w <= 2 * WordBits, NEW s \in BOOLEAN
    PROVE  Holds(OfLane(n, w, s), w, s, n)
<1> DEFINE m == 2 * WordBits
           a == [k \in {0, 1} |-> (Wrapped(n) \div 2 ^ (k * WordBits)) % Base]
<1>1. m \in Nat /\ WordBits \in Nat \ {0} /\ Lane = 2 ^ m /\ Lane \in Nat \ {0}
  <2>1. WordBits \in Nat \ {0} /\ m = WordBits + WordBits
    BY WordBitsAssumption
  <2>2. Lane = 2 ^ WordBits * 2 ^ WordBits
    BY DEF Lane, Base
  <2>3. 2 ^ (WordBits + WordBits) = 2 ^ WordBits * 2 ^ WordBits
    BY <2>1, PowerAdds
  <2>4. 2 ^ m \in Nat \ {0} /\ m \in Nat
    BY <2>1, PowerOfTwo
  <2> QED BY <2>1, <2>2, <2>3, <2>4
<1>2. Wrapped(n) \in Nat /\ Wrapped(n) < 2 ^ m /\ Alike(Wrapped(n), n, m)
  <2> DEFINE q == n \div Lane  e == n % Lane
  <2>1. q \in Int /\ e \in Nat /\ e < Lane /\ n = Lane * q + e
    BY <1>1, Divides, Zenon
  <2> HIDE DEF q, e
  <2>2. e = n + Lane * (-q) /\ -q \in Int
    <3> DEFINE x == Lane * q  y == Lane * (-q)
    <3>1. x \in Int /\ y = -x /\ n = x + e
      BY <1>1, <2>1
    <3> HIDE DEF x, y
    <3>2. e = n + y
      BY <2>1, <3>1
    <3> QED BY <2>1, <3>2 DEF y
  <2>3. Alike(e, n, m)
    BY <1>1, <2>2 DEF Alike
  <2> QED BY <1>1, <2>1, <2>3 DEF Wrapped, e
<1>3. PICK C \in SUBSET (0 .. m - 1) : PlaceSet(C) /\ SumAt(C) = Wrapped(n)
  BY <1>1, <1>2, EveryNumber
<1>4. NWords(w) - 1 \in {0, 1}
  <2> DEFINE k == NWords(w) - 1
  <2>1. k \in Nat /\ (w # 0 => k * WordBits < w) /\ (w = 0 => k = 0)
    BY LastWord
  <2> HIDE DEF k
  <2>2. k \in {0, 1}
    <3> SUFFICES ASSUME k >= 2 PROVE FALSE
      BY <2>1
    <3>1. k * WordBits >= 2 * WordBits
      BY <1>1, <2>1
    <3> QED BY <1>1, <2>1, <3>1
  <2> QED BY <2>2 DEF k
<1>5. DigitsOf(a, NWords(w), C)
  <2>1. \A k \in 0 .. NWords(w) - 1 : k \in {0, 1} /\ k \in Nat
    BY <1>4
  <2>2. \A k \in {0, 1} : a[k] = (SumAt(C) \div 2 ^ (k * WordBits)) % Base
    BY <1>3
  <2>3. DOMAIN a = {0, 1}
    OBVIOUS
  <2> HIDE DEF a
  <2> QED BY <1>3, <2>1, <2>2, <2>3, WordDigit DEF DigitsOf
<1>6. OfLane(n, w, s) = OfDigits(a, w, s)
  BY DEF OfLane
<1> HIDE DEF a, m
<1> QED BY <1>1, <1>2, <1>3, <1>5, <1>6, DigitsHold DEF m

\* The widest region a native lane serves.
LaneOf(s) == IF s THEN SignedLane ELSE UnsignedLane

Computed(o, a, b) == CASE o = "+" -> a + b [] o = "-" -> a - b [] o = "*" -> a * b
                       [] o = "/" -> Quot(a, b) [] o = "%" -> Rest(a, b)

-----------------------------------------------------------------------------
(* Products of words: mw_mul.                                              *)

\* A carry chain: each step adds to the carry of the one before.
CarryStep(f, e, n) ==
    [k \in 0 .. n |-> IF k = 0 THEN <<0, 0>>
                      ELSE LET d == e[k - 1] + f[k - 1][2] IN <<d % Base, d \div Base>>]

Carried(e, n) == CHOOSE f : f = CarryStep(f, e, n)

\* A chain of carries splits every sum into a word and a carry.
LEMMA CarryChain ==
    ASSUME NEW n \in Nat, NEW e, \A k \in 0 .. n - 1 : e[k] \in Nat
    PROVE  LET F == Carried(e, n)
           IN  /\ F[0] = <<0, 0>> /\ \A k \in 0 .. n : F[k][2] \in Nat
               /\ \A k \in 0 .. n - 1 :
                     /\ F[k + 1] = <<(e[k] + F[k][2]) % Base, (e[k] + F[k][2]) \div Base>>
                     /\ F[k + 1][1] \in Nat /\ F[k + 1][1] < Base
                     /\ e[k] + F[k][2] = Base * F[k + 1][2] + F[k + 1][1]
<1> DEFINE S == Nat \X Nat
           At0(j) == IF j \in 0 .. n - 1 THEN e[j] ELSE 0
           d(p) == At0(p[1] - 1) + p[2][2]
           H == [p \in Nat \X S |-> <<d(p) % Base, d(p) \div Base>>]
           z == <<0, 0>>
<1>1. ASSUME NEW j \in Nat, NEW x \in S PROVE H[<<j, x>>] \in S
  <2> DEFINE t == d(<<j, x>>)
  <2>1. t \in Nat
    <3>1. At0(j - 1) \in Nat /\ x[2] \in Nat
      OBVIOUS
    <3> HIDE DEF At0
    <3> QED BY <3>1
  <2>2. H[<<j, x>>] = <<t % Base, t \div Base>>
    BY Zenon
  <2>3. t % Base \in Nat /\ t \div Base \in Nat
    <3> HIDE DEF d, t
    <3> QED BY <2>1, BaseType
  <2> HIDE DEF t, H
  <2> QED BY <2>2, <2>3
<1>2. z \in S
  OBVIOUS
<1>3. PICK f \in [0 .. n -> S] : Solves(f, n, z, H)
  <2> HIDE DEF H, S, z
  <2>1. Stays(H, S)
    BY <1>1 DEF Stays
  <2> QED BY <1>2, <2>1, Recursion
<1>4. ASSUME NEW j \in 0 .. n, j # 0
      PROVE  H[<<j, f[j - 1]>>] = LET t == e[j - 1] + f[j - 1][2] IN <<t % Base, t \div Base>>
  <2>1. j \in Nat /\ j - 1 \in 0 .. n - 1 /\ j - 1 \in 0 .. n
    BY <1>4
  <2>2. f[j - 1] \in S
    BY <2>1
  <2>3. H[<<j, f[j - 1]>>] = <<d(<<j, f[j - 1]>>) % Base, d(<<j, f[j - 1]>>) \div Base>>
    <3>1. <<j, f[j - 1]>> \in Nat \X S
      BY <2>1, <2>2
    <3> HIDE DEF d, S
    <3> QED BY <3>1
  <2>4. d(<<j, f[j - 1]>>) = e[j - 1] + f[j - 1][2]
    BY <2>1
  <2> HIDE DEF d, H
  <2> QED BY <2>3, <2>4
<1>5. f = CarryStep(f, e, n)
  <2>1. f = [j \in 0 .. n |-> f[j]]
    OBVIOUS
  <2>2. \A j \in 0 .. n : f[j] = IF j = 0 THEN <<0, 0>>
                      ELSE LET t == e[j - 1] + f[j - 1][2] IN <<t % Base, t \div Base>>
    <3> HIDE DEF H, S
    <3> QED BY <1>3, <1>4, Zenon DEF Solves
  <2> QED BY <2>1, <2>2 DEF CarryStep
<1>6. Carried(e, n) = CarryStep(Carried(e, n), e, n)
  BY <1>5 DEF Carried
<1> HIDE DEF H, S, d, At0
<1> DEFINE F == Carried(e, n)
<1>7. \A k \in 0 .. n : F[k] = IF k = 0 THEN <<0, 0>>
                      ELSE LET t == e[k - 1] + F[k - 1][2] IN <<t % Base, t \div Base>>
  <2> HIDE DEF F
  <2>1. F = CarryStep(F, e, n)
    BY <1>6 DEF F
  <2> QED BY <2>1 DEF CarryStep
<1> HIDE DEF F
<1>8. F[0] = <<0, 0>>
  <2>1. 0 \in 0 .. n
    OBVIOUS
  <2> QED BY <1>7, <2>1, Zenon
<1>9. \A k \in 0 .. n - 1 : F[k + 1] = <<(e[k] + F[k][2]) % Base, (e[k] + F[k][2]) \div Base>>
  <2> TAKE k \in 0 .. n - 1
  <2> DEFINE j == k + 1
  <2>1. j \in 0 .. n /\ j # 0 /\ j - 1 = k
    OBVIOUS
  <2> HIDE DEF j
  <2>2. F[j] = LET t == e[j - 1] + F[j - 1][2] IN <<t % Base, t \div Base>>
    BY <1>7, <2>1
  <2> QED BY <2>1, <2>2 DEF j
<1>10. ASSUME NEW k \in 0 .. n - 1, F[k][2] \in Nat
       PROVE  /\ F[k + 1][2] \in Nat /\ F[k + 1][1] \in Nat /\ F[k + 1][1] < Base
              /\ e[k] + F[k][2] = Base * F[k + 1][2] + F[k + 1][1]
  <2> DEFINE t == e[k] + F[k][2]
  <2>1. t \in Nat
    BY <1>10
  <2>2. F[k + 1][1] = t % Base /\ F[k + 1][2] = t \div Base
    BY <1>9
  <2> HIDE DEF t
  <2>3. t \div Base \in Nat /\ t % Base \in Nat /\ t % Base < Base /\ t = Base * (t \div Base) + (t % Base)
    <3>1. t \div Base \in Int /\ t % Base \in Nat /\ t % Base < Base /\ t = Base * (t \div Base) + (t % Base)
      <4>1. t \in Int /\ Base \in Nat \ {0}
        BY <2>1, BaseType
      <4> QED BY <4>1, Divides, Zenon
    <3>2. t \div Base \in Nat
      BY <2>1, BaseType
    <3> QED BY <3>1, <3>2
  <2> QED BY <2>2, <2>3 DEF t
<1>11. \A k \in 0 .. n : F[k][2] \in Nat
  <2> DEFINE P == {k \in Nat : k <= n => F[k][2] \in Nat}
  <2>1. 0 \in P
    BY <1>8
  <2>2. \A k \in Nat : k \in P => k + 1 \in P
    BY <1>10
  <2>3. Nat \subseteq P
    <3> HIDE DEF P
    <3> QED BY <2>1, <2>2, SetInduction
  <2> QED BY <2>3
<1> QED BY SMTT(20), <1>8, <1>9, <1>10, <1>11 DEF F

\* The places an array of digits stands for.
PlacesOf(a, n) == {i \in 0 .. n * WordBits - 1 : i % WordBits \in BitsOf(a[i \div WordBits])}

\* An array of words below the base has its places.
LEMMA DigitSet ==
    ASSUME NEW n \in Nat, NEW a, DOMAIN a = 0 .. n - 1, \A k \in 0 .. n - 1 : a[k] \in Nat /\ a[k] < Base
    PROVE  LET C == PlacesOf(a, n)
           IN  /\ PlaceSet(C) /\ Below(C, n * WordBits) = C /\ DigitsOf(a, n, C)
<1> DEFINE C == PlacesOf(a, n)
<1>1. n * WordBits \in Nat /\ C \subseteq 0 .. n * WordBits - 1
  BY WordBitsAssumption DEF PlacesOf
<1>2. PlaceSet(C) /\ Below(C, n * WordBits) = C
  <2> HIDE DEF C
  <2>1. \A i \in C : i < n * WordBits
    BY <1>1
  <2> QED BY <1>1, <2>1, SumBound DEF Below
<1>3. \A k \in 0 .. n - 1 : Num(WordAt(C, k)) = a[k]
  <2> TAKE k \in 0 .. n - 1
  <2>1. \A b1 \in Bit : k * WordBits + b1 \in C <=> b1 \in BitsOf(a[k])
    <3> TAKE b1 \in Bit
    <3>1. /\ k \in Nat /\ k * WordBits + b1 \in Nat
          /\ (k * WordBits + b1) \div WordBits = k /\ (k * WordBits + b1) % WordBits = b1
      BY PlaceIs
    <3>2. k * WordBits + b1 < n * WordBits
      <4>1. k * WordBits + WordBits <= n * WordBits /\ k * WordBits \in Nat
        BY WordOrder
      <4> QED BY <1>1, <4>1, WordBitsAssumption DEF Bit
    <3> DEFINE i == k * WordBits + b1
    <3>3. i \in 0 .. n * WordBits - 1
      BY <1>1, <3>1, <3>2
    <3> HIDE DEF i
    <3> QED BY <3>1, <3>3 DEF i, PlacesOf
  <2>2. WordAt(C, k) = BitsOf(a[k])
    <3>1. BitsOf(a[k]) \subseteq Bit
      BY DEF BitsOf
    <3> HIDE DEF C
    <3> QED BY <2>1, <3>1 DEF WordAt
  <2> HIDE DEF C
  <2> QED BY <2>2, DigitIs
<1> QED BY <1>2, <1>3 DEF DigitsOf

\* What the first words of a set of places add up to.
Low(C, k) == SumAt(Below(C, k * WordBits))

Place(k)  == 2 ^ (k * WordBits)

\* What is below word k of a number, by counting words.
LEMMA LowSteps ==
    ASSUME NEW C, PlaceSet(C), NEW k \in Nat
    PROVE  /\ Low(C, k) \in Nat /\ Place(k) \in Nat /\ Low(C, 0) = 0 /\ Place(0) = 1
           /\ Place(k + 1) = Place(k) * Base
           /\ Low(C, k + 1) = Low(C, k) + Place(k) * Num(WordAt(C, k))
           /\ Num(WordAt(C, k)) \in Nat /\ Num(WordAt(C, k)) < Base
<1>1. k * WordBits \in Nat /\ (k + 1) * WordBits = k * WordBits + WordBits /\ 0 * WordBits = 0
  BY WordBitsAssumption
<1>2. Place(k) \in Nat /\ Place(k + 1) = Place(k) * Base /\ Place(0) = 1
  BY <1>1, PowerAdds, PowerOfTwo, BaseType DEF Place
<1>3. Low(C, 0) = 0
  <2>1. Below(C, 0) = {}
    <3> SUFFICES ASSUME NEW i \in C, i < 0 PROVE FALSE
      BY DEF Below
    <3> QED BY DEF PlaceSet
  <2>2. SumAt({}) = 0
    <3>1. PlaceSet({})
      BY FS_EmptySet DEF PlaceSet
    <3> QED BY <3>1, SumType
  <2> QED BY <1>1, <2>1, <2>2 DEF Low
<1>4. Low(C, k) \in Nat
  BY <1>1, BelowType DEF Low
<1>5. Low(C, k + 1) = Low(C, k) + Place(k) * Num(WordAt(C, k))
  BY NextWord DEF Low, Place
<1> QED BY <1>2, <1>3, <1>4, <1>5, WordsOf

\* The weight of a word that is i + j words up.
LEMMA PlaceAdds ==
    ASSUME NEW i \in Nat, NEW j \in Nat
    PROVE  Place(i + j) = Place(i) * Place(j)
<1>1. i * WordBits \in Nat /\ j * WordBits \in Nat /\ (i + j) * WordBits = i * WordBits + j * WordBits
  BY WordBitsAssumption
<1> QED BY <1>1, PowerAdds DEF Place

\* The same digits make the same number.
LEMMA LowSame ==
    ASSUME NEW C, PlaceSet(C), NEW O, PlaceSet(O), NEW n \in Nat,
           \A k \in 0 .. n - 1 : Num(WordAt(C, k)) = Num(WordAt(O, k))
    PROVE  Low(C, n) = Low(O, n)
<1> DEFINE P == {k \in Nat : k <= n => Low(C, k) = Low(O, k)}
<1>1. 0 \in P
  BY LowSteps
<1>2. ASSUME NEW k \in Nat, k \in P PROVE k + 1 \in P
  <2> SUFFICES ASSUME k + 1 <= n PROVE Low(C, k + 1) = Low(O, k + 1)
    OBVIOUS
  <2>1. Low(C, k) = Low(O, k) /\ Num(WordAt(C, k)) = Num(WordAt(O, k))
    BY <1>2
  <2> QED BY <2>1, LowSteps
<1>3. n \in P
  <2> HIDE DEF P
  <2> QED BY <1>1, <1>2, SetInduction
<1> QED BY <1>3

\* A row of the school multiplication.
CellStep(f, a, b, out, i, n) ==
    [j \in 0 .. n - i |-> IF j = 0 THEN <<0, 0>>
                          ELSE LET cur == a[i] * D(b, j - 1) + out[i + j - 1] + f[j - 1][2]
                               IN  <<cur % Base, cur \div Base>>]

Cells(a, b, out, i, n) == CHOOSE f : f = CellStep(f, a, b, out, i, n)

RowOf(a, b, out, i, n) ==
    [k \in Words(n) |-> IF k < i THEN out[k] ELSE Cells(a, b, out, i, n)[k - i + 1][1]]

RowStep(f, a, b, n) ==
    [i \in 0 .. n |-> IF i = 0 THEN mw_zero(n)
                      ELSE IF i - 1 \notin DOMAIN a THEN f[i - 1] ELSE RowOf(a, b, f[i - 1], i - 1, n)]

Rows(a, b, n) == CHOOSE f : f = RowStep(f, a, b, n)

\* mw_mul is its last row.
LEMMA MulIs ==
    ASSUME NEW a, NEW b, NEW n
    PROVE  mw_mul(a, b, n) = Rows(a, b, n)[n]
BY DEF mw_mul, Rows, RowStep, RowOf, Cells, CellStep

\* Arrays of n digits.
DigitArray(a, n) == DOMAIN a = 0 .. n - 1 /\ \A k \in 0 .. n - 1 : a[k] \in Nat /\ a[k] < Base

\* The words of a number are an array of words below the base.
LEMMA ArrayDigits ==
    ASSUME NEW n \in Nat, NEW a, DOMAIN a = 0 .. n - 1, NEW B, DigitsOf(a, n, B)
    PROVE  DigitArray(a, n) /\ \A k \in 0 .. n - 1 : a[k] = Num(WordAt(B, k))
BY WordsOf DEF DigitArray, DigitsOf

\* What a row adds to its cells, before the carries.
CellSum(a, b, out, i, n) == [j \in 0 .. n - i - 1 |-> a[i] * D(b, j) + out[i + j]]

\* A row of mw_mul is a chain of carries over products.
LEMMA CellsAre ==
    ASSUME NEW n \in Nat, NEW i \in 0 .. n - 1, NEW a, NEW b, NEW out,
           DigitArray(a, n), DigitArray(b, n), DigitArray(out, n)
    PROVE  LET e == CellSum(a, b, out, i, n)
           IN  /\ Cells(a, b, out, i, n) = Carried(e, n - i)
               /\ \A j \in 0 .. n - i - 1 : e[j] = a[i] * b[j] + out[i + j] /\ e[j] \in Nat
<1> DEFINE e == CellSum(a, b, out, i, n)
<1>1. \A j \in 0 .. n - i - 1 : e[j] = a[i] * b[j] + out[i + j] /\ e[j] \in Nat
  <2> TAKE j \in 0 .. n - i - 1
  <2>1. j \in 0 .. n - 1 /\ i + j \in 0 .. n - 1
    OBVIOUS
  <2>2. a[i] \in Nat /\ D(b, j) = b[j] /\ b[j] \in Nat /\ out[i + j] \in Nat
    BY <2>1 DEF DigitArray, D
  <2>3. e[j] = a[i] * b[j] + out[i + j]
    BY <2>2 DEF CellSum
  <2> DEFINE x == a[i]  y == b[j]  u == out[i + j]
  <2>4. x * y + u \in Nat
    <3>1. x \in Nat /\ y \in Nat /\ u \in Nat
      BY <2>2
    <3> HIDE DEF x, y, u
    <3> QED BY <3>1
  <2> QED BY <2>3, <2>4
<1>2. ASSUME NEW f PROVE CellStep(f, a, b, out, i, n) = CarryStep(f, e, n - i)
  <2>1. ASSUME NEW j \in 0 .. n - i, j # 0
        PROVE  a[i] * D(b, j - 1) + out[i + j - 1] + f[j - 1][2] = e[j - 1] + f[j - 1][2]
    <3>1. j - 1 \in 0 .. n - i - 1 /\ i + j - 1 = i + (j - 1)
      BY <2>1
    <3>2. e[j - 1] = a[i] * D(b, j - 1) + out[i + (j - 1)]
      BY <3>1 DEF CellSum
    <3> QED BY <3>1, <3>2
  <2> HIDE DEF e
  <2> QED BY <2>1 DEF CellStep, CarryStep
<1>3. Cells(a, b, out, i, n) = Carried(e, n - i)
  <2> HIDE DEF e
  <2> QED BY <1>2 DEF Cells, Carried
<1> QED BY <1>1, <1>3

\* A row adds one digit of a times b at its place, modulo the words there are.
LEMMA RowAdds ==
    ASSUME NEW n \in Nat, NEW i \in 0 .. n - 1, NEW a, NEW b, NEW out,
           DigitArray(a, n), DigitArray(b, n), DigitArray(out, n),
           NEW B, PlaceSet(B), DigitsOf(b, n, B), NEW O, PlaceSet(O), DigitsOf(out, n, O)
    PROVE  LET R == RowOf(a, b, out, i, n)
               C == PlacesOf(R, n)
           IN  /\ DigitArray(R, n) /\ PlaceSet(C) /\ DigitsOf(R, n, C)
               /\ \E c \in Nat : Low(C, n) + Place(n) * c = Low(O, n) + Place(i) * a[i] * Low(B, n - i)
<1> DEFINE R == RowOf(a, b, out, i, n)
           C == PlacesOf(R, n)
           e == CellSum(a, b, out, i, n)
           F == Carried(e, n - i)
           m == n - i
<1>1. m \in Nat /\ i \in Nat /\ i + m = n
  OBVIOUS
<1>2. /\ Cells(a, b, out, i, n) = F
      /\ \A j \in 0 .. m - 1 : e[j] = a[i] * b[j] + out[i + j] /\ e[j] \in Nat
  BY CellsAre
<1> HIDE DEF e
<1>3. /\ F[0] = <<0, 0>> /\ \A k \in 0 .. m : F[k][2] \in Nat
      /\ \A k \in 0 .. m - 1 : /\ F[k + 1][1] \in Nat /\ F[k + 1][1] < Base
                               /\ e[k] + F[k][2] = Base * F[k + 1][2] + F[k + 1][1]
  <2> HIDE DEF m
  <2> QED BY <1>1, <1>2, CarryChain DEF m
<1> HIDE DEF F
<1>4. /\ DOMAIN R = 0 .. n - 1 /\ \A k \in 0 .. i - 1 : R[k] = out[k]
      /\ \A j \in 0 .. m - 1 : R[i + j] = F[j + 1][1]
  <2>1. R = [k \in 0 .. n - 1 |-> IF k < i THEN out[k] ELSE F[k - i + 1][1]]
    BY <1>2 DEF RowOf, Words
  <2>2. ASSUME NEW j \in 0 .. m - 1 PROVE R[i + j] = F[j + 1][1]
    <3>1. i + j \in 0 .. n - 1 /\ ~(i + j < i) /\ (i + j) - i + 1 = j + 1
      BY <1>1
    <3> DEFINE k == i + j
    <3> HIDE DEF R, k
    <3>2. R[k] = F[k - i + 1][1]
      BY <2>1, <3>1 DEF k
    <3> QED BY <3>1, <3>2 DEF k
  <2>3. ASSUME NEW k \in 0 .. i - 1 PROVE R[k] = out[k]
    <3>1. k \in 0 .. n - 1 /\ k < i
      BY <1>1
    <3> HIDE DEF R
    <3> QED BY <2>1, <3>1
  <2> HIDE DEF R
  <2> QED BY <2>1, <2>2, <2>3
<1> HIDE DEF R
<1>5. DigitArray(R, n)
  <2>1. ASSUME NEW k \in 0 .. n - 1 PROVE R[k] \in Nat /\ R[k] < Base
    <3>1. CASE k < i
      <4>1. k \in 0 .. i - 1
        BY <3>1
      <4> QED BY <1>4, <4>1 DEF DigitArray
    <3>2. CASE ~(k < i)
      <4> DEFINE j == k - i
      <4>1. j \in 0 .. m - 1 /\ i + j = k
        BY <1>1, <3>2
      <4> HIDE DEF j
      <4> QED BY <1>3, <1>4, <4>1
    <3> QED BY <3>1, <3>2
  <2> QED BY <1>4, <2>1 DEF DigitArray
<1>6. PlaceSet(C) /\ DigitsOf(R, n, C)
  BY <1>5, DigitSet DEF DigitArray
<1> HIDE DEF C
<1>7. /\ \A k \in 0 .. n - 1 : /\ Num(WordAt(C, k)) = R[k] /\ Num(WordAt(O, k)) = out[k]
                               /\ Num(WordAt(B, k)) = b[k]
  BY <1>6 DEF DigitsOf
<1>8. Low(C, i) = Low(O, i)
  <2>1. \A k \in 0 .. i - 1 : Num(WordAt(C, k)) = Num(WordAt(O, k))
    <3> TAKE k \in 0 .. i - 1
    <3>1. k \in 0 .. n - 1
      BY <1>1
    <3> QED BY <1>4, <1>7, <3>1
  <2> QED BY <1>1, <1>6, <2>1, LowSame
<1> DEFINE T(j) == Low(C, i + j) + Place(i + j) * F[j][2] = Low(O, i + j) + Place(i) * a[i] * Low(B, j)
<1>9. T(0)
  <2>1. i + 0 = i /\ F[0][2] = 0 /\ Low(B, 0) = 0 /\ Low(O, i) \in Nat /\ Place(i) \in Nat /\ a[i] \in Nat
    <3>1. i + 0 = i /\ F[0][2] = 0 /\ a[i] \in Nat
      BY <1>1, <1>3 DEF DigitArray
    <3>2. Low(B, 0) = 0 /\ Low(O, i) \in Nat /\ Place(i) \in Nat
      BY <1>1, LowSteps, Zenon
    <3> QED BY <3>1, <3>2
  <2> HIDE DEF F
  <2> QED BY <1>8, <2>1
<1>10. ASSUME NEW j \in 0 .. m - 1, T(j) PROVE T(j + 1)
  <2> DEFINE P0 == Place(i + j)  P1 == Place(i + (j + 1))  p == Place(i)  q == Place(j)
             c == F[j][2]  c1 == F[j + 1][2]  t == F[j + 1][1]  x == a[i]  y == b[j]  u == out[i + j]
             r0 == Low(C, i + j)  r1 == Low(C, i + (j + 1))  o0 == Low(O, i + j)  o1 == Low(O, i + (j + 1))
             b0 == Low(B, j)  b1 == Low(B, j + 1)
  <2>1. j \in Nat /\ i + j \in Nat /\ i + j \in 0 .. n - 1 /\ (i + j) + 1 = i + (j + 1) /\ j \in 0 .. n - 1
        /\ j \in 0 .. m /\ j + 1 \in 0 .. m
    BY <1>1
  <2>2. P0 \in Nat /\ P1 = P0 * Base /\ p \in Nat /\ q \in Nat /\ P0 = p * q
    BY <1>1, <1>6, <2>1, LowSteps, PlaceAdds
  <2>3. /\ r0 \in Nat /\ o0 \in Nat /\ b0 \in Nat
        /\ r1 = r0 + P0 * t /\ o1 = o0 + P0 * u /\ b1 = b0 + q * y
    <3>1. Num(WordAt(C, i + j)) = t /\ Num(WordAt(O, i + j)) = u /\ Num(WordAt(B, j)) = y
      BY <1>4, <1>7, <2>1
    <3>2. /\ Low(C, i + j) \in Nat
          /\ Low(C, (i + j) + 1) = Low(C, i + j) + Place(i + j) * Num(WordAt(C, i + j))
      BY <1>6, <2>1, LowSteps, Zenon
    <3>3. /\ Low(O, i + j) \in Nat
          /\ Low(O, (i + j) + 1) = Low(O, i + j) + Place(i + j) * Num(WordAt(O, i + j))
      BY <2>1, LowSteps, Zenon
    <3>4. Low(B, j) \in Nat /\ Low(B, j + 1) = Low(B, j) + Place(j) * Num(WordAt(B, j))
      BY <2>1, LowSteps, Zenon
    <3>5. o1 = Low(O, (i + j) + 1) /\ r1 = Low(C, (i + j) + 1)
      BY <2>1
    <3> HIDE DEF t, u, y
    <3>6. r1 = r0 + P0 * t
      BY <3>1, <3>2, <3>5, Zenon
    <3>7. o1 = o0 + P0 * u
      BY <3>1, <3>3, <3>5, Zenon
    <3>8. b1 = b0 + q * y
      BY <3>1, <3>4, Zenon
    <3> QED BY <3>2, <3>3, <3>4, <3>6, <3>7, <3>8
  <2>4. /\ x \in Nat /\ y \in Nat /\ u \in Nat /\ c \in Nat /\ c1 \in Nat /\ t \in Nat
        /\ x * y + u + c = Base * c1 + t
    <3>1. x \in Nat /\ y \in Nat /\ u \in Nat
      BY <2>1 DEF DigitArray
    <3>2. c \in Nat /\ c1 \in Nat /\ t \in Nat /\ e[j] + c = Base * c1 + t /\ e[j] = x * y + u
      BY <1>2, <1>3, <2>1
    <3> QED BY <3>1, <3>2
  <2>5. r0 + P0 * c = o0 + p * x * b0
    BY <1>10
  <2> HIDE DEF P0, P1, p, q, c, c1, t, x, y, u, r0, r1, o0, o1, b0, b1
  <2>6. P0 * (x * y) + P0 * u + P0 * c = P0 * Base * c1 + P0 * t
    <3>1. P0 * (x * y + u + c) = P0 * (Base * c1 + t)
      BY <2>4
    <3> DEFINE z == x * y  d == Base * c1
    <3>2. z \in Nat /\ d \in Nat
      BY <2>4, BaseType
    <3>3. P0 * (z + u + c) = P0 * z + P0 * u + P0 * c /\ P0 * (d + t) = P0 * d + P0 * t
      <4> HIDE DEF z, d
      <4> QED BY <2>2, <2>4, <3>2
    <3>4. P0 * d = P0 * Base * c1
      BY <2>2, <2>4, BaseType
    <3> QED BY <3>1, <3>3, <3>4
  <2>7. p * x * b1 = p * x * b0 + P0 * (x * y)
    <3> DEFINE z == p * x  d == q * y
    <3>1. z \in Nat /\ d \in Nat
      BY <2>2, <2>4
    <3>2. z * (b0 + d) = z * b0 + z * d
      <4> HIDE DEF z, d
      <4> QED BY <2>3, <3>1
    <3>3. z * d = (p * q) * (x * y)
      BY <2>2, <2>4
    <3> QED BY <2>2, <2>3, <3>2, <3>3
  <2>8. r1 + P1 * c1 = o1 + p * x * b1
    <3> DEFINE m1 == P0 * (x * y)  m2 == P0 * u  m3 == P0 * c  m4 == P0 * Base * c1  m5 == P0 * t
               m6 == p * x * b0  m7 == p * x * b1
    <3>1. m1 \in Int /\ m2 \in Int /\ m3 \in Int /\ m4 \in Int /\ m5 \in Int /\ m6 \in Int /\ m7 \in Int
      <4>1. b1 \in Nat /\ x * y \in Nat /\ p * x \in Nat /\ P0 * Base \in Nat
        BY <2>2, <2>3, <2>4, BaseType
      <4> QED BY <2>2, <2>3, <2>4, <4>1
    <3>2. /\ r1 = r0 + m5 /\ o1 = o0 + m2 /\ m1 + m2 + m3 = m4 + m5 /\ m7 = m6 + m1
          /\ r0 + m3 = o0 + m6 /\ P1 * c1 = m4
      BY <2>2, <2>3, <2>5, <2>6, <2>7
    <3> SUFFICES r1 + m4 = o1 + m7
      BY <3>2
    <3> HIDE DEF m1, m2, m3, m4, m5, m6, m7
    <3> QED BY <2>3, <3>1, <3>2
  <2> QED BY <2>8 DEF P1, p, c1, x, r1, o1, b1
<1>11. T(m)
  <2> DEFINE P == {j \in Nat : j <= m => T(j)}
  <2> HIDE DEF T
  <2>1. 0 \in P
    BY <1>9
  <2>2. \A j \in Nat : j \in P => j + 1 \in P
    BY <1>1, <1>10
  <2>3. m \in P
    <3> HIDE DEF P, m
    <3> QED BY <1>1, <2>1, <2>2, SetInduction
  <2> QED BY <1>1, <2>3
<1>12. Low(C, n) + Place(n) * F[m][2] = Low(O, n) + Place(i) * a[i] * Low(B, m) /\ F[m][2] \in Nat
  <2>1. m \in 0 .. m
    BY <1>1
  <2> QED BY <1>1, <1>3, <1>11, <2>1
<1> QED BY <1>5, <1>6, <1>12 DEF R, C

\* Products of alike numbers are alike.
LEMMA AlikeTimes ==
    ASSUME NEW w \in Nat, NEW x \in Int, NEW y \in Int, NEW u \in Int, NEW v \in Int,
           Alike(x, y, w), Alike(u, v, w)
    PROVE  Alike(x * u, y * v, w)
<1> DEFINE p == 2 ^ w
<1>1. p \in Int
  BY PowerOfTwo
<1>2. PICK q \in Int : x = y + p * q
  BY DEF Alike
<1>3. PICK t \in Int : u = v + p * t
  BY DEF Alike
<1> HIDE DEF p
<1> DEFINE d == q * v + t * y + p * (q * t)
<1>4. d \in Int /\ x * u = y * v + p * d
  <2> DEFINE a == p * q  b == p * t
  <2>1. a \in Int /\ b \in Int
    BY <1>1
  <2>2. (y + a) * (v + b) = y * v + a * v + y * b + a * b
    <3> HIDE DEF a, b
    <3> QED BY <2>1
  <2>3. a * v = p * (q * v) /\ y * b = p * (t * y) /\ a * b = p * (p * (q * t))
    BY <1>1
  <2> DEFINE e == q * v  f == t * y  g == p * (q * t)
  <2>4. e \in Int /\ f \in Int /\ g \in Int
    BY <1>1
  <2>5. p * (e + f + g) = p * e + p * f + p * g
    <3> HIDE DEF e, f, g
    <3> QED BY <1>1, <2>4
  <2> DEFINE h == x * u  k == y * v  l1 == p * e  l2 == p * f  l3 == p * g
  <2>6. h = k + l1 + l2 + l3
    BY <1>2, <1>3, <2>2, <2>3
  <2>7. k \in Int /\ l1 \in Int /\ l2 \in Int /\ l3 \in Int
    BY <1>1, <2>4
  <2>8. p * d = l1 + l2 + l3
    BY <2>5
  <2>9. d \in Int
    BY <2>4
  <2>10. h = k + p * d
    <3> DEFINE m == p * d
    <3>1. m = l1 + l2 + l3
      BY <2>8
    <3> HIDE DEF h, k, l1, l2, l3, m
    <3>2. h = k + m
      BY <2>6, <2>7, <3>1
    <3> QED BY <3>2 DEF m
  <2> QED BY <2>9, <2>10
<1> HIDE DEF d
<1> QED BY <1>4 DEF Alike, p

\* The recursion over the rows.
LEMMA RowsStep ==
    ASSUME NEW n \in Nat, NEW a, NEW b, DigitArray(a, n), DigitArray(b, n),
           NEW B, PlaceSet(B), DigitsOf(b, n, B)
    PROVE  LET F == Rows(a, b, n)
           IN  /\ F[0] = mw_zero(n)
               /\ \A i \in 0 .. n - 1 : F[i + 1] = RowOf(a, b, F[i], i, n)
               /\ \A i \in 0 .. n : DigitArray(F[i], n)
<1> DEFINE S == [0 .. n - 1 -> 0 .. Base - 1]
           H == [p \in Nat \X S |-> IF p[1] - 1 \in DOMAIN a THEN RowOf(a, b, p[2], p[1] - 1, n) ELSE p[2]]
           z == mw_zero(n)
<1>0. \A x : x \in S => DigitArray(x, n)
  BY BaseType DEF DigitArray
<1>1. \A x, i : i \in 0 .. n - 1 /\ x \in S => RowOf(a, b, x, i, n) \in S
  <2> SUFFICES ASSUME NEW x, NEW i \in 0 .. n - 1, x \in S PROVE RowOf(a, b, x, i, n) \in S
    OBVIOUS
  <2> DEFINE O == PlacesOf(x, n)  R == RowOf(a, b, x, i, n)
  <2>1. DigitArray(x, n)
    BY <1>0
  <2>2. PlaceSet(O) /\ DigitsOf(x, n, O)
    BY <2>1, DigitSet DEF DigitArray
  <2> HIDE DEF O
  <2>3. DigitArray(R, n)
    BY <2>1, <2>2, RowAdds
  <2>4. R = [k \in 0 .. n - 1 |-> R[k]]
    BY DEF RowOf, Words
  <2> HIDE DEF R
  <2>5. \A k \in 0 .. n - 1 : R[k] \in 0 .. Base - 1
    BY <2>3, BaseType DEF DigitArray
  <2>6. R \in S
    BY <2>4, <2>5
  <2> QED BY <2>6 DEF R
<1>2. z \in S
  BY BaseType DEF mw_zero, Words
<1>3. DOMAIN a = 0 .. n - 1
  BY DEF DigitArray
<1> HIDE DEF S
<1>4. Stays(H, S)
  <2> SUFFICES ASSUME NEW k \in Nat, NEW x \in S PROVE H[<<k, x>>] \in S
    BY DEF Stays
  <2>1. H[<<k, x>>] = IF k - 1 \in DOMAIN a THEN RowOf(a, b, x, k - 1, n) ELSE x
    OBVIOUS
  <2> HIDE DEF H
  <2>2. k - 1 \in DOMAIN a => RowOf(a, b, x, k - 1, n) \in S
    BY <1>1, <1>3
  <2> QED BY <2>1, <2>2
<1> HIDE DEF z
<1>5. PICK f \in [0 .. n -> S] : Solves(f, n, z, H)
  <2> HIDE DEF H
  <2> QED BY <1>2, <1>4, Recursion
<1>6. f = RowStep(f, a, b, n)
  <2>1. \A i \in 0 .. n : f[i] = IF i = 0 THEN z
                      ELSE IF i - 1 \notin DOMAIN a THEN f[i - 1] ELSE RowOf(a, b, f[i - 1], i - 1, n)
    <3> TAKE i \in 0 .. n
    <3>1. f[i] = IF i = 0 THEN z ELSE H[<<i, f[i - 1]>>]
      <4> HIDE DEF H
      <4> QED BY <1>5 DEF Solves
    <3>2. i # 0 => i \in Nat /\ f[i - 1] \in S
      <4>1. i # 0 => i - 1 \in 0 .. n
        OBVIOUS
      <4> HIDE DEF H
      <4> QED BY <1>5, <4>1
    <3>3. i # 0 => H[<<i, f[i - 1]>>] = IF i - 1 \notin DOMAIN a THEN f[i - 1] ELSE RowOf(a, b, f[i - 1], i - 1, n)
      BY <3>2
    <3> HIDE DEF H
    <3> QED BY <3>1, <3>3
  <2>2. f = [i \in 0 .. n |-> f[i]]
    OBVIOUS
  <2> HIDE DEF H
  <2> QED BY <2>1, <2>2 DEF RowStep, z
<1>7. Rows(a, b, n) = RowStep(Rows(a, b, n), a, b, n)
  BY <1>6 DEF Rows
<1> HIDE DEF H
<1> DEFINE F == Rows(a, b, n)
<1>8. \A i \in 0 .. n : F[i] = IF i = 0 THEN mw_zero(n)
                      ELSE IF i - 1 \notin DOMAIN a THEN F[i - 1] ELSE RowOf(a, b, F[i - 1], i - 1, n)
  <2> HIDE DEF F
  <2>1. F = RowStep(F, a, b, n)
    BY <1>7 DEF F
  <2> QED BY <2>1 DEF RowStep
<1> HIDE DEF F
<1>9. F[0] = mw_zero(n)
  <2>1. 0 \in 0 .. n
    OBVIOUS
  <2> QED BY <1>8, <2>1, Zenon
<1>10. \A i \in 0 .. n - 1 : F[i + 1] = RowOf(a, b, F[i], i, n)
  <2> TAKE i \in 0 .. n - 1
  <2> DEFINE j == i + 1
  <2>1. j \in 0 .. n /\ j # 0 /\ j - 1 = i
    OBVIOUS
  <2> HIDE DEF j
  <2>2. F[j] = RowOf(a, b, F[j - 1], j - 1, n)
    BY <1>3, <1>8, <2>1
  <2> QED BY <2>1, <2>2 DEF j
<1>11. \A i \in 0 .. n : F[i] \in S
  <2> DEFINE P == {k \in Nat : k <= n => F[k] \in S}
  <2>1. 0 \in P
    BY <1>2, <1>9 DEF z
  <2>2. ASSUME NEW k \in Nat, k \in P PROVE k + 1 \in P
    <3> SUFFICES ASSUME k + 1 <= n PROVE F[k + 1] \in S
      OBVIOUS
    <3>1. k \in 0 .. n - 1 /\ F[k] \in S
      BY <2>2
    <3> QED BY <1>1, <1>10, <3>1
  <2>3. Nat \subseteq P
    <3> HIDE DEF P
    <3> QED BY <2>1, <2>2, SetInduction
  <2> QED BY <2>3
<1> QED BY <1>0, <1>9, <1>10, <1>11 DEF F

\* mw_mul is the product, modulo the words there are.
THEOREM MulWords ==
    ASSUME NEW n \in Nat, NEW a, DOMAIN a = 0 .. n - 1, NEW b, DOMAIN b = 0 .. n - 1,
           NEW A, PlaceSet(A), DigitsOf(a, n, A), NEW B, PlaceSet(B), DigitsOf(b, n, B)
    PROVE  \E C : /\ PlaceSet(C) /\ DigitsOf(mw_mul(a, b, n), n, C) /\ DOMAIN mw_mul(a, b, n) = 0 .. n - 1
                  /\ Below(C, n * WordBits) = C
                  /\ Alike(SumAt(C), Low(A, n) * Low(B, n), n * WordBits)
<1> DEFINE F == Rows(a, b, n)
           m == n * WordBits
           O(i) == PlacesOf(F[i], n)
           T(i) == Alike(Low(O(i), n), Low(A, i) * Low(B, n), m)
<1>0. m \in Nat /\ Place(n) = 2 ^ m
  BY WordBitsAssumption DEF Place
<1>1. DigitArray(a, n) /\ DigitArray(b, n) /\ \A k \in 0 .. n - 1 : a[k] = Num(WordAt(A, k))
  BY ArrayDigits
<1>2. /\ F[0] = mw_zero(n)
      /\ \A i \in 0 .. n - 1 : F[i + 1] = RowOf(a, b, F[i], i, n)
      /\ \A i \in 0 .. n : DigitArray(F[i], n)
  BY <1>1, RowsStep
<1> HIDE DEF F
<1>3. \A i \in 0 .. n : PlaceSet(O(i)) /\ DigitsOf(F[i], n, O(i)) /\ Below(O(i), m) = O(i)
  BY <1>2, DigitSet DEF DigitArray
<1> HIDE DEF O
<1>4. T(0)
  <2>1. 0 \in 0 .. n
    OBVIOUS
  <2>2. Low(O(0), n) = 0
    <3>1. PlaceSet({}) /\ SumAt({}) = 0
      <4>1. PlaceSet({})
        BY FS_EmptySet DEF PlaceSet
      <4> QED BY <4>1, SumType
    <3>2. \A k \in 0 .. n - 1 : Num(WordAt(O(0), k)) = Num(WordAt({}, k))
      <4> TAKE k \in 0 .. n - 1
      <4>1. Num(WordAt(O(0), k)) = 0
        BY <1>2, <1>3, <2>1 DEF DigitsOf, mw_zero, Words
      <4>2. Num(WordAt({}, k)) = 0
        <5>1. WordAt({}, k) = {}
          BY DEF WordAt
        <5> QED BY <3>1, <5>1, WordsOf
      <4> QED BY <4>1, <4>2
    <3>3. Low({}, n) = 0
      <4>1. Below({}, m) = {}
        BY DEF Below
      <4> QED BY <3>1, <4>1 DEF Low
    <3>4. PlaceSet(O(0))
      BY <1>3, <2>1
    <3> QED BY <3>1, <3>2, <3>3, <3>4, LowSame
  <2>3. Low(A, 0) = 0 /\ Low(B, n) \in Nat
    BY LowSteps
  <2>4. 0 = 0 * Low(B, n) + 2 ^ m * 0 /\ 0 \in Int
    BY <1>0, <2>3, PowerOfTwo
  <2> QED BY <2>2, <2>3, <2>4 DEF Alike
<1>5. ASSUME NEW i \in 0 .. n - 1, T(i) PROVE T(i + 1)
  <2> DEFINE j == n - i
             p == Place(i)  q == Place(j)  r == Place(n)  x == a[i]
             b0 == Low(B, j)  b1 == Low(B, n)  o0 == Low(O(i), n)  o1 == Low(O(i + 1), n)
             a0 == Low(A, i)  a1 == Low(A, i + 1)
  <2>1. i \in Nat /\ j \in Nat /\ i + j = n /\ i \in 0 .. n /\ i + 1 \in 0 .. n
    OBVIOUS
  <2>2. p \in Nat /\ q \in Nat /\ r \in Nat /\ r = p * q
    BY <2>1, LowSteps, PlaceAdds
  <2>3. PICK c \in Nat : o1 + r * c = o0 + p * x * b0
    <3>1. F[i + 1] = RowOf(a, b, F[i], i, n) /\ DigitArray(F[i], n) /\ PlaceSet(O(i)) /\ DigitsOf(F[i], n, O(i))
      BY <1>2, <1>3, <2>1
    <3>2. \E c \in Nat : Low(PlacesOf(F[i + 1], n), n) + Place(n) * c
                           = Low(O(i), n) + Place(i) * a[i] * Low(B, n - i)
      BY <1>1, <3>1, RowAdds
    <3> QED BY <3>2 DEF O
  <2>4. PICK h \in Nat : b1 = b0 + q * h
    <3> DEFINE W == Below(B, m)  e == j * WordBits
    <3>1. e \in Nat /\ e <= m
      BY <2>1, WordOrder
    <3>2. PlaceSet(W)
      BY <1>0, BelowType
    <3>3. Below(W, e) = Below(B, e)
      <4>1. \A k \in B : k < e => k < m
        BY <1>0, <3>1 DEF PlaceSet
      <4> QED BY <4>1 DEF Below
    <3>4. \E h \in Nat : SumAt(W) = SumAt(Below(W, e)) + 2 ^ e * h
      <4> HIDE DEF W, e
      <4> QED BY <3>1, <3>2, BelowType
    <3> QED BY <3>3, <3>4 DEF Low, Place
  <2>5. a1 = a0 + p * x /\ a0 \in Nat /\ a1 \in Nat /\ x \in Nat
    <3>1. x = Num(WordAt(A, i)) /\ i + 1 \in Nat
      BY <1>1, <2>1
    <3>2. Low(A, i + 1) = Low(A, i) + Place(i) * Num(WordAt(A, i)) /\ Low(A, i) \in Nat
          /\ Low(A, i + 1) \in Nat /\ Num(WordAt(A, i)) \in Nat
      BY <2>1, <3>1, LowSteps, Zenon
    <3> HIDE DEF x
    <3> QED BY <3>1, <3>2
  <2>6. b0 \in Nat /\ b1 \in Nat /\ o0 \in Nat /\ o1 \in Nat
    BY <1>3, <2>1, LowSteps
  <2>7. PICK t \in Int : o0 = a0 * b1 + r * t
    <3>1. \E t \in Int : o0 = a0 * b1 + 2 ^ m * t
      BY <1>5 DEF Alike
    <3> QED BY <1>0, <3>1
  <2> HIDE DEF p, q, r, x, b0, b1, o0, o1, a0, a1, j
  <2> DEFINE d == t - x * h - c
  <2>8. d \in Int /\ o1 = a1 * b1 + r * d
    <3> DEFINE m1 == a0 * b1  m2 == r * t  m3 == p * x * b1  m4 == r * (x * h)  m5 == r * c  m6 == p * x * b0
    <3>1. m1 \in Int /\ m2 \in Int /\ m3 \in Int /\ m4 \in Int /\ m5 \in Int /\ m6 \in Int /\ x * h \in Int
      <4>1. p * x \in Nat /\ x * h \in Nat
        BY <2>2, <2>5
      <4> QED BY <2>2, <2>5, <2>6, <4>1
    <3>2. m3 = m6 + m4
      <4> DEFINE y == p * x  e == q * h
      <4>1. y \in Nat /\ e \in Nat
        BY <2>2, <2>5
      <4>2. y * (b0 + e) = y * b0 + y * e
        <5> HIDE DEF y, e
        <5> QED BY <2>6, <4>1
      <4>3. y * e = (p * q) * (x * h)
        BY <2>2, <2>5
      <4> QED BY <2>2, <2>4, <4>2, <4>3
    <3>3. a1 * b1 = m1 + m3
      <4> DEFINE y == p * x
      <4>1. y \in Nat
        BY <2>2, <2>5
      <4>2. (a0 + y) * b1 = a0 * b1 + y * b1
        <5> HIDE DEF y
        <5> QED BY <2>5, <2>6, <4>1
      <4> QED BY <2>5, <4>2
    <3>4. r * d = m2 - m4 - m5
      <4> DEFINE y == x * h
      <4> HIDE DEF y
      <4>1. y \in Int
        BY <3>1 DEF y
      <4>2. r * (t - y - c) = r * t - r * y - r * c
        BY <2>2, <4>1
      <4> QED BY <4>2 DEF y
    <3>5. o1 + m5 = o0 + m6 /\ o0 = m1 + m2
      BY <2>3, <2>7
    <3> DEFINE e == r * d  y == a1 * b1
    <3>6. e = m2 - m4 - m5 /\ y = m1 + m3
      BY <3>3, <3>4
    <3>7. d \in Int
      BY <3>1
    <3> HIDE DEF m1, m2, m3, m4, m5, m6, e, y
    <3>8. o1 = y + e
      BY <2>6, <3>1, <3>2, <3>5, <3>6
    <3> QED BY <3>7, <3>8 DEF e, y
  <2> HIDE DEF d
  <2> QED BY <1>0, <2>8 DEF Alike, o1, a1, b1, r
<1>6. T(n)
  <2> DEFINE P == {k \in Nat : k <= n => T(k)}
  <2> HIDE DEF T
  <2>1. 0 \in P
    BY <1>4
  <2>2. \A k \in Nat : k \in P => k + 1 \in P
    BY <1>5
  <2>3. n \in P
    <3> HIDE DEF P
    <3> QED BY <2>1, <2>2, SetInduction
  <2> QED BY <2>3
<1>7. n \in 0 .. n
  OBVIOUS
<1>8. Low(O(n), n) = SumAt(O(n))
  BY <1>3, <1>7 DEF Low
<1>9. mw_mul(a, b, n) = F[n]
  BY MulIs DEF F
<1> QED BY <1>2, <1>3, <1>6, <1>7, <1>8, <1>9 DEF DigitArray

-----------------------------------------------------------------------------
(* Quotients and rests of words: short_div and long_div.                   *)

\* The number the first k digits of an array of n are.
Val(a, n, k) == Low(PlacesOf(a, n), k)

\* The number of the first k words, by counting words.
LEMMA ValSteps ==
    ASSUME NEW n \in Nat, NEW a, DigitArray(a, n)
    PROVE  /\ Val(a, n, 0) = 0
           /\ \A k \in Nat : Val(a, n, k) \in Nat /\ Val(a, n, k) < Place(k) /\ Place(k) \in Nat
                             /\ Place(k + 1) = Place(k) * Base /\ Place(0) = 1
           /\ \A k \in 0 .. n - 1 : Val(a, n, k + 1) = Val(a, n, k) + Place(k) * a[k]
           /\ DigitsOf(a, n, PlacesOf(a, n)) /\ PlaceSet(PlacesOf(a, n))
<1> DEFINE C == PlacesOf(a, n)
<1>1. PlaceSet(C) /\ DigitsOf(a, n, C)
  BY DigitSet DEF DigitArray
<1> HIDE DEF C
<1>2. Low(C, 0) = 0
  BY <1>1, LowSteps
<1>3. \A k \in Nat : Low(C, k) \in Nat /\ Low(C, k) < Place(k) /\ Place(k) \in Nat
                             /\ Place(k + 1) = Place(k) * Base /\ Place(0) = 1
  <2> TAKE k \in Nat
  <2>1. k * WordBits \in Nat
    BY WordOrder
  <2>2. Low(C, k) < Place(k)
    BY <1>1, <2>1, BelowType DEF Low, Place
  <2> QED BY <1>1, <2>2, LowSteps
<1>4. \A k \in 0 .. n - 1 : Low(C, k + 1) = Low(C, k) + Place(k) * a[k]
  <2> TAKE k \in 0 .. n - 1
  <2>1. k \in Nat /\ a[k] = Num(WordAt(C, k))
    BY <1>1 DEF DigitsOf
  <2> QED BY <1>1, <2>1, LowSteps, Zenon
<1> QED BY <1>1, <1>2, <1>3, <1>4 DEF Val, C

\* The same digits, the same number.
LEMMA ValOf ==
    ASSUME NEW n \in Nat, NEW a, DOMAIN a = 0 .. n - 1, NEW B, PlaceSet(B), DigitsOf(a, n, B), NEW k \in 0 .. n
    PROVE  DigitArray(a, n) /\ Val(a, n, k) = Low(B, k)
<1> DEFINE C == PlacesOf(a, n)
<1>1. DigitArray(a, n)
  BY ArrayDigits
<1>2. PlaceSet(C) /\ DigitsOf(a, n, C)
  BY <1>1, DigitSet DEF DigitArray
<1> HIDE DEF C
<1>3. \A j \in 0 .. k - 1 : Num(WordAt(C, j)) = Num(WordAt(B, j))
  <2> TAKE j \in 0 .. k - 1
  <2>1. j \in 0 .. n - 1
    OBVIOUS
  <2> QED BY <1>2, <2>1 DEF DigitsOf
<1>4. Low(C, k) = Low(B, k)
  BY <1>2, <1>3, LowSame
<1> QED BY <1>1, <1>4 DEF Val, C

\* The highest digit that differs decides.
LEMMA Leq ==
    ASSUME NEW n \in Nat, NEW a, DigitArray(a, n), NEW b, DigitArray(b, n)
    PROVE  mw_leq(a, b) <=> Val(a, n, n) <= Val(b, n, n)
<1> DEFINE differ == {k \in DOMAIN a \cup DOMAIN b : D(a, k) # D(b, k)}
           x(k) == Val(a, n, k)
           y(k) == Val(b, n, k)
           p(k) == Place(k)
<1>1. /\ \A k \in Nat : x(k) \in Nat /\ y(k) \in Nat /\ x(k) < p(k) /\ y(k) < p(k) /\ p(k) \in Nat
      /\ x(0) = y(0)
      /\ \A k \in 0 .. n - 1 : x(k + 1) = x(k) + p(k) * a[k] /\ y(k + 1) = y(k) + p(k) * b[k]
  BY ValSteps
<1>2. differ = {k \in 0 .. n - 1 : a[k] # b[k]}
  BY DEF DigitArray, D
<1>3. \A k \in 0 .. n - 1 : D(a, k) = a[k] /\ D(b, k) = b[k] /\ a[k] \in Nat /\ b[k] \in Nat
  BY DEF DigitArray, D
<1> HIDE DEF x, y, p
\* what is common to the digits from m up
<1>4. ASSUME NEW m \in 0 .. n, \A k \in m .. n - 1 : a[k] = b[k]
      PROVE  x(n) - x(m) = y(n) - y(m)
  <2> DEFINE P == {j \in Nat : m + j <= n => x(m + j) - x(m) = y(m + j) - y(m)}
  <2>1. 0 \in P
    <3>1. m + 0 = m /\ x(m) \in Nat /\ y(m) \in Nat
      BY <1>1
    <3> QED BY <3>1
  <2>2. ASSUME NEW j \in Nat, j \in P PROVE j + 1 \in P
    <3> SUFFICES ASSUME m + (j + 1) <= n PROVE x(m + (j + 1)) - x(m) = y(m + (j + 1)) - y(m)
      OBVIOUS
    <3> DEFINE k == m + j
    <3>1. k \in 0 .. n - 1 /\ k \in m .. n - 1 /\ k \in Nat /\ m + (j + 1) = k + 1 /\ m \in Nat
      OBVIOUS
    <3>2. x(k) - x(m) = y(k) - y(m)
      BY <2>2, <3>1
    <3> HIDE DEF k
    <3> DEFINE z == p(k) * a[k]
    <3>3. x(k + 1) = x(k) + z /\ y(k + 1) = y(k) + z /\ z \in Nat
      <4>1. p(k) \in Nat /\ a[k] \in Nat
        BY <1>1, <1>3, <3>1
      <4>2. z \in Nat
        BY <4>1
      <4> QED BY <1>1, <1>4, <3>1, <4>2
    <3>4. x(k) \in Nat /\ y(k) \in Nat /\ x(m) \in Nat /\ y(m) \in Nat
      BY <1>1, <3>1
    <3> HIDE DEF z
    <3>5. x(k + 1) - x(m) = y(k + 1) - y(m)
      BY <3>2, <3>3, <3>4
    <3> QED BY <3>1, <3>5
  <2>3. n - m \in P
    <3>1. n - m \in Nat
      OBVIOUS
    <3> HIDE DEF P
    <3> QED BY <2>1, <2>2, <3>1, SetInduction
  <2>4. m + (n - m) = n
    OBVIOUS
  <2> QED BY <2>3, <2>4
<1>5. CASE differ = {}
  <2>1. x(n) - x(0) = y(n) - y(0)
    <3>1. 0 \in 0 .. n
      OBVIOUS
    <3> QED BY <1>2, <1>4, <1>5, <3>1
  <2>2. x(n) = y(n) /\ x(n) \in Nat
    <3>1. x(n) \in Nat /\ y(n) \in Nat /\ x(0) \in Nat /\ x(0) = y(0)
      BY <1>1
    <3> QED BY <2>1, <3>1
  <2> QED BY <1>5, <2>2 DEF mw_leq, x, y
<1>6. CASE differ # {}
  <2> DEFINE k == Max(differ)
  <2>1. k \in differ /\ \A j \in differ : k >= j
    <3>1. PlaceSet(differ)
      BY <1>2, SumBound
    <3> QED BY <1>6, <3>1, Greatest DEF Max
  <2> HIDE DEF k
  <2>2. k \in 0 .. n - 1 /\ k \in Nat /\ a[k] # b[k] /\ k + 1 \in 0 .. n
    BY <1>2, <2>1
  <2>3. x(n) - x(k + 1) = y(n) - y(k + 1)
    <3>1. \A j \in k + 1 .. n - 1 : a[j] = b[j]
      <4> SUFFICES ASSUME NEW j \in k + 1 .. n - 1, a[j] # b[j] PROVE FALSE
        OBVIOUS
      <4>1. j \in 0 .. n - 1 /\ ~(k >= j)
        BY <2>2
      <4> QED BY <1>2, <2>1, <4>1
    <3> QED BY <1>4, <2>2, <3>1
  <2>4. x(k + 1) = x(k) + p(k) * a[k] /\ y(k + 1) = y(k) + p(k) * b[k]
    BY <1>1, <2>2
  <2> DEFINE u == a[k]  v == b[k]  q == p(k)  x0 == x(k)  y0 == y(k)  xk == x(k + 1)  y1 == y(k + 1)
  <2>5. u \in Nat /\ v \in Nat /\ u # v /\ q \in Nat /\ x0 \in Nat /\ y0 \in Nat /\ x0 < q /\ y0 < q
        /\ xk \in Nat /\ y1 \in Nat /\ xk = x0 + q * u /\ y1 = y0 + q * v
    BY <1>1, <1>3, <2>2, <2>4
  <2> HIDE DEF u, v, q, x0, y0, xk, y1
  <2>6. ASSUME NEW c \in Nat, NEW d \in Nat, c < d PROVE q * c + q <= q * d
    <3>1. d - c \in Nat \ {0} /\ d = c + (d - c)
      BY <2>6
    <3> DEFINE e == d - c
    <3>2. e \in Nat \ {0} /\ d = c + e
      BY <3>1
    <3> HIDE DEF e
    <3>3. q * (c + e) = q * c + q * e
      BY <2>5, <3>2
    <3>4. q * e >= q
      BY <2>5, <3>2
    <3> DEFINE m1 == q * c  m2 == q * e  m3 == q * d
    <3>5. m1 \in Nat /\ m2 \in Nat /\ m3 = m1 + m2 /\ m2 >= q
      BY <2>5, <3>2, <3>3, <3>4
    <3> HIDE DEF m1, m2, m3
    <3>6. m1 + q <= m3
      BY <2>5, <3>5
    <3> QED BY <3>6 DEF m1, m3
  <2>7. u < v <=> xk < y1
    <3> DEFINE m1 == q * u  m2 == q * v
    <3>1. m1 \in Nat /\ m2 \in Nat /\ xk = x0 + m1 /\ y1 = y0 + m2
      BY <2>5
    <3>2. u < v => m1 + q <= m2
      BY <2>5, <2>6
    <3>3. v < u => m2 + q <= m1
      BY <2>5, <2>6
    <3>4. u < v \/ v < u
      BY <2>5
    <3> HIDE DEF m1, m2
    <3> QED BY <2>5, <3>1, <3>2, <3>3, <3>4
  <2>8. u < v <=> x(n) <= y(n)
    <3>1. x(n) \in Nat /\ y(n) \in Nat /\ x(n) - xk = y(n) - y1 /\ xk # y1
      <4>1. v < u => ~(xk < y1)
        BY <2>5, <2>7
      <4>2. u # v => xk # y1
        <5> DEFINE m1 == q * u  m2 == q * v
        <5>1. m1 \in Nat /\ m2 \in Nat /\ xk = x0 + m1 /\ y1 = y0 + m2
          BY <2>5
        <5>2. u < v => m1 + q <= m2
          BY <2>5, <2>6
        <5>3. v < u => m2 + q <= m1
          BY <2>5, <2>6
        <5>4. u < v \/ v < u
          BY <2>5
        <5> HIDE DEF m1, m2
        <5> QED BY <2>5, <5>1, <5>2, <5>3, <5>4
      <4> QED BY <1>1, <2>3, <2>5, <4>2 DEF xk, y1
    <3> QED BY <2>5, <2>7, <3>1
  <2>9. mw_leq(a, b) <=> u < v
    <3>1. D(a, k) = u /\ D(b, k) = v
      BY <1>3, <2>2 DEF u, v
    <3> QED BY <1>6, <3>1 DEF mw_leq, k
  <2> QED BY <2>8, <2>9 DEF x, y
<1> QED BY <1>5, <1>6

\* Numbers below the modulus that are alike are equal.
LEMMA AlikeExact ==
    ASSUME NEW w \in Nat, NEW x \in Nat, NEW y \in Nat, x < 2 ^ w, y < 2 ^ w, Alike(x, y, w)
    PROVE  x = y
<1> DEFINE p == 2 ^ w
<1>1. p \in Nat
  BY PowerOfTwo
<1>2. PICK q \in Int : x = y + p * q
  BY DEF Alike
<1>3. x < p /\ y < p
  OBVIOUS
<1> HIDE DEF p
<1>4. q <= 0
  <2> SUFFICES ASSUME q >= 1 PROVE FALSE
    OBVIOUS
  <2>1. p * q >= p
    BY <1>1
  <2> QED BY <1>1, <1>2, <1>3, <2>1
<1>5. q >= 0
  <2> SUFFICES ASSUME q <= -1 PROVE FALSE
    OBVIOUS
  <2>1. p * q <= -p
    BY <1>1
  <2> QED BY <1>1, <1>2, <1>3, <2>1
<1>6. q = 0
  BY <1>4, <1>5
<1> QED BY <1>1, <1>2, <1>6

\* A subtraction by the negation of what is not larger.
LEMMA Subtracts ==
    ASSUME NEW n \in Nat \ {0}, NEW a, DigitArray(a, n), NEW b, DigitArray(b, n)
    PROVE  LET d == mw_add(a, mw_neg(b))
           IN  /\ DigitArray(d, n)
               /\ Val(b, n, n) <= Val(a, n, n) => Val(d, n, n) = Val(a, n, n) - Val(b, n, n)
<1> DEFINE m == n * WordBits
           d == mw_add(a, mw_neg(b))
           A == PlacesOf(a, n)
           B == PlacesOf(b, n)
           x == Val(a, n, n)
           y == Val(b, n, n)
<1>0. m \in Nat /\ Place(n) = 2 ^ m /\ n \in Nat
  BY WordBitsAssumption DEF Place
<1>1. /\ PlaceSet(A) /\ DigitsOf(a, n, A) /\ PlaceSet(B) /\ DigitsOf(b, n, B)
      /\ x \in Nat /\ y \in Nat /\ x < 2 ^ m /\ y < 2 ^ m
  BY <1>0, ValSteps
<1>2. SumAt(Below(A, m)) = x /\ SumAt(Below(B, m)) = y
  BY DEF Val, Low
<1>3. DOMAIN a = 0 .. n - 1 /\ DOMAIN b = 0 .. n - 1
  BY DEF DigitArray
<1> HIDE DEF A, B, x, y, m
<1>4. PICK N : /\ PlaceSet(N) /\ DigitsOf(mw_neg(b), n, N)
               /\ \E c \in Int : SumAt(N) = -y + 2 ^ m * c
  BY <1>1, <1>2, <1>3, NegatesWords DEF m
<1>5. PICK C : /\ PlaceSet(C) /\ DigitsOf(d, n, C) /\ DOMAIN d = 0 .. n - 1
               /\ \E c \in Int : SumAt(C) = x + SumAt(Below(N, m)) + 2 ^ m * c
  BY <1>0, <1>1, <1>2, <1>3, <1>4, AddsWords DEF m
<1> HIDE DEF d
<1>6. DigitArray(d, n) /\ Val(d, n, n) = SumAt(Below(C, m))
  <2>1. n \in 0 .. n
    BY <1>0
  <2> QED BY <1>0, <1>5, <2>1, ValOf DEF Low, m
<1>7. ASSUME y <= x PROVE Val(d, n, n) = x - y
  <2> DEFINE s == SumAt(N)  s0 == SumAt(Below(N, m))  t == SumAt(C)  t0 == SumAt(Below(C, m))
  <2>1. /\ s \in Int /\ s0 \in Int /\ t \in Int /\ t0 \in Nat /\ t0 < 2 ^ m
        /\ Alike(s, s0, m) /\ Alike(t, t0, m)
    <3>1. /\ \E h \in Nat : s = s0 + 2 ^ m * h
          /\ \E h \in Nat : t = t0 + 2 ^ m * h
          /\ s0 \in Nat /\ t0 \in Nat /\ t0 < 2 ^ m
      BY <1>0, <1>4, <1>5, BelowType
    <3>2. s \in Nat /\ t \in Nat
      BY <1>4, <1>5, SumType
    <3> HIDE DEF s, s0, t, t0
    <3> QED BY <3>1, <3>2 DEF Alike
  <2>2. Alike(s, -y, m) /\ Alike(t, x + s0, m) /\ -y \in Int /\ x + s0 \in Int
    <3>1. Alike(s, -y, m) /\ Alike(t, x + s0, m)
      BY <1>4, <1>5 DEF Alike
    <3> QED BY <1>1, <2>1, <3>1
  <2> HIDE DEF s, s0, t, t0
  <2>3. Alike(s0, -y, m)
    <3>1. Alike(s0, s, m)
      BY <1>0, <2>1, AlikeSteps
    <3> QED BY <1>0, <2>1, <2>2, <3>1, AlikeSteps
  <2>4. Alike(x, x, m)
    <3>1. x = x + 2 ^ m * 0 /\ 0 \in Int
      BY <1>0, <1>1, PowerOfTwo
    <3> QED BY <3>1 DEF Alike
  <2>7. x + (-y) \in Int /\ x \in Int /\ t0 \in Int
    BY <1>1, <2>1
  <2>5. Alike(x + s0, x + (-y), m)
    BY <1>0, <2>1, <2>2, <2>3, <2>4, <2>7, AlikeSteps, Zenon
  <2>6. Alike(t0, t, m)
    BY <1>0, <2>1, <2>7, AlikeSteps, Zenon
  <2>8. Alike(t0, x + s0, m)
    BY <1>0, <2>1, <2>2, <2>6, <2>7, AlikeSteps, Zenon
  <2>9. Alike(t0, x + (-y), m)
    BY <1>0, <2>2, <2>5, <2>7, <2>8, AlikeSteps, Zenon
  <2> DEFINE z == x + (-y)
  <2>10. z \in Nat /\ z < 2 ^ m /\ z = x - y
    <3>1. 2 ^ m \in Nat
      BY <1>0, PowerOfTwo
    <3> QED BY <1>1, <1>7, <3>1
  <2> HIDE DEF z
  <2>11. t0 = z
    BY <1>0, <2>1, <2>9, <2>10, AlikeExact DEF z
  <2> QED BY <1>6, <2>10, <2>11 DEF t0
<1> QED BY <1>6, <1>7 DEF d, x, y

\* Twice a digit, as a digit and a carry.
LEMMA DoubleDigit ==
    ASSUME NEW x \in Nat, x < Base
    PROVE  LET c == x \div 2 ^ (WordBits - 1)
               e == (2 * x) % Base
           IN  c \in {0, 1} /\ e \in Nat /\ e + 1 < Base /\ 2 * x = Base * c + e
<1> DEFINE h == 2 ^ (WordBits - 1)
<1>1. h \in Nat \ {0} /\ Base = h + h
  <2>1. WordBits - 1 \in Nat /\ (WordBits - 1) + 1 = WordBits
    BY WordBitsAssumption
  <2>2. h \in Nat \ {0} /\ 2 ^ ((WordBits - 1) + 1) = h + h
    <3> DEFINE k == WordBits - 1
    <3> HIDE DEF k
    <3>1. 2 ^ k \in Nat \ {0} /\ 2 ^ (k + 1) = 2 ^ k + 2 ^ k
      BY <2>1, PowerOfTwo DEF k
    <3> QED BY <3>1 DEF k
  <2> QED BY <2>1, <2>2, BaseType
<1> HIDE DEF h
<1>2. CASE x < h
  <2>1. x = h * 0 + x /\ 2 * x = Base * 0 + 2 * x /\ 2 * x < Base /\ 0 \in Int /\ 2 * x \in Nat
    BY <1>1, <1>2
  <2>2. x \div h = 0
    BY <1>1, <1>2, <2>1, DividedParts
  <2>3. (2 * x) % Base = 2 * x
    <3> DEFINE y == 2 * x
    <3>1. y \in Nat /\ y < Base
      BY <2>1
    <3> HIDE DEF y
    <3>2. y % Base = y
      BY <1>1, <3>1
    <3> QED BY <3>2 DEF y
  <2>4. 2 * x + 1 < Base
    BY <1>1, <1>2
  <2> QED BY <1>1, <2>1, <2>2, <2>3, <2>4 DEF h
<1>3. CASE ~(x < h)
  <2> DEFINE y == x - h  z == 2 * y
  <2>1. y \in Nat /\ y < h /\ x = h * 1 + y /\ 1 \in Int
    BY <1>1, <1>3
  <2>2. z \in Nat /\ z < Base /\ 2 * x = Base * 1 + z /\ z + 1 < Base
    BY <1>1, <1>3
  <2> HIDE DEF y, z
  <2>3. x \div h = 1
    BY <1>1, <2>1, DividedParts
  <2>4. (2 * x) % Base = z
    <3>1. (Base * 1 + z) % Base = z
      <4>1. Base \in Nat \ {0} /\ 1 \in Int
        BY <1>1
      <4> QED BY <2>2, <4>1, DividedParts, Zenon
    <3> QED BY <2>2, <3>1
  <2> QED BY <2>2, <2>3, <2>4 DEF h
<1> QED BY <1>2, <1>3

\* The remainder of the restoring division, shifted by a bit.
RemainderShifted(rem, bit, n) ==
    [k \in Words(n + 1) |-> ((2 * rem[k]) % Base) + (IF k = 0 THEN bit ELSE rem[k - 1] \div 2 ^ (WordBits - 1))]

\* Shifting a remainder up by a bit doubles it and adds the bit.
LEMMA Doubles ==
    ASSUME NEW n \in Nat, NEW r0, DigitArray(r0, n + 1), NEW bit \in {0, 1}
    PROVE  LET d == RemainderShifted(r0, bit, n)
               x == Val(r0, n + 1, n + 1)
           IN  /\ DigitArray(d, n + 1)
               /\ 2 * x + bit < Place(n + 1) => Val(d, n + 1, n + 1) = 2 * x + bit
<1> DEFINE d == RemainderShifted(r0, bit, n)
           m == n + 1
           c(k) == IF k = 0 THEN bit ELSE r0[k - 1] \div 2 ^ (WordBits - 1)
           e(k) == (2 * r0[k]) % Base
           x(k) == Val(r0, m, k)
           y(k) == Val(d, m, k)
           p(k) == Place(k)
<1>1. m \in Nat /\ Words(n + 1) = 0 .. m - 1
  BY DEF Words
<1>2. \A k \in 0 .. m - 1 : /\ r0[k] \in Nat /\ e(k) \in Nat /\ e(k) + 1 < Base /\ c(k + 1) \in {0, 1}
                            /\ 2 * r0[k] = Base * c(k + 1) + e(k)
  <2> TAKE k \in 0 .. m - 1
  <2>1. r0[k] \in Nat /\ r0[k] < Base
    BY DEF DigitArray
  <2>2. c(k + 1) = r0[k] \div 2 ^ (WordBits - 1)
    <3>1. k + 1 # 0 /\ (k + 1) - 1 = k
      OBVIOUS
    <3> QED BY <3>1
  <2> QED BY <2>1, <2>2, DoubleDigit
<1>3. \A k \in 0 .. m - 1 : c(k) \in {0, 1}
  <2> TAKE k \in 0 .. m - 1
  <2>1. CASE k = 0
    BY <2>1
  <2>2. CASE k # 0
    <3> DEFINE j == k - 1
    <3>1. j \in 0 .. m - 1 /\ j + 1 = k
      BY <2>2
    <3> HIDE DEF c, j
    <3> QED BY <1>2, <3>1
  <2> QED BY <2>1, <2>2
<1>4. DOMAIN d = 0 .. m - 1 /\ \A k \in 0 .. m - 1 : d[k] = e(k) + c(k)
  BY <1>1 DEF RemainderShifted
<1> HIDE DEF d, c, e, m
<1>5. DigitArray(d, m)
  <2>1. \A k \in 0 .. m - 1 : d[k] \in Nat /\ d[k] < Base
    BY <1>2, <1>3, <1>4, BaseType
  <2> QED BY <1>4, <2>1 DEF DigitArray
<1>6. DigitArray(r0, m)
  BY DEF m
<1>7. /\ \A k \in Nat : x(k) \in Nat /\ y(k) \in Nat /\ p(k) \in Nat /\ p(k + 1) = p(k) * Base /\ p(0) = 1
      /\ x(0) = 0 /\ y(0) = 0
      /\ \A k \in 0 .. m - 1 : x(k + 1) = x(k) + p(k) * r0[k] /\ y(k + 1) = y(k) + p(k) * d[k]
  BY <1>1, <1>5, <1>6, ValSteps
<1> HIDE DEF x, y, p
<1> DEFINE T(k) == y(k) + p(k) * c(k) = 2 * x(k) + bit
<1>8. T(0)
  BY <1>7 DEF c
<1>9. ASSUME NEW k \in 0 .. m - 1, T(k) PROVE T(k + 1)
  <2> DEFINE P0 == p(k)  P1 == p(k + 1)  x0 == x(k)  xk == x(k + 1)  y0 == y(k)  y1 == y(k + 1)
             a == r0[k]  c0 == c(k)  c1 == c(k + 1)  e0 == e(k)
  <2>1. k \in Nat
    OBVIOUS
  <2>2. /\ P0 \in Nat /\ P1 = P0 * Base /\ x0 \in Nat /\ y0 \in Nat /\ a \in Nat
        /\ c0 \in {0, 1} /\ c1 \in {0, 1} /\ e0 \in Nat
        /\ 2 * a = Base * c1 + e0 /\ xk = x0 + P0 * a /\ y1 = y0 + P0 * (e0 + c0)
        /\ y0 + P0 * c0 = 2 * x0 + bit
    BY <1>2, <1>3, <1>4, <1>7, <1>9, <2>1
  <2> HIDE DEF P0, P1, x0, xk, y0, y1, a, c0, c1, e0
  <2> DEFINE m1 == P0 * a  m2 == P0 * e0  m3 == P0 * c0  m4 == P0 * (Base * c1)
  <2>3. m1 \in Nat /\ m2 \in Nat /\ m3 \in Nat /\ m4 \in Nat
    <3>1. Base * c1 \in Nat
      BY <2>2, BaseType
    <3> QED BY <2>2, <3>1
  <2>4. P0 * (e0 + c0) = m2 + m3
    BY <2>2
  <2>5. 2 * m1 = m4 + m2
    <3> DEFINE z == Base * c1
    <3>1. z \in Nat /\ 2 * a = z + e0
      BY <2>2, BaseType
    <3> HIDE DEF z
    <3>2. P0 * (z + e0) = P0 * z + P0 * e0 /\ P0 * (2 * a) = 2 * (P0 * a)
      BY <2>2, <3>1
    <3> QED BY <3>1, <3>2 DEF z
  <2>6. P1 * c1 = m4
    BY <2>2, BaseType
  <2>7. xk = x0 + m1 /\ y1 = y0 + (m2 + m3) /\ y0 + m3 = 2 * x0 + bit
    BY <2>2, <2>4
  <2> HIDE DEF m1, m2, m3, m4
  <2>8. y1 + m4 = 2 * xk + bit
    BY <2>2, <2>3, <2>5, <2>7
  <2> QED BY <2>6, <2>8 DEF P1, c1, xk, y1
<1>10. T(m)
  <2> DEFINE P == {k \in Nat : k <= m => T(k)}
  <2> HIDE DEF T
  <2>1. 0 \in P
    BY <1>8
  <2>2. \A k \in Nat : k \in P => k + 1 \in P
    BY <1>1, <1>9
  <2>3. m \in P
    <3> HIDE DEF P
    <3> QED BY <1>1, <2>1, <2>2, SetInduction
  <2> QED BY <1>1, <2>3
<1>11. ASSUME 2 * x(m) + bit < p(m) PROVE y(m) = 2 * x(m) + bit
  <2>1. c(m) \in {0, 1}
    <3>1. n \in 0 .. m - 1 /\ n + 1 = m
      BY DEF m
    <3> QED BY <1>2, <3>1
  <2>2. x(m) \in Nat /\ y(m) \in Nat /\ p(m) \in Nat
    BY <1>1, <1>7
  <2>3. c(m) # 1
    BY <1>10, <1>11, <2>2
  <2>4. c(m) = 0
    BY <2>1, <2>3
  <2> QED BY <1>10, <2>2, <2>4
<1> QED BY <1>5, <1>11 DEF d, x, y, p, m

\* The division by one word.
ShortStep(f, a, d, n) ==
    [k \in 0 .. n |-> IF k = 0 THEN <<0, 0>>
                      ELSE LET cur == f[k - 1][2] * Base + a[n - k] IN <<cur \div d, cur % d>>]

Shorts(a, d, n) == CHOOSE f : f = ShortStep(f, a, d, n)

\* short_div is its chain of remainders.
LEMMA ShortIs ==
    ASSUME NEW n \in Nat, NEW a, DOMAIN a = 0 .. n - 1, NEW d
    PROVE  short_div(a, d) = <<[k \in 0 .. n - 1 |-> Shorts(a, d, n)[n - k][1]],
                               [k \in 0 .. n - 1 |-> IF k = 0 THEN Shorts(a, d, n)[n][2] ELSE 0]>>
<1>1. Cardinality(DOMAIN a) = n
  <2>1. 0 \in Int /\ n - 1 \in Int
    OBVIOUS
  <2> QED BY <2>1, FS_Interval
<1>2. short_div(a, d) = <<[k \in DOMAIN a |-> Shorts(a, d, Cardinality(DOMAIN a))[Cardinality(DOMAIN a) - k][1]],
                          [k \in DOMAIN a |-> IF k = 0 THEN Shorts(a, d, Cardinality(DOMAIN a))[Cardinality(DOMAIN a)][2]
                                              ELSE 0]>>
  BY DEF short_div, Shorts, ShortStep
<1> QED BY <1>1, <1>2

\* Every step of short_div divides by d.
LEMMA ShortSteps ==
    ASSUME NEW n \in Nat, NEW a, DigitArray(a, n), NEW d \in Nat \ {0}
    PROVE  LET F == Shorts(a, d, n)
           IN  /\ F[0] = <<0, 0>>
               /\ \A k \in 0 .. n : F[k][2] \in Nat /\ F[k][2] < d
               /\ \A k \in 0 .. n - 1 : /\ F[k + 1][1] \in Nat /\ F[k + 1][1] < Base
                                        /\ F[k][2] * Base + a[n - (k + 1)] = d * F[k + 1][1] + F[k + 1][2]
<1> DEFINE S == Nat \X Nat
           At0(j) == IF j \in 0 .. n - 1 THEN a[j] ELSE 0
           cur(p) == p[2][2] * Base + At0(n - p[1])
           H == [p \in Nat \X S |-> <<cur(p) \div d, cur(p) % d>>]
           z == <<0, 0>>
<1>0. \A j \in 0 .. n - 1 : a[j] \in Nat /\ a[j] < Base
  BY DEF DigitArray
<1>1. ASSUME NEW j \in Nat, NEW x \in S PROVE H[<<j, x>>] \in S
  <2> DEFINE t == cur(<<j, x>>)
  <2>1. t \in Nat
    <3>1. At0(n - j) \in Nat /\ x[2] \in Nat
      BY <1>0
    <3> DEFINE u == At0(n - j)  v == x[2]
    <3>2. t = v * Base + u
      OBVIOUS
    <3> HIDE DEF At0, u, v, t
    <3> QED BY <3>1, <3>2, BaseType DEF u, v
  <2>2. H[<<j, x>>] = <<t \div d, t % d>>
    BY Zenon
  <2>3. t % d \in Nat /\ t \div d \in Nat
    <3> HIDE DEF cur, t
    <3> QED BY <2>1
  <2> HIDE DEF t, H
  <2> QED BY <2>2, <2>3
<1>2. z \in S
  OBVIOUS
<1>3. PICK f \in [0 .. n -> S] : Solves(f, n, z, H)
  <2> HIDE DEF H, S, z
  <2>1. Stays(H, S)
    BY <1>1 DEF Stays
  <2> QED BY <1>2, <2>1, Recursion
<1>4. ASSUME NEW j \in 0 .. n, j # 0
      PROVE  H[<<j, f[j - 1]>>] = LET t == f[j - 1][2] * Base + a[n - j] IN <<t \div d, t % d>>
  <2>1. j \in Nat /\ n - j \in 0 .. n - 1 /\ j - 1 \in 0 .. n
    BY <1>4
  <2>2. f[j - 1] \in S
    BY <2>1
  <2>3. H[<<j, f[j - 1]>>] = <<cur(<<j, f[j - 1]>>) \div d, cur(<<j, f[j - 1]>>) % d>>
    <3>1. <<j, f[j - 1]>> \in Nat \X S
      BY <2>1, <2>2
    <3> HIDE DEF cur, S
    <3> QED BY <3>1
  <2>4. cur(<<j, f[j - 1]>>) = f[j - 1][2] * Base + a[n - j]
    BY <2>1
  <2> HIDE DEF cur, H
  <2> QED BY <2>3, <2>4
<1>5. f = ShortStep(f, a, d, n)
  <2>1. f = [j \in 0 .. n |-> f[j]]
    OBVIOUS
  <2>2. \A j \in 0 .. n : f[j] = IF j = 0 THEN <<0, 0>>
                      ELSE LET t == f[j - 1][2] * Base + a[n - j] IN <<t \div d, t % d>>
    <3> HIDE DEF H, S
    <3> QED BY <1>3, <1>4, Zenon DEF Solves
  <2> QED BY <2>1, <2>2 DEF ShortStep
<1>6. Shorts(a, d, n) = ShortStep(Shorts(a, d, n), a, d, n)
  BY SMTT(20), <1>5 DEF Shorts
<1> HIDE DEF H, S, cur, At0
<1> DEFINE F == Shorts(a, d, n)
<1>7. \A k \in 0 .. n : F[k] = IF k = 0 THEN <<0, 0>>
                      ELSE LET t == F[k - 1][2] * Base + a[n - k] IN <<t \div d, t % d>>
  <2> HIDE DEF F
  <2>1. F = ShortStep(F, a, d, n)
    BY <1>6 DEF F
  <2> QED BY <2>1 DEF ShortStep
<1> HIDE DEF F
<1>8. F[0] = <<0, 0>>
  <2>1. 0 \in 0 .. n
    OBVIOUS
  <2> QED BY <1>7, <2>1, Zenon
<1>9. ASSUME NEW k \in 0 .. n - 1, F[k][2] \in Nat, F[k][2] < d
      PROVE  /\ F[k + 1][1] \in Nat /\ F[k + 1][1] < Base /\ F[k + 1][2] \in Nat /\ F[k + 1][2] < d
             /\ F[k][2] * Base + a[n - (k + 1)] = d * F[k + 1][1] + F[k + 1][2]
  <2> DEFINE j == k + 1  u == F[k][2]  v == a[n - j]  t == u * Base + v
  <2>1. j \in 0 .. n /\ j # 0 /\ j - 1 = k /\ n - j \in 0 .. n - 1
    OBVIOUS
  <2>2. F[j] = <<t \div d, t % d>>
    <3>1. F[j] = <<(F[j - 1][2] * Base + a[n - j]) \div d, (F[j - 1][2] * Base + a[n - j]) % d>>
      <4> HIDE DEF j
      <4> QED BY <1>7, <2>1
    <3> QED BY <2>1, <3>1
  <2>3. u \in Nat /\ u < d /\ v \in Nat /\ v < Base
    BY <1>0, <1>9, <2>1
  <2> DEFINE q == t \div d  e == t % d
  <2> HIDE DEF u, v
  <2>4. t \in Nat /\ t < d * Base
    <3> DEFINE m1 == u * Base  m2 == d * Base
    <3>1. m1 \in Nat /\ m1 + Base <= m2 /\ m2 \in Nat
      <4>1. (u + 1) * Base <= d * Base
        <5>1. u + 1 <= d
          BY <2>3
        <5> QED BY <2>3, <5>1, BaseType
      <4>2. (u + 1) * Base = u * Base + Base
        BY <2>3, BaseType
      <4> QED BY <2>3, <4>1, <4>2, BaseType
    <3> HIDE DEF m1, m2
    <3>2. m1 + v \in Nat /\ m1 + v < m2
      BY <2>3, <3>1, BaseType
    <3> QED BY <3>2 DEF m1, m2
  <2> HIDE DEF t
  <2>5. q \in Nat /\ e \in Nat /\ e < d /\ t = d * q + e
    <3>1. t \in Int /\ d \in Nat \ {0}
      BY <2>4
    <3>2. q \in Int /\ e \in Nat /\ e < d /\ t = d * q + e
      BY <3>1, Divides, Zenon
    <3>3. q \in Nat
      BY <2>4
    <3> QED BY <3>2, <3>3
  <2> HIDE DEF q, e
  <2>6. q < Base
    <3> SUFFICES ASSUME q >= Base PROVE FALSE
      BY <2>5, BaseType
    <3>1. d * q >= d * Base
      BY <2>5, BaseType
    <3> DEFINE m1 == d * q  m2 == d * Base
    <3>2. m1 \in Nat /\ m2 \in Nat /\ t < m2 /\ t = m1 + e /\ m1 >= m2
      BY <2>4, <2>5, <3>1, BaseType
    <3> HIDE DEF m1, m2
    <3> QED BY <2>5, <3>2
  <2>7. F[k + 1][1] = q /\ F[k + 1][2] = e
    BY <2>2 DEF q, e
  <2>8. F[k][2] * Base + a[n - (k + 1)] = t
    BY DEF t, u, v
  <2> QED BY <2>5, <2>6, <2>7, <2>8
<1>10. \A k \in 0 .. n : F[k][2] \in Nat /\ F[k][2] < d
  <2> DEFINE P == {k \in Nat : k <= n => F[k][2] \in Nat /\ F[k][2] < d}
  <2>1. 0 \in P
    BY <1>8
  <2>2. \A k \in Nat : k \in P => k + 1 \in P
    BY <1>9
  <2>3. Nat \subseteq P
    <3> HIDE DEF P
    <3> QED BY <2>1, <2>2, SetInduction
  <2> QED BY <2>3
<1> QED BY <1>8, <1>9, <1>10 DEF F

\* qr is the quotient and the remainder of x by y, in n digits each.
Divided(qr, n, x, y) ==
    /\ DigitArray(qr[1], n) /\ DigitArray(qr[2], n)
    /\ x = y * Val(qr[1], n, n) + Val(qr[2], n, n) /\ Val(qr[2], n, n) < y

\* short_div divides.
LEMMA ShortDivides ==
    ASSUME NEW n \in Nat \ {0}, NEW a, DigitArray(a, n), NEW d \in Nat \ {0}, d < Base
    PROVE  Divided(short_div(a, d), n, Val(a, n, n), d)
<1> DEFINE F == Shorts(a, d, n)
           Q == [k \in 0 .. n - 1 |-> F[n - k][1]]
           R == [k \in 0 .. n - 1 |-> IF k = 0 THEN F[n][2] ELSE 0]
           x(k) == Val(a, n, k)
           y(k) == Val(Q, n, k)
           p(k) == Place(k)
<1>1. short_div(a, d) = <<Q, R>>
  BY ShortIs DEF DigitArray
<1>2. /\ F[0] = <<0, 0>>
      /\ \A k \in 0 .. n : F[k][2] \in Nat /\ F[k][2] < d
      /\ \A k \in 0 .. n - 1 : /\ F[k + 1][1] \in Nat /\ F[k + 1][1] < Base
                               /\ F[k][2] * Base + a[n - (k + 1)] = d * F[k + 1][1] + F[k + 1][2]
  BY ShortSteps
<1> HIDE DEF F
<1>3. DOMAIN Q = 0 .. n - 1 /\ \A k \in 0 .. n - 1 : Q[n - (k + 1)] = F[k + 1][1]
  <2>1. ASSUME NEW k \in 0 .. n - 1 PROVE Q[n - (k + 1)] = F[k + 1][1]
    <3> DEFINE j == n - (k + 1)
    <3>1. j \in 0 .. n - 1 /\ n - j = k + 1
      OBVIOUS
    <3> HIDE DEF j
    <3>2. Q[j] = F[n - j][1]
      BY <3>1
    <3> QED BY <3>1, <3>2 DEF j
  <2> QED BY <2>1
<1>4. DigitArray(Q, n)
  <2>1. ASSUME NEW j \in 0 .. n - 1 PROVE Q[j] \in Nat /\ Q[j] < Base
    <3> DEFINE k == n - 1 - j
    <3>1. k \in 0 .. n - 1 /\ n - (k + 1) = j
      OBVIOUS
    <3> HIDE DEF k, Q
    <3>2. Q[n - (k + 1)] = F[k + 1][1] /\ F[k + 1][1] \in Nat /\ F[k + 1][1] < Base
      BY <1>2, <1>3, <3>1
    <3> QED BY <3>1, <3>2
  <2> HIDE DEF Q
  <2> QED BY <1>3, <2>1 DEF DigitArray
<1>5. F[n][2] \in Nat /\ F[n][2] < d
  <2>1. n \in 0 .. n
    OBVIOUS
  <2> QED BY <1>2, <2>1
<1>6. DigitArray(R, n) /\ Val(R, n, n) = F[n][2]
  <2>1. DOMAIN R = 0 .. n - 1 /\ \A k \in 0 .. n - 1 : R[k] = IF k = 0 THEN F[n][2] ELSE 0
    OBVIOUS
  <2> HIDE DEF R
  <2>2. DigitArray(R, n)
    BY <1>5, <2>1, BaseType DEF DigitArray
  <2> DEFINE v(k) == Val(R, n, k)
  <2>3. /\ \A k \in Nat : v(k) \in Nat /\ Place(k) \in Nat /\ Place(0) = 1
        /\ v(0) = 0
        /\ \A k \in 0 .. n - 1 : v(k + 1) = v(k) + Place(k) * R[k]
    BY <2>2, ValSteps
  <2> HIDE DEF v
  <2> DEFINE P == {k \in Nat : k < n => v(k + 1) = F[n][2]}
  <2>4. 0 \in P
    <3>1. v(0 + 1) = v(0) + Place(0) * R[0] /\ R[0] = F[n][2]
      <4>1. 0 \in 0 .. n - 1
        OBVIOUS
      <4> QED BY <2>1, <2>3, <4>1
    <3>2. v(0) = 0 /\ Place(0) = 1
      BY <2>3
    <3>3. v(0 + 1) = F[n][2]
      BY <1>5, <3>1, <3>2
    <3> QED BY <3>3
  <2>5. ASSUME NEW k \in Nat, k \in P PROVE k + 1 \in P
    <3> SUFFICES ASSUME k + 1 < n PROVE v((k + 1) + 1) = F[n][2]
      OBVIOUS
    <3> DEFINE j == k + 1
    <3>1. j \in 0 .. n - 1 /\ j # 0 /\ j \in Nat /\ k < n
      OBVIOUS
    <3>2. v(j) = F[n][2]
      BY <2>5, <3>1
    <3> HIDE DEF j
    <3>3. v(j + 1) = v(j) + Place(j) * 0
      BY <2>1, <2>3, <3>1
    <3>4. v(j) \in Nat /\ Place(j) \in Nat
      BY <2>3, <3>1
    <3>5. v(j + 1) = F[n][2]
      BY <3>2, <3>3, <3>4
    <3> QED BY <3>5 DEF j
  <2>6. n - 1 \in P
    <3>1. n - 1 \in Nat
      OBVIOUS
    <3> HIDE DEF P
    <3> QED BY <2>4, <2>5, <3>1, SetInduction
  <2>7. n - 1 < n /\ (n - 1) + 1 = n
    OBVIOUS
  <2>8. v(n) = F[n][2]
    BY <2>6, <2>7
  <2> QED BY <2>2, <2>8 DEF v
<1> HIDE DEF Q, R
<1>7. /\ \A k \in Nat : x(k) \in Nat /\ y(k) \in Nat /\ p(k) \in Nat /\ p(k + 1) = p(k) * Base /\ p(0) = 1
      /\ x(0) = 0 /\ y(0) = 0
      /\ \A k \in 0 .. n - 1 : x(k + 1) = x(k) + p(k) * a[k] /\ y(k + 1) = y(k) + p(k) * Q[k]
  BY <1>4, ValSteps
<1>8. \A k \in 0 .. n - 1 : a[k] \in Nat
  BY DEF DigitArray
<1> HIDE DEF x, y, p
<1> DEFINE T(k) == x(n) - x(n - k) = d * (y(n) - y(n - k)) + F[k][2] * p(n - k)
<1>9. T(0)
  <2>1. n - 0 = n /\ x(n) \in Nat /\ y(n) \in Nat /\ p(n) \in Nat /\ F[0][2] = 0
    BY <1>2, <1>7
  <2> DEFINE u == x(n)  v == y(n)
  <2>2. u - u = 0 /\ v - v = 0
    BY <2>1
  <2> QED BY <2>1, <2>2
<1>10. ASSUME NEW k \in 0 .. n - 1, T(k) PROVE T(k + 1)
  <2> DEFINE j == n - (k + 1)
  <2>1. j \in 0 .. n - 1 /\ j \in Nat /\ j + 1 = n - k /\ k \in 0 .. n /\ k + 1 \in 0 .. n
    OBVIOUS
  <2> HIDE DEF j
  <2> DEFINE p0 == p(j)  p1 == p(j + 1)  x0 == x(j)  xk == x(j + 1)  y0 == y(j)  y1 == y(j + 1)
             xn == x(n)  yn == y(n)  t == a[j]  q == F[k + 1][1]  r0 == F[k][2]  r1 == F[k + 1][2]
  <2>2. /\ p0 \in Nat /\ p1 = p0 * Base /\ x0 \in Nat /\ y0 \in Nat /\ xn \in Nat /\ yn \in Nat
        /\ xk = x0 + p0 * t /\ y1 = y0 + p0 * q /\ t \in Nat /\ q \in Nat /\ r0 \in Nat /\ r1 \in Nat
        /\ r0 * Base + t = d * q + r1
    <3>1. Q[j] = q
      BY <1>3 DEF j
    <3>2. t \in Nat /\ q \in Nat /\ r0 \in Nat /\ r1 \in Nat /\ r0 * Base + t = d * q + r1
      BY <1>2, <1>8, <2>1 DEF j
    <3> QED BY <1>7, <2>1, <3>1, <3>2
  <2>3. xn - xk = d * (yn - y1) + r0 * p1
    BY <1>10, <2>1
  <2> HIDE DEF p0, p1, x0, xk, y0, y1, xn, yn, t, q, r0, r1
  <2> DEFINE u == yn - y1  v == yn - y0  m1 == p0 * t  m2 == p0 * q
  <2>4. m1 \in Nat /\ m2 \in Nat /\ xk = x0 + m1 /\ y1 = y0 + m2
    BY <2>2
  <2> HIDE DEF m1, m2
  <2>5. u \in Int /\ v \in Int /\ v = u + m2
    BY <2>2, <2>4
  <2>6. xn - xk = d * u + r0 * p1
    BY <2>3
  <2> HIDE DEF u, v
  <2> DEFINE m3 == d * u  m4 == r0 * p1  m5 == d * m2  m6 == r1 * p0  m7 == d * v
  <2>7. m4 + m1 = m5 + m6
    <3>1. p0 * (r0 * Base + t) = p0 * (d * q + r1)
      BY <2>2
    <3> DEFINE g == r0 * Base  h == d * q
    <3>2. g \in Nat /\ h \in Nat
      BY <2>2, BaseType
    <3>3. p0 * (g + t) = p0 * g + p0 * t /\ p0 * (h + r1) = p0 * h + p0 * r1
      <4> HIDE DEF g, h
      <4> QED BY <2>2, <3>2
    <3>4. p0 * g = m4 /\ p0 * h = m5 /\ p0 * r1 = m6 /\ p0 * t = m1
      BY <2>2, BaseType DEF m1, m2
    <3> QED BY <3>1, <3>3, <3>4
  <2>8. m7 = m3 + m5
    BY <2>4, <2>5
  <2>9. m3 \in Int /\ m4 \in Int /\ m5 \in Int /\ m6 \in Int /\ m7 \in Int
    BY <2>2, <2>4, <2>5, BaseType
  <2>10. xn - xk = m3 + m4
    BY <2>6
  <2> HIDE DEF m3, m4, m5, m6, m7
  <2>11. xn - x0 = m7 + m6
    BY <2>2, <2>4, <2>7, <2>8, <2>9, <2>10
  <2>12. xn - x0 = d * (yn - y0) + r1 * p0
    BY <2>11 DEF m6, m7, v
  <2> QED BY <2>12 DEF xn, x0, yn, y0, r1, p0, j
<1>11. T(n)
  <2> DEFINE P == {k \in Nat : k <= n => T(k)}
  <2> HIDE DEF T
  <2>1. 0 \in P
    BY <1>9
  <2>2. \A k \in Nat : k \in P => k + 1 \in P
    BY <1>10
  <2>3. n \in P
    <3> HIDE DEF P
    <3> QED BY <2>1, <2>2, SetInduction
  <2> QED BY <2>3
<1>12. x(n) = d * y(n) + F[n][2]
  <2>1. n - n = 0 /\ x(n) \in Nat /\ y(n) \in Nat /\ x(0) = 0 /\ y(0) = 0 /\ p(0) = 1
    BY <1>7
  <2>2. x(n) - x(0) = d * (y(n) - y(0)) + F[n][2] * p(0)
    BY <1>11, <2>1
  <2>3. x(n) - x(0) = x(n) /\ y(n) - y(0) = y(n) /\ F[n][2] * p(0) = F[n][2]
    BY <1>5, <2>1
  <2> QED BY <2>2, <2>3
<1> QED BY <1>1, <1>4, <1>5, <1>6, <1>12 DEF Divided, x, y

\* The word and the bit of a place.
LEMMA PlaceParts ==
    ASSUME NEW n \in Nat, NEW t \in 0 .. n * WordBits - 1
    PROVE  /\ t \div WordBits \in 0 .. n - 1 /\ t % WordBits \in Bit
           /\ (t \div WordBits) * WordBits + (t % WordBits) = t
<1> DEFINE k == t \div WordBits  b == t % WordBits
<1>1. WordBits \in Nat \ {0} /\ t \in Nat /\ n * WordBits \in Nat /\ t < n * WordBits
  BY WordBitsAssumption
<1>2. k \in Nat /\ b \in Nat /\ b < WordBits /\ t = WordBits * k + b
  <2>1. t \in Int
    BY <1>1
  <2>2. k \in Int /\ b \in Nat /\ b < WordBits /\ t = WordBits * k + b
    BY <1>1, <2>1, Divides, Zenon
  <2>3. k \in Nat
    BY <1>1
  <2> QED BY <2>2, <2>3
<1> HIDE DEF k, b
<1>3. WordBits * k = k * WordBits
  BY <1>1, <1>2
<1>4. k < n
  <2> SUFFICES ASSUME n <= k PROVE FALSE
    BY <1>2
  <2>1. n * WordBits <= k * WordBits
    BY <1>2, WordOrder
  <2> DEFINE m1 == k * WordBits  m2 == n * WordBits
  <2>2. m1 \in Nat /\ m2 \in Nat /\ t = m1 + b /\ t < m2 /\ m2 <= m1
    BY <1>1, <1>2, <1>3, <2>1, WordOrder
  <2> HIDE DEF m1, m2
  <2> QED BY <1>2, <2>2
<1>5. b \in Bit
  BY <1>1, <1>2 DEF Bit
<1>6. k * WordBits + b = t
  BY <1>2, <1>3
<1> QED BY <1>2, <1>4, <1>5, <1>6 DEF k, b

\* The bit of a number at a place.
LEMMA BitAtIs ==
    ASSUME NEW n \in Nat, NEW a, NEW A, DigitsOf(a, n, A), NEW t \in 0 .. n * WordBits - 1
    PROVE  BitAt(a, t) = IF t \in A THEN 1 ELSE 0
<1> DEFINE k == t \div WordBits  b == t % WordBits
<1>1. k \in 0 .. n - 1 /\ b \in Bit /\ k * WordBits + b = t
  BY PlaceParts
<1> HIDE DEF k, b
<1>2. a[k] = Num(WordAt(A, k)) /\ WordAt(A, k) \in Word /\ a[k] \in Nat
  BY <1>1, WordsOf DEF DigitsOf
<1>3. b \in BitsOf(a[k]) <=> t \in A
  <2>1. BitsOf(a[k]) = WordAt(A, k)
    BY <1>2, BitsOfNum
  <2> QED BY <1>1, <2>1 DEF WordAt
<1> DEFINE e == (a[k] \div 2 ^ b) % 2
<1>4. e \in {0, 1}
  <2>1. b \in Nat /\ 2 ^ b \in Nat \ {0}
    <3>1. b \in Nat
      BY <1>1, WordBitsAssumption DEF Bit
    <3> QED BY <3>1, PowerOfTwo
  <2> DEFINE p == 2 ^ b
  <2>2. p \in Nat \ {0}
    BY <2>1
  <2> HIDE DEF p
  <2>3. (a[k] \div p) % 2 \in {0, 1}
    <3> DEFINE q == a[k] \div p
    <3>1. q \in Int
      BY <1>2, <2>2
    <3> HIDE DEF q
    <3>2. q % 2 \in {0, 1}
      BY <3>1
    <3> QED BY <3>2 DEF q
  <2> QED BY <2>3 DEF p
<1>5. e = 1 <=> t \in A
  BY <1>1, <1>3 DEF BitsOf
<1>6. BitAt(a, t) = e
  BY DEF BitAt, k, b
<1> HIDE DEF e
<1> QED BY <1>4, <1>5, <1>6

\* A place the quotient does not have yet.
LEMMA SetBit ==
    ASSUME NEW n \in Nat, NEW q \in [0 .. n - 1 -> Nat], NEW Q, PlaceSet(Q), DigitsOf(q, n, Q),
           NEW t \in 0 .. n * WordBits - 1, t \notin Q
    PROVE  DigitsOf([q EXCEPT ![t \div WordBits] = @ + 2 ^ (t % WordBits)], n, Q \cup {t})
<1> DEFINE k == t \div WordBits  b == t % WordBits  Z == Q \cup {t}
           d == [q EXCEPT ![k] = @ + 2 ^ b]
<1>1. k \in 0 .. n - 1 /\ b \in Bit /\ k * WordBits + b = t
  BY PlaceParts
<1>2. k \in Nat /\ b \in Nat
  BY <1>1, WordBitsAssumption DEF Bit
<1> HIDE DEF k, b
<1>3. DOMAIN d = 0 .. n - 1 /\ d[k] = q[k] + 2 ^ b /\ \A j \in 0 .. n - 1 : j # k => d[j] = q[j]
  BY <1>1
<1> HIDE DEF d
<1>4. \A j \in 0 .. n - 1 : \A c \in Bit : j * WordBits + c = t => j = k /\ c = b
  <2> TAKE j \in 0 .. n - 1
  <2> TAKE c \in Bit
  <2>1. j \in Nat
    OBVIOUS
  <2>2. /\ (j * WordBits + c) \div WordBits = j /\ (j * WordBits + c) % WordBits = c
        /\ (k * WordBits + b) \div WordBits = k /\ (k * WordBits + b) % WordBits = b
    BY <1>1, <1>2, <2>1, PlaceIs
  <2> QED BY <1>1, <2>2
<1>5. \A j \in 0 .. n - 1 : j # k => WordAt(Z, j) = WordAt(Q, j)
  BY <1>4 DEF WordAt
<1>6. WordAt(Z, k) = WordAt(Q, k) \cup {b} /\ b \notin WordAt(Q, k)
  BY <1>1, <1>4 DEF WordAt
<1>7. Num(WordAt(Z, k)) = Num(WordAt(Q, k)) + 2 ^ b
  <2> DEFINE C == WordAt(Q, k)  E == WordAt(Z, k)
  <2>1. /\ PlaceSet(C) /\ Num(C) = SumAt(C) /\ Num(C) \in Nat
        /\ Num(E) = SumAt(E)
    <3> HIDE DEF Z
    <3> QED BY WordsOf
  <2>2. E = C \cup {b} /\ b \notin C
    BY <1>6
  <2> HIDE DEF C, E
  <2>4. SumAt(C \cup {b}) = SumAt(C) + 2 ^ b
    BY <1>2, <2>1, <2>2, SumAdds, Zenon
  <2>5. Num(E) = Num(C) + 2 ^ b
    BY <2>1, <2>2, <2>4
  <2> QED BY <2>5 DEF C, E
<1>8. \A j \in 0 .. n - 1 : j \in DOMAIN d /\ d[j] = Num(WordAt(Z, j))
  BY <1>1, <1>3, <1>5, <1>7 DEF DigitsOf
<1> HIDE DEF Z
<1>9. DigitsOf(d, n, Z)
  BY <1>8 DEF DigitsOf
<1> QED BY <1>9 DEF d, k, b, Z

\* A longer array with the same digits.
LEMMA ValPrefix ==
    ASSUME NEW n \in Nat, NEW m \in Nat, n <= m, NEW a, DigitArray(a, n), NEW c, DigitArray(c, m),
           \A k \in 0 .. n - 1 : a[k] = c[k]
    PROVE  Val(a, n, n) = Val(c, m, n)
<1>1. /\ PlaceSet(PlacesOf(a, n)) /\ DigitsOf(a, n, PlacesOf(a, n))
      /\ PlaceSet(PlacesOf(c, m)) /\ DigitsOf(c, m, PlacesOf(c, m))
  BY ValSteps
<1>2. \A k \in 0 .. n - 1 : Num(WordAt(PlacesOf(a, n), k)) = Num(WordAt(PlacesOf(c, m), k))
  BY <1>1 DEF DigitsOf
<1> QED BY <1>1, <1>2, LowSame DEF Val

\* The divisor with one more word.
Wider1(b, n) == [k \in Words(n + 1) |-> D(b, k)]

\* One more word of zeros changes no number.
LEMMA WiderIs ==
    ASSUME NEW n \in Nat, NEW b, DigitArray(b, n)
    PROVE  DigitArray(Wider1(b, n), n + 1) /\ Val(Wider1(b, n), n + 1, n + 1) = Val(b, n, n)
<1> DEFINE c == Wider1(b, n)
<1>1. DOMAIN c = 0 .. (n + 1) - 1 /\ \A k \in 0 .. n : c[k] = D(b, k)
  BY DEF Wider1, Words
<1> HIDE DEF c
<1>2. (\A k \in 0 .. n - 1 : c[k] = b[k] /\ k \in 0 .. n) /\ c[n] = 0
  BY <1>1 DEF DigitArray, D
<1>3. DigitArray(c, n + 1)
  <2>1. \A k \in 0 .. (n + 1) - 1 : c[k] \in Nat /\ c[k] < Base
    <3> TAKE k \in 0 .. (n + 1) - 1
    <3>1. k = n \/ k \in 0 .. n - 1
      OBVIOUS
    <3> QED BY <1>2, <3>1, BaseType DEF DigitArray
  <2> QED BY <1>1, <2>1 DEF DigitArray
<1>4. Val(b, n, n) = Val(c, n + 1, n)
  BY <1>2, <1>3, ValPrefix
<1>5. Val(c, n + 1, n + 1) = Val(c, n + 1, n) + Place(n) * c[n]
  <2>1. n \in 0 .. (n + 1) - 1 /\ n + 1 \in Nat
    OBVIOUS
  <2> QED BY <1>3, <2>1, ValSteps, Zenon
<1>6. Val(c, n + 1, n) \in Nat /\ Place(n) \in Nat
  <2>1. n + 1 \in Nat
    OBVIOUS
  <2> QED BY <1>3, <2>1, ValSteps, Zenon
<1>7. Val(c, n + 1, n + 1) = Val(b, n, n)
  BY <1>2, <1>4, <1>5, <1>6
<1> QED BY <1>3, <1>7 DEF c

\* A step of the restoring division: x is the quotient and the remainder, t the place of the bit.
LongNext(x, a, c, n, t) ==
    LET rem == RemainderShifted(x[2], BitAt(a, t), n)
    IN  IF ~Fits(rem, c) THEN <<x[1], rem>>
        ELSE <<[x[1] EXCEPT ![t \div WordBits] = @ + 2 ^ (t % WordBits)], mw_add(rem, mw_neg(c))>>

\* The quotients and remainders on n words.
Quotients(n)  == [0 .. n - 1 -> Nat]

Remainders(n) == {r \in [0 .. n -> Nat] : DigitArray(r, n + 1)}

\* A step of long_div answers arrays of words.
LEMMA LongType ==
    ASSUME NEW n \in Nat, NEW a, DigitArray(a, n), NEW c, DigitArray(c, n + 1),
           NEW t \in 0 .. n * WordBits - 1, NEW x \in Quotients(n) \X Remainders(n)
    PROVE  LongNext(x, a, c, n, t) \in Quotients(n) \X Remainders(n)
<1> DEFINE bit == BitAt(a, t)
           rem == RemainderShifted(x[2], bit, n)
           sub == mw_add(rem, mw_neg(c))
           q   == [x[1] EXCEPT ![t \div WordBits] = @ + 2 ^ (t % WordBits)]
<1>1. x[1] \in Quotients(n) /\ DigitArray(x[2], n + 1)
  BY DEF Remainders
<1>2. bit \in {0, 1}
  <2>1. DigitsOf(a, n, PlacesOf(a, n))
    BY ValSteps
  <2> QED BY <2>1, BitAtIs
<1>3. DigitArray(rem, n + 1)
  BY <1>1, <1>2, Doubles
<1> HIDE DEF rem
<1>4. DigitArray(sub, n + 1)
  <2>1. n + 1 \in Nat \ {0}
    OBVIOUS
  <2> QED BY <1>3, <2>1, Subtracts, Zenon
<1> HIDE DEF sub
<1>5. \A r : DigitArray(r, n + 1) => r \in [0 .. n -> Nat] \/ r # [k \in 0 .. n |-> r[k]]
  <2> TAKE r
  <2> HAVE DigitArray(r, n + 1)
  <2> SUFFICES ASSUME r = [k \in 0 .. n |-> r[k]] PROVE r \in [0 .. n -> Nat]
    OBVIOUS
  <2>1. (n + 1) - 1 = n
    OBVIOUS
  <2>2. \A k \in 0 .. n : r[k] \in Nat
    BY <2>1 DEF DigitArray
  <2> QED BY <2>2
<1>6. rem = [k \in 0 .. n |-> rem[k]] /\ sub = [k \in 0 .. n |-> sub[k]]
  <2>1. Words(n + 1) = 0 .. n
    BY DEF Words
  <2>2. rem = [k \in 0 .. n |-> rem[k]]
    BY <2>1 DEF rem, RemainderShifted
  <2>3. DOMAIN rem = 0 .. n
    BY <2>1 DEF rem, RemainderShifted
  <2>4. sub = [k \in 0 .. n |-> sub[k]]
    BY <2>3 DEF sub, mw_add
  <2> QED BY <2>2, <2>4
<1>7. rem \in Remainders(n) /\ sub \in Remainders(n)
  BY <1>3, <1>4, <1>5, <1>6 DEF Remainders
<1>8. q \in Quotients(n)
  <2>1. t \div WordBits \in 0 .. n - 1 /\ t % WordBits \in Bit
    BY PlaceParts
  <2> DEFINE k == t \div WordBits  b == t % WordBits
  <2>2. b \in Nat
    BY <2>1, WordBitsAssumption DEF Bit
  <2> HIDE DEF k, b
  <2>3. 2 ^ b \in Nat
    BY <2>2, PowerOfTwo
  <2>4. \A m \in Nat : m + 2 ^ b \in Nat
    BY <2>3
  <2>5. [x[1] EXCEPT ![k] = @ + 2 ^ b] \in Quotients(n)
    BY <1>1, <2>4 DEF Quotients
  <2> QED BY <2>5 DEF k, b
<1>9. LongNext(x, a, c, n, t) = IF ~Fits(rem, c) THEN <<x[1], rem>> ELSE <<q, sub>>
  BY DEF LongNext, rem, sub
<1> HIDE DEF q
<1> QED BY <1>1, <1>7, <1>8, <1>9

\* The bits of A at t and above.
Above(A, t) == SumAt(A) - SumAt(Below(A, t))

\* The number of the places from t up, by counting places.
LEMMA AboveSteps ==
    ASSUME NEW A, PlaceSet(A), NEW t \in Nat
    PROVE  /\ Above(A, t) \in Int
           /\ Above(A, t) = Above(A, t + 1) + (IF t \in A THEN 2 ^ t ELSE 0)
<1> DEFINE L == Below(A, t)  M == Below(A, t + 1)
<1>1. PlaceSet(L) /\ SumAt(L) \in Nat /\ SumAt(A) \in Nat
  BY BelowType, SumType
<1>2. 2 ^ t \in Nat
  BY PowerOfTwo
<1>3. \A i \in A : i \in Nat
  BY DEF PlaceSet
<1>4. CASE t \in A
  <2>0. \A i \in A : (i < t + 1 <=> i < t \/ i = t) /\ ~(t < t)
    BY <1>3
  <2>1. M = L \cup {t} /\ t \notin L
    BY <1>4, <2>0, Zenon DEF Below
  <2> HIDE DEF L, M
  <2>2. SumAt(M) = SumAt(L) + 2 ^ t
    BY <1>1, <2>1, SumAdds, Zenon
  <2>3. Above(A, t) = SumAt(A) - SumAt(L) /\ Above(A, t + 1) = SumAt(A) - SumAt(M)
    BY DEF Above, L, M
  <2> QED BY <1>1, <1>2, <1>4, <2>2, <2>3
<1>5. CASE t \notin A
  <2>1. M = L
    BY <1>3, <1>5 DEF Below
  <2> HIDE DEF L, M
  <2>2. Above(A, t) = SumAt(A) - SumAt(L) /\ Above(A, t + 1) = SumAt(A) - SumAt(M)
    BY DEF Above, L, M
  <2> QED BY <1>1, <1>5, <2>1, <2>2
<1> QED BY <1>4, <1>5

\* What holds when the bits of A above t are divided by y: x is the quotient, at the places Q, and the remainder.
DividedAbove(x, A, y, n, t) ==
    /\ Val(x[2], n + 1, n + 1) < y
    /\ \E Q : /\ PlaceSet(Q) /\ (\A i \in Q : t <= i) /\ Below(Q, n * WordBits) = Q /\ DigitsOf(x[1], n, Q)
              /\ Above(A, t) = y * SumAt(Q) + Val(x[2], n + 1, n + 1) * 2 ^ t

\* A step of long_div keeps quotient and remainder those of the bits seen.
LEMMA LongKeeps ==
    ASSUME NEW n \in Nat \ {0}, NEW a, DigitArray(a, n), NEW c, DigitArray(c, n + 1),
           Val(c, n + 1, n + 1) < Place(n), NEW t \in 0 .. n * WordBits - 1,
           NEW x \in Quotients(n) \X Remainders(n),
           DividedAbove(x, PlacesOf(a, n), Val(c, n + 1, n + 1), n, t + 1)
    PROVE  DividedAbove(LongNext(x, a, c, n, t), PlacesOf(a, n), Val(c, n + 1, n + 1), n, t)
<1> DEFINE A == PlacesOf(a, n)
           y == Val(c, n + 1, n + 1)
           bit == BitAt(a, t)
           rem == RemainderShifted(x[2], bit, n)
           sub == mw_add(rem, mw_neg(c))
           q   == [x[1] EXCEPT ![t \div WordBits] = @ + 2 ^ (t % WordBits)]
           r   == Val(x[2], n + 1, n + 1)
           r1  == Val(rem, n + 1, n + 1)
           r2  == Val(sub, n + 1, n + 1)
           p   == 2 ^ t
           z   == LongNext(x, a, c, n, t)
<1>0. t \in Nat /\ n + 1 \in Nat \ {0} /\ n * WordBits \in Nat /\ t < n * WordBits
  BY WordBitsAssumption
<1>1. x[1] \in Quotients(n) /\ DigitArray(x[2], n + 1)
  BY DEF Remainders
<1>2. PlaceSet(A) /\ DigitsOf(a, n, A)
  BY ValSteps
<1>3. bit = IF t \in A THEN 1 ELSE 0
  BY <1>2, BitAtIs
<1>4. bit \in {0, 1}
  BY <1>3
<1>5. /\ DigitArray(rem, n + 1)
      /\ 2 * r + bit < Place(n + 1) => r1 = 2 * r + bit
  BY <1>1, <1>4, Doubles
<1> HIDE DEF rem
<1>6. /\ DigitArray(sub, n + 1)
      /\ y <= r1 => r2 = r1 - y
  BY <1>0, <1>5, Subtracts, Zenon
<1>7. Fits(rem, c) <=> y <= r1
  BY <1>0, <1>5, Leq, Zenon DEF Fits
<1>8. z = IF ~Fits(rem, c) THEN <<x[1], rem>> ELSE <<q, sub>>
  BY DEF LongNext, rem, sub
<1>9. r \in Nat /\ r1 \in Nat /\ y \in Nat /\ y < Place(n) /\ Place(n) \in Nat /\ Place(n + 1) = Place(n) * Base
  <2>1. n + 1 \in Nat /\ n \in Nat
    OBVIOUS
  <2>2. r \in Nat /\ r1 \in Nat /\ y \in Nat
    BY <1>1, <1>5, <2>1, ValSteps, Zenon
  <2> QED BY <2>1, <2>2, ValSteps, Zenon
<1>10. r < y
  BY DEF DividedAbove
<1>11. PICK Q : /\ PlaceSet(Q) /\ (\A i \in Q : t + 1 <= i) /\ Below(Q, n * WordBits) = Q /\ DigitsOf(x[1], n, Q)
                /\ Above(A, t + 1) = y * SumAt(Q) + r * 2 ^ (t + 1)
  BY DEF DividedAbove
<1>12. p \in Nat /\ 2 ^ (t + 1) = p + p
  BY <1>0, PowerOfTwo
<1>13. Above(A, t) = Above(A, t + 1) + (IF t \in A THEN p ELSE 0)
  BY <1>0, <1>2, AboveSteps
<1>14. SumAt(Q) \in Nat
  BY <1>11, SumType
<1>15. t \notin Q
  <2>1. ~(t + 1 <= t)
    BY <1>0
  <2> QED BY <1>11, <2>1
<1>16. DigitsOf(q, n, Q \cup {t})
  <2>1. x[1] \in [0 .. n - 1 -> Nat]
    BY <1>1 DEF Quotients
  <2> HIDE DEF q
  <2> DEFINE u == x[1]
  <2>2. u \in [0 .. n - 1 -> Nat] /\ DigitsOf(u, n, Q)
    BY <1>11, <2>1
  <2> HIDE DEF u
  <2>3. DigitsOf([u EXCEPT ![t \div WordBits] = @ + 2 ^ (t % WordBits)], n, Q \cup {t})
    BY <1>11, <1>15, <2>2, SetBit
  <2> QED BY <2>3 DEF q, u
<1>17. PlaceSet(Q \cup {t}) /\ SumAt(Q \cup {t}) = SumAt(Q) + p
  BY <1>0, <1>11, <1>15, SumAdds
<1>18. Below(Q \cup {t}, n * WordBits) = Q \cup {t} /\ (\A i \in Q \cup {t} : t <= i) /\ (\A i \in Q : t <= i)
  <2>1. \A i \in Q : i \in Nat /\ t <= i /\ i < n * WordBits
    BY <1>0, <1>11 DEF PlaceSet, Below
  <2>2. \A i \in Q \cup {t} : t <= i /\ i < n * WordBits
    BY <1>0, <2>1
  <2> QED BY <2>1, <2>2 DEF Below
<1>19. r1 = 2 * r + bit
  <2>1. Base \in Nat /\ Base >= 2
    <3>1. 0 \in Nat /\ 0 < Base
      BY BaseType
    <3>2. PICK e \in Nat : e + 1 < Base
      BY <3>1, DoubleDigit
    <3> QED BY <3>2, BaseType
  <2> DEFINE f == Place(n)  g == Place(n + 1)
  <2>2. g = f * Base /\ f \in Nat
    BY <1>9
  <2>3. f * Base >= f * 2
    <3> HIDE DEF f
    <3> QED BY <2>1, <2>2
  <2> HIDE DEF f, g, r, y
  <2>4. 2 * r + bit < f * 2
    BY <1>4, <1>9, <1>10 DEF f
  <2>5. f * Base \in Nat /\ f * 2 \in Nat /\ 2 * r + bit \in Nat
    BY <1>4, <1>9, <2>1, <2>2
  <2>6. 2 * r + bit < g
    BY <2>2, <2>3, <2>4, <2>5
  <2> QED BY <1>5, <2>6 DEF g, r
<1> DEFINE s == SumAt(Q)  X == Above(A, t)  X1 == Above(A, t + 1)
<1>20. X = y * s + r1 * p
  <2>1. X1 = y * s + r * (p + p) /\ X = X1 + (IF t \in A THEN p ELSE 0)
    BY <1>11, <1>12, <1>13
  <2>2. s \in Nat /\ r \in Nat /\ y \in Nat /\ p \in Nat /\ bit \in {0, 1}
    BY <1>4, <1>9, <1>12, <1>14
  <2>3. (IF t \in A THEN p ELSE 0) = bit * p
    BY <1>3, <2>2
  <2> HIDE DEF s, X, X1, r, r1, y, p, bit
  <2>4. r1 * p = r * (p + p) + bit * p
    <3>1. (2 * r + bit) * p = 2 * r * p + bit * p
      BY <2>2
    <3>2. r * (p + p) = 2 * r * p
      BY <2>2
    <3> QED BY <1>19, <3>1, <3>2
  <2> DEFINE m1 == y * s  m2 == r * (p + p)  m3 == bit * p
  <2>5. m1 \in Nat /\ m2 \in Nat /\ m3 \in Nat
    BY <2>2
  <2>6. X = m1 + m2 + m3 /\ r1 * p = m2 + m3
    BY <2>1, <2>3, <2>4
  <2> HIDE DEF m1, m2, m3
  <2>7. X = m1 + r1 * p
    BY <2>5, <2>6
  <2> QED BY <2>7 DEF m1
<1>21. CASE ~Fits(rem, c)
  <2>1. z[1] = x[1] /\ z[2] = rem
    BY <1>8, <1>21
  <2>2. r1 < y
    BY <1>7, <1>9, <1>21
  <2> HIDE DEF z, r, r1, y, rem, A
  <2>3. /\ Val(z[2], n + 1, n + 1) < y
        /\ PlaceSet(Q) /\ (\A i \in Q : t <= i) /\ Below(Q, n * WordBits) = Q /\ DigitsOf(z[1], n, Q)
        /\ Above(A, t) = y * SumAt(Q) + Val(z[2], n + 1, n + 1) * 2 ^ t
    BY <1>11, <1>18, <1>20, <2>1, <2>2 DEF r1
  <2>4. DividedAbove(z, A, y, n, t)
    BY <2>3 DEF DividedAbove
  <2> QED BY <2>4 DEF z, A, y
<1>22. CASE Fits(rem, c)
  <2>1. z[1] = q /\ z[2] = sub
    BY <1>8, <1>22
  <2>2. y <= r1 /\ r2 = r1 - y
    BY <1>6, <1>7, <1>22
  <2> DEFINE Z == Q \cup {t}
  <2>3. PlaceSet(Z) /\ SumAt(Z) = s + p /\ Below(Z, n * WordBits) = Z /\ (\A i \in Z : t <= i) /\ DigitsOf(q, n, Z)
    BY <1>16, <1>17, <1>18
  <2> HIDE DEF Z, q, sub, z, A, r, r1, r2, y, p, s, bit
  <2>4. r2 < y
    BY <1>4, <1>9, <1>10, <1>19, <2>2
  <2>5. X = y * SumAt(Z) + r2 * p
    <3>1. s \in Nat /\ r1 \in Nat /\ y \in Nat /\ p \in Nat /\ r2 \in Nat
      BY <1>9, <1>12, <1>14, <2>2 DEF s
    <3>2. y * (s + p) = y * s + y * p
      BY <3>1
    <3>3. (r1 - y) * p = r1 * p - y * p
      BY <3>1
    <3> DEFINE m1 == y * s  m2 == y * p  m3 == r1 * p  m4 == r2 * p  m5 == y * (s + p)
    <3>4. m1 \in Nat /\ m2 \in Nat /\ m3 \in Nat /\ m4 \in Nat /\ m5 = m1 + m2 /\ m4 = m3 - m2
      BY <2>2, <3>1, <3>2, <3>3
    <3>5. X = m1 + m3
      BY <1>20
    <3> HIDE DEF m1, m2, m3, m4, m5, X
    <3>6. X = m5 + m4
      BY <3>4, <3>5
    <3> QED BY <2>3, <3>6 DEF m5, m4
  <2>6. /\ Val(z[2], n + 1, n + 1) < y
        /\ PlaceSet(Z) /\ (\A i \in Z : t <= i) /\ Below(Z, n * WordBits) = Z /\ DigitsOf(z[1], n, Z)
        /\ Above(A, t) = y * SumAt(Z) + Val(z[2], n + 1, n + 1) * 2 ^ t
    BY <2>1, <2>3, <2>4, <2>5 DEF r2, p
  <2>7. DividedAbove(z, A, y, n, t)
    BY <2>6 DEF DividedAbove
  <2> QED BY <2>7 DEF z, A, y
<1> QED BY <1>21, <1>22

\* The division by more than one word.
LongStep(f, a, c, n) ==
    [i \in 0 .. n * WordBits |-> IF i = 0 THEN <<mw_zero(n), mw_zero(n + 1)>>
                                 ELSE LongNext(f[i - 1], a, c, n, n * WordBits - i)]

Longs(a, c, n) == CHOOSE f : f = LongStep(f, a, c, n)

\* long_div is its last step.
LEMMA LongIs ==
    ASSUME NEW n \in Nat, NEW a, DOMAIN a = 0 .. n - 1, NEW b
    PROVE  long_div(a, b) =
              LET last == Longs(a, Wider1(b, n), n)[n * WordBits]
              IN  <<last[1], [k \in Words(n) |-> last[2][k]]>>
<1>1. Cardinality(DOMAIN a) = n
  <2>1. 0 \in Int /\ n - 1 \in Int
    OBVIOUS
  <2> QED BY <2>1, FS_Interval
<1> DEFINE m == Cardinality(DOMAIN a)
<1>2. long_div(a, b) =
              LET last == Longs(a, Wider1(b, m), m)[m * WordBits]
              IN  <<last[1], [k \in Words(m) |-> last[2][k]]>>
  BY DEF long_div, Longs, LongStep, LongNext, RemainderShifted, Wider1
<1> QED BY <1>1, <1>2

\* The steps of long_div follow each other.
LEMMA LongSteps ==
    ASSUME NEW n \in Nat \ {0}, NEW a, DigitArray(a, n), NEW c, DigitArray(c, n + 1)
    PROVE  LET F == Longs(a, c, n)
               m == n * WordBits
           IN  /\ F[0] = <<mw_zero(n), mw_zero(n + 1)>>
               /\ \A i \in 0 .. m : F[i] \in Quotients(n) \X Remainders(n)
               /\ \A i \in 0 .. m - 1 : F[i + 1] = LongNext(F[i], a, c, n, m - (i + 1))
<1> DEFINE m == n * WordBits
           S == Quotients(n) \X Remainders(n)
           z == <<mw_zero(n), mw_zero(n + 1)>>
           H == [p \in Nat \X S |-> IF m - p[1] \in 0 .. m - 1 THEN LongNext(p[2], a, c, n, m - p[1]) ELSE p[2]]
<1>0. m \in Nat
  BY WordBitsAssumption
<1>1. ASSUME NEW j \in Nat, NEW x \in S PROVE H[<<j, x>>] \in S
  <2>1. H[<<j, x>>] = IF m - j \in 0 .. m - 1 THEN LongNext(x, a, c, n, m - j) ELSE x
    <3> HIDE DEF S, m
    <3> QED OBVIOUS
  <2>2. m - j \in 0 .. m - 1 => LongNext(x, a, c, n, m - j) \in S
    BY LongType
  <2> HIDE DEF H, S
  <2> QED BY <2>1, <2>2
<1>2. z \in S
  <2>1. mw_zero(n) = [k \in 0 .. n - 1 |-> 0] /\ mw_zero(n + 1) = [k \in 0 .. n |-> 0] /\ (n + 1) - 1 = n
    BY DEF mw_zero, Words
  <2>2. DigitArray([k \in 0 .. n |-> 0], n + 1)
    BY <2>1, BaseType DEF DigitArray
  <2>3. [k \in 0 .. n |-> 0] \in [0 .. n -> Nat] /\ [k \in 0 .. n - 1 |-> 0] \in [0 .. n - 1 -> Nat]
    OBVIOUS
  <2> QED BY <2>1, <2>2, <2>3 DEF Quotients, Remainders
<1>3. PICK f \in [0 .. m -> S] : Solves(f, m, z, H)
  <2> HIDE DEF H, S, z, m
  <2>1. Stays(H, S)
    BY <1>1 DEF Stays
  <2> QED BY <1>0, <1>2, <2>1, Recursion
<1> HIDE DEF z
<1>4. ASSUME NEW j \in 0 .. m, j # 0
      PROVE  H[<<j, f[j - 1]>>] = LongNext(f[j - 1], a, c, n, m - j)
  <2>1. j \in Nat /\ m - j \in 0 .. m - 1 /\ j - 1 \in 0 .. m
    BY <1>0, <1>4
  <2>2. f[j - 1] \in S
    BY <2>1
  <2> DEFINE x == f[j - 1]
  <2>3. x \in S
    BY <2>2
  <2> HIDE DEF x, S, m
  <2>4. H[<<j, x>>] = LongNext(x, a, c, n, m - j)
    BY <2>1, <2>3
  <2> QED BY <2>4 DEF x
<1> HIDE DEF H, S
<1>5. \A j \in 0 .. m : f[j] = IF j = 0 THEN z ELSE LongNext(f[j - 1], a, c, n, m - j)
  <2> HIDE DEF m
  <2> QED BY <1>3, <1>4, Zenon DEF Solves
<1>6. f = LongStep(f, a, c, n)
  <2>1. f = [j \in 0 .. m |-> f[j]]
    OBVIOUS
  <2>2. f = [j \in 0 .. m |-> IF j = 0 THEN z ELSE LongNext(f[j - 1], a, c, n, m - j)]
    <3> HIDE DEF m
    <3> QED BY <1>5, <2>1, Zenon
  <2> QED BY <2>2 DEF LongStep, m, z
<1> DEFINE F == Longs(a, c, n)
<1>7. F = LongStep(F, a, c, n)
  BY <1>6 DEF Longs
<1> HIDE DEF F
<1>8. \A j \in 0 .. m : F[j] = IF j = 0 THEN z ELSE LongNext(F[j - 1], a, c, n, m - j)
  BY <1>7 DEF LongStep, z, m
<1> HIDE DEF m
<1>9. F[0] = z
  <2>1. 0 \in 0 .. m
    BY <1>0
  <2> QED BY <1>8, <2>1, Zenon
<1>10. \A i \in 0 .. m - 1 : F[i + 1] = LongNext(F[i], a, c, n, m - (i + 1))
  <2> TAKE i \in 0 .. m - 1
  <2> DEFINE j == i + 1
  <2>1. j \in 0 .. m /\ j # 0 /\ j - 1 = i
    BY <1>0
  <2> HIDE DEF j
  <2>2. F[j] = LongNext(F[j - 1], a, c, n, m - j)
    BY <1>8, <2>1, Zenon
  <2> QED BY <2>1, <2>2 DEF j
<1> DEFINE P == {i \in Nat : i <= m => F[i] \in S}
<1>11. 0 \in P
  BY <1>2, <1>9
<1>12. ASSUME NEW i \in Nat, i \in P PROVE i + 1 \in P
  <2> SUFFICES ASSUME i + 1 <= m PROVE F[i + 1] \in S
    OBVIOUS
  <2> DEFINE t == m - (i + 1)
  <2>1. i \in 0 .. m - 1 /\ t \in 0 .. m - 1 /\ i <= m
    BY <1>0
  <2>2. F[i] \in S
    BY <1>12, <2>1
  <2>3. F[i + 1] = LongNext(F[i], a, c, n, t)
    BY <1>10, <2>1
  <2> HIDE DEF t
  <2>4. LongNext(F[i], a, c, n, t) \in S
    BY <2>1, <2>2, LongType DEF S, m
  <2> QED BY <2>3, <2>4
<1>13. \A i \in 0 .. m : F[i] \in S
  <2>1. \A i \in Nat : i \in P
    <3> HIDE DEF P
    <3> QED BY <1>11, <1>12, SetInduction
  <2> QED BY <1>0, <2>1
<1> QED BY <1>9, <1>10, <1>13 DEF F, S, m, z

\* No places.
LEMMA NoPlaces == PlaceSet({}) /\ SumAt({}) = 0 /\ \A n : Below({}, n) = {}
<1>1. PlaceSet({})
  BY FS_EmptySet DEF PlaceSet
<1> QED BY <1>1, SumType DEF Below

\* The restoring division, with a divisor that is not zero.
LEMMA LongDivides ==
    ASSUME NEW n \in Nat \ {0}, NEW a, DigitArray(a, n), NEW b, DigitArray(b, n), Val(b, n, n) # 0
    PROVE  Divided(long_div(a, b), n, Val(a, n, n), Val(b, n, n))
<1> DEFINE c == Wider1(b, n)
           y == Val(b, n, n)
           m == n * WordBits
           F == Longs(a, c, n)
           A == PlacesOf(a, n)
           S == Quotients(n) \X Remainders(n)
<1>0. m \in Nat
  BY WordBitsAssumption
<1>1. DigitArray(c, n + 1) /\ Val(c, n + 1, n + 1) = y
  BY WiderIs
<1>2. y \in Nat /\ y < Place(n) /\ Place(n) \in Nat /\ y # 0
  <2>1. n \in Nat
    OBVIOUS
  <2> QED BY <2>1, ValSteps, Zenon
<1> HIDE DEF c
<1>3. /\ F[0] = <<mw_zero(n), mw_zero(n + 1)>>
      /\ \A i \in 0 .. m : F[i] \in S
      /\ \A i \in 0 .. m - 1 : F[i + 1] = LongNext(F[i], a, c, n, m - (i + 1))
  BY <1>1, LongSteps
<1>4. PlaceSet(A) /\ Below(A, m) = A /\ DigitsOf(a, n, A)
  BY DigitSet DEF DigitArray
<1>5. DividedAbove(F[0], A, y, n, m)
  <2>1. Above(A, m) = 0
    <3>1. SumAt(A) \in Nat
      BY <1>4, SumType
    <3> HIDE DEF A, m
    <3> QED BY <1>4, <3>1 DEF Above
  <2>2. PlaceSet({}) /\ SumAt({}) = 0 /\ Below({}, m) = {}
    BY NoPlaces
  <2>3. F[0][1] = mw_zero(n) /\ F[0][2] = mw_zero(n + 1)
    BY <1>3
  <2> HIDE DEF F, A, m, y
  <2>4. DigitsOf(mw_zero(n), n, {})
    <3>1. \A k \in 0 .. n - 1 : k \in DOMAIN mw_zero(n) /\ mw_zero(n)[k] = 0
      BY DEF mw_zero, Words
    <3>2. \A k : WordAt({}, k) = {}
      BY DEF WordAt
    <3>3. \A k : Num(WordAt({}, k)) = 0
      BY <2>2, <3>2, WordsOf
    <3> QED BY <3>1, <3>3 DEF DigitsOf
  <2>5. Val(mw_zero(n + 1), n + 1, n + 1) = 0
    <3> DEFINE z == mw_zero(n + 1)  e == n + 1
    <3>1. e \in Nat /\ DOMAIN z = 0 .. e - 1
      BY DEF mw_zero, Words
    <3>2. DigitsOf(z, e, {})
      <4>1. \A k \in 0 .. e - 1 : k \in DOMAIN z /\ z[k] = 0
        BY DEF mw_zero, Words
      <4>2. \A k : WordAt({}, k) = {}
        BY DEF WordAt
      <4>3. \A k : Num(WordAt({}, k)) = 0
        BY <2>2, <4>2, WordsOf
      <4> QED BY <4>1, <4>3 DEF DigitsOf
    <3>3. e \in 0 .. e
      BY <3>1
    <3> HIDE DEF z, e
    <3>4. Val(z, e, e) = Low({}, e)
      BY <2>2, <3>1, <3>2, <3>3, ValOf
    <3>5. Low({}, e) = 0
      <4>1. Below({}, e * WordBits) = {}
        BY DEF Below
      <4> QED BY <2>2, <4>1 DEF Low
    <3> QED BY <3>4, <3>5 DEF z, e
  <2>6. y * 0 + 0 * 2 ^ m = 0
    BY <1>0, <1>2, PowerOfTwo
  <2>7. /\ Val(F[0][2], n + 1, n + 1) < y
        /\ PlaceSet({}) /\ (\A i \in {} : m <= i) /\ Below({}, n * WordBits) = {} /\ DigitsOf(F[0][1], n, {})
        /\ Above(A, m) = y * SumAt({}) + Val(F[0][2], n + 1, n + 1) * 2 ^ m
    <3>1. 0 < y
      BY <1>2
    <3> QED BY <2>1, <2>2, <2>3, <2>4, <2>5, <2>6, <3>1 DEF m
  <2> QED BY <2>7 DEF DividedAbove
<1> DEFINE P == {i \in Nat : i <= m => DividedAbove(F[i], A, y, n, m - i)}
<1>6. 0 \in P
  <2>1. m - 0 = m
    BY <1>0
  <2> QED BY <1>5, <2>1
<1>7. ASSUME NEW i \in Nat, i \in P PROVE i + 1 \in P
  <2> SUFFICES ASSUME i + 1 <= m PROVE DividedAbove(F[i + 1], A, y, n, m - (i + 1))
    OBVIOUS
  <2> DEFINE t == m - (i + 1)
  <2>1. i \in 0 .. m - 1 /\ i \in 0 .. m /\ t \in 0 .. m - 1 /\ i <= m /\ t + 1 = m - i
    BY <1>0
  <2>2. F[i] \in S /\ DividedAbove(F[i], A, y, n, t + 1)
    BY <1>3, <1>7, <2>1
  <2>3. F[i + 1] = LongNext(F[i], a, c, n, t)
    BY <1>3, <2>1
  <2>4. y < Place(n)
    BY <1>2
  <2> HIDE DEF t, F, A, y
  <2>5. DividedAbove(LongNext(F[i], a, c, n, t), A, y, n, t)
    <3>1. t \in 0 .. n * WordBits - 1 /\ F[i] \in Quotients(n) \X Remainders(n)
      BY <2>1, <2>2
    <3> QED BY <1>1, <2>2, <2>4, <3>1, LongKeeps, Zenon DEF A
  <2> QED BY <2>3, <2>5 DEF t
<1>8. DividedAbove(F[m], A, y, n, 0) /\ F[m] \in S
  <2>1. m \in P
    <3> HIDE DEF P
    <3> QED BY <1>0, <1>6, <1>7, SetInduction
  <2>2. m <= m /\ m - m = 0 /\ m \in 0 .. m
    BY <1>0
  <2> QED BY <1>3, <2>1, <2>2
<1> HIDE DEF P
<1> DEFINE q == F[m][1]
           f == F[m][2]
           R == [k \in Words(n) |-> f[k]]
           r == Val(f, n + 1, n + 1)
<1>9. long_div(a, b) = <<q, R>>
  BY LongIs DEF DigitArray, c
<1>10. q \in [0 .. n - 1 -> Nat] /\ DigitArray(f, n + 1)
  BY <1>8 DEF Quotients, Remainders
<1>11. PICK Q : PlaceSet(Q) /\ Below(Q, m) = Q /\ DigitsOf(q, n, Q) /\ Above(A, 0) = y * SumAt(Q) + r * 2 ^ 0
  BY <1>8 DEF DividedAbove
<1>12. r < y
  BY <1>8 DEF DividedAbove
<1> HIDE DEF F
<1>13. Val(a, n, n) = Above(A, 0)
  <2>1. Below(A, 0) = {}
    BY <1>4 DEF Below, PlaceSet
  <2>2. SumAt({}) = 0 /\ SumAt(A) \in Nat
    BY <1>4, SumType, NoPlaces
  <2>3. Val(a, n, n) = SumAt(A)
    BY <1>4 DEF Val, Low
  <2> HIDE DEF A
  <2> QED BY <2>1, <2>2, <2>3 DEF Above
<1>14. DigitArray(q, n) /\ Val(q, n, n) = SumAt(Q)
  <2>1. DOMAIN q = 0 .. n - 1 /\ n \in 0 .. n
    BY <1>10
  <2> HIDE DEF q
  <2>2. DigitArray(q, n) /\ Val(q, n, n) = Low(Q, n)
    BY <1>11, <2>1, ValOf
  <2> QED BY <1>11, <2>2 DEF Low
<1>15. DigitArray(R, n) /\ Val(R, n, n) = r
  <2>1. DOMAIN R = 0 .. n - 1 /\ \A k \in 0 .. n - 1 : R[k] = f[k]
    BY DEF Words
  <2> HIDE DEF R, f
  <2>2. DigitArray(R, n)
    BY <1>10, <2>1 DEF DigitArray
  <2>3. Val(R, n, n) = Val(f, n + 1, n)
    <3>1. n + 1 \in Nat /\ n <= n + 1
      OBVIOUS
    <3> QED BY <1>10, <2>1, <2>2, <3>1, ValPrefix
  <2>4. /\ Val(f, n + 1, n) \in Nat
        /\ r = Val(f, n + 1, n) + Place(n) * f[n]
    <3>1. n \in 0 .. (n + 1) - 1 /\ n + 1 \in Nat /\ n \in Nat
      OBVIOUS
    <3> QED BY <1>10, <3>1, ValSteps, Zenon
  <2>5. f[n] \in Nat
    BY <1>10 DEF DigitArray
  <2> DEFINE v == Val(f, n + 1, n)  p == Place(n)  d == f[n]
  <2>6. v \in Nat /\ p \in Nat /\ d \in Nat /\ r = v + p * d /\ r < y /\ y < p
    BY <1>2, <1>12, <2>4, <2>5
  <2> HIDE DEF v, p, d, r, y
  <2>7. d = 0
    <3> SUFFICES ASSUME d # 0 PROVE FALSE
      OBVIOUS
    <3>1. d >= 1
      BY <2>6
    <3>2. p * d >= p /\ p * d \in Nat
      BY <2>6, <3>1
    <3> DEFINE e == p * d
    <3> HIDE DEF e
    <3>3. r = v + e /\ e >= p /\ e \in Nat
      BY <2>6, <3>2 DEF e
    <3> QED BY <1>2, <2>6, <3>3
  <2>8. r = v
    BY <2>6, <2>7
  <2> QED BY <2>2, <2>3, <2>8 DEF v
<1>16. Val(a, n, n) = y * Val(q, n, n) + Val(R, n, n)
  <2>1. r \in Nat /\ 2 ^ 0 = 1
    <3>1. n + 1 \in Nat
      OBVIOUS
    <3>2. r \in Nat
      BY <1>10, <3>1, ValSteps, Zenon
    <3> QED BY <3>2, PowerOfTwo
  <2> HIDE DEF r, y, R, q, A
  <2>2. r * 2 ^ 0 = r
    BY <2>1
  <2> QED BY <1>11, <1>13, <1>14, <1>15, <2>2
<1> HIDE DEF q, R, y, r
<1>17. Divided(<<q, R>>, n, Val(a, n, n), y)
  BY <1>12, <1>14, <1>15, <1>16 DEF Divided
<1> QED BY <1>9, <1>17 DEF y

\* The division on words, with a divisor that is not zero.
THEOREM DivModDivides ==
    ASSUME NEW n \in Nat \ {0}, NEW a, DigitArray(a, n), NEW b, DigitArray(b, n), Val(b, n, n) # 0
    PROVE  Divided(mw_divmod(a, b), n, Val(a, n, n), Val(b, n, n))
<1>1. CASE \A k \in DOMAIN b : k > 0 => b[k] = 0
  <2>1. DOMAIN b = 0 .. n - 1 /\ 0 \in 0 .. n - 1 /\ b[0] \in Nat /\ b[0] < Base
    BY DEF DigitArray
  <2>2. \A k \in Nat : Val(b, n, k) \in Nat /\ Place(k) \in Nat /\ Place(0) = 1
    BY ValSteps
  <2>3. Val(b, n, 0) = 0 /\ \A k \in 0 .. n - 1 : Val(b, n, k + 1) = Val(b, n, k) + Place(k) * b[k]
    BY ValSteps
  <2> DEFINE P == {k \in Nat : k < n => Val(b, n, k + 1) = b[0]}
  <2>4. 0 \in P
    <3>1. Val(b, n, 0 + 1) = 0 + 1 * b[0]
      BY <2>1, <2>2, <2>3
    <3> QED BY <2>1, <3>1
  <2>5. ASSUME NEW k \in Nat, k \in P PROVE k + 1 \in P
    <3> SUFFICES ASSUME k + 1 < n PROVE Val(b, n, (k + 1) + 1) = b[0]
      OBVIOUS
    <3> DEFINE j == k + 1
    <3>1. j \in 0 .. n - 1 /\ j > 0 /\ j \in Nat /\ k < n
      OBVIOUS
    <3>2. Val(b, n, j) = b[0]
      BY <2>5, <3>1
    <3> HIDE DEF j
    <3>3. Val(b, n, j + 1) = Val(b, n, j) + Place(j) * 0
      BY <1>1, <2>1, <2>3, <3>1
    <3>4. Val(b, n, j) \in Nat /\ Place(j) \in Nat
      BY <2>2, <3>1
    <3>5. Val(b, n, j + 1) = b[0]
      BY <3>2, <3>3, <3>4
    <3> QED BY <3>5 DEF j
  <2>6. n - 1 \in P
    <3>1. n - 1 \in Nat
      OBVIOUS
    <3> HIDE DEF P
    <3> QED BY <2>4, <2>5, <3>1, SetInduction
  <2>7. n - 1 < n /\ (n - 1) + 1 = n
    OBVIOUS
  <2>8. Val(b, n, n) = b[0]
    BY <2>6, <2>7
  <2>9. Divided(short_div(a, b[0]), n, Val(a, n, n), b[0])
    BY <2>1, <2>8, ShortDivides
  <2> QED BY <1>1, <2>8, <2>9 DEF mw_divmod
<1>2. CASE ~\A k \in DOMAIN b : k > 0 => b[k] = 0
  BY <1>2, LongDivides DEF mw_divmod
<1> QED BY <1>1, <1>2

-----------------------------------------------------------------------------
(* Signs and magnitudes.                                                   *)

\* A number made negative, in words and under the mask of the width.
LEMMA MaskedNegation ==
    ASSUME NEW w \in Nat, NEW a, DOMAIN a = 0 .. NWords(w) - 1, NEW B, PlaceSet(B),
           DigitsOf(a, NWords(w), B), Below(B, NWords(w) * WordBits) = B
    PROVE  \E C : /\ PlaceSet(C) /\ DigitsOf(mw_mask(mw_neg(a), w), NWords(w), C)
                  /\ DOMAIN mw_mask(mw_neg(a), w) = 0 .. NWords(w) - 1
                  /\ Below(C, NWords(w) * WordBits) = C /\ SumAt(C) \in Nat /\ SumAt(C) < 2 ^ w
                  /\ Alike(SumAt(C), -SumAt(B), w)
<1> DEFINE n == NWords(w)  m == n * WordBits
<1>1. n \in Nat \ {0} /\ m \in Nat /\ w <= m
  BY WordsHold
<1> HIDE DEF n
<1>2. SumAt(B) \in Nat
  BY SumType
<1>3. PICK C : /\ PlaceSet(C) /\ DigitsOf(mw_neg(a), n, C)
               /\ \E c \in Int : SumAt(C) = -SumAt(Below(B, m)) + 2 ^ m * c
  BY <1>1, NegatesWords DEF n
<1> DEFINE Z == Below(C, w)
<1>4. /\ PlaceSet(Z) /\ SumAt(Z) \in Nat /\ SumAt(Z) < 2 ^ w
      /\ \E h \in Nat : SumAt(C) = SumAt(Z) + 2 ^ w * h
  BY <1>3, BelowType
<1>5. DigitsOf(mw_mask(mw_neg(a), w), n, Z)
  BY <1>3, MaskDigits DEF n
<1>6. DOMAIN mw_mask(mw_neg(a), w) = 0 .. n - 1
  BY DEF mw_mask, Words, n
<1>7. Below(Z, m) = Z
  <2>1. \A i \in Z : i \in Nat /\ i < w
    BY <1>3 DEF Below, PlaceSet
  <2>2. \A i \in Z : i < m
    BY <1>1, <2>1
  <2> HIDE DEF Z, m
  <2> QED BY <2>2 DEF Below
<1>8. Alike(SumAt(Z), -SumAt(B), w)
  <2>0. SumAt(C) \in Int /\ -SumAt(B) \in Int /\ SumAt(Z) \in Int
    BY <1>2, <1>3, <1>4, SumType
  <2>1. Alike(SumAt(C), -SumAt(B), m)
    <3>1. Below(B, m) = B
      BY DEF n
    <3> QED BY <1>3, <3>1 DEF Alike
  <2>2. Alike(SumAt(C), -SumAt(B), w)
    BY <1>1, <2>0, <2>1, AlikeBelow
  <2>3. Alike(SumAt(C), SumAt(Z), w)
    <3>1. PICK h \in Nat : SumAt(C) = SumAt(Z) + 2 ^ w * h
      BY <1>4
    <3>2. h \in Int
      OBVIOUS
    <3> HIDE DEF Z
    <3> QED BY <3>1, <3>2, Zenon DEF Alike
  <2>4. Alike(SumAt(Z), SumAt(C), w)
    BY <2>0, <2>3, AlikeSteps
  <2> QED BY <2>0, <2>2, <2>4, AlikeSteps
<1> QED BY <1>4, <1>5, <1>6, <1>7, <1>8 DEF n

\* The magnitude of an operand.
Magnitude(i) == IF i < 0 THEN -i ELSE i

\* The sign put back.
LEMMA SignedHolds ==
    ASSUME NEW w \in Nat, NEW s \in BOOLEAN, NEW a, DigitArray(a, NWords(w)), NEW neg \in BOOLEAN
    PROVE  LET x == Val(a, NWords(w), NWords(w))
               d == IF neg THEN mw_mask(mw_neg(a), w) ELSE a
           IN  Holds(OfDigits(mw_mask(d, w), w, s), w, s, IF neg THEN -x ELSE x)
<1> DEFINE n == NWords(w)  m == n * WordBits  B == PlacesOf(a, n)  x == Val(a, n, n)
<1>1. n \in Nat \ {0} /\ m \in Nat /\ w <= m /\ w <= w
  BY WordsHold
<1>2. PlaceSet(B) /\ Below(B, m) = B /\ DigitsOf(a, n, B) /\ DOMAIN a = 0 .. n - 1
  <2> HIDE DEF n
  <2>1. DigitArray(a, n)
    BY DEF n
  <2> QED BY <1>1, <2>1, DigitSet DEF DigitArray
<1>3. x = SumAt(B) /\ x \in Nat
  <2>1. x = SumAt(B)
    BY <1>2 DEF Val, Low
  <2> QED BY <1>2, <2>1, SumType
<1>4. CASE ~neg
  <2>1. Alike(SumAt(B), x, w)
    <3>1. SumAt(B) = x + 2 ^ w * 0 /\ 0 \in Int
      BY <1>3, PowerOfTwo
    <3> HIDE DEF x, B
    <3> QED BY <3>1 DEF Alike
  <2>2. x \in Int
    BY <1>3
  <2> HIDE DEF x, B
  <2>3. Holds(OfDigits(mw_mask(a, w), w, s), w, s, x)
    BY <1>1, <1>2, <2>1, <2>2, DigitsHold
  <2> QED BY <1>4, <2>3 DEF x
<1>5. CASE neg
  <2> DEFINE e == mw_mask(mw_neg(a), w)
  <2>1. PICK C : PlaceSet(C) /\ DigitsOf(e, n, C) /\ Alike(SumAt(C), -SumAt(B), w)
    BY <1>2, MaskedNegation
  <2>2. -x \in Int /\ Alike(SumAt(C), -x, w)
    BY <1>3, <2>1
  <2> HIDE DEF x, B, e
  <2>3. Holds(OfDigits(mw_mask(e, w), w, s), w, s, -x)
    BY <1>1, <2>1, <2>2, DigitsHold
  <2> QED BY <1>5, <2>3 DEF x, e
<1> QED BY <1>4, <1>5

\* Division of magnitudes, and the signs: the quotient and the remainder of integers.
LEMMA QuotRest ==
    ASSUME NEW i \in Int, NEW j \in Int, j # 0, NEW q \in Nat, NEW r \in Nat,
           Magnitude(i) = Magnitude(j) * q + r, r < Magnitude(j)
    PROVE  /\ Quot(i, j) = IF (i < 0) # (j < 0) THEN -q ELSE q
           /\ Rest(i, j) = IF i < 0 THEN -r ELSE r
<1> DEFINE x == Magnitude(i)  y == Magnitude(j)
<1>1. x \in Nat /\ y \in Nat \ {0} /\ x = y * q + r /\ r < y
  BY DEF Magnitude
<1>2. Quot(i, j) = IF (i < 0) = (j < 0) THEN x \div y ELSE -(x \div y)
  BY DEF Quot, Magnitude
<1>3. (i < 0 => i = -x) /\ (~(i < 0) => i = x) /\ (j < 0 => j = -y) /\ (~(j < 0) => j = y)
  BY DEF Magnitude
<1> HIDE DEF x, y
<1>4. x \div y = q
  <2>1. q \in Int
    OBVIOUS
  <2>2. (y * q + r) \div y = q
    BY <1>1, <2>1, DividedParts, Zenon
  <2> QED BY <1>1, <2>2
<1>5. Quot(i, j) = IF (i < 0) # (j < 0) THEN -q ELSE q
  BY <1>2, <1>4
<1> DEFINE t == Quot(i, j)  e == y * q
<1>6. e \in Nat /\ x = e + r
  BY <1>1
<1>7. j * t = IF i < 0 THEN -e ELSE e
  <2>1. (-y) * (-q) = e /\ (-y) * q = -e /\ y * (-q) = -e
    BY <1>1
  <2> HIDE DEF e, t
  <2>2. t = IF (i < 0) # (j < 0) THEN -q ELSE q
    BY <1>5 DEF t
  <2>3. CASE i < 0 /\ j < 0
    <3>1. t = q /\ j = -y
      BY <1>3, <2>2, <2>3
    <3> QED BY <2>1, <2>3, <3>1
  <2>4. CASE i < 0 /\ ~(j < 0)
    <3>1. t = -q /\ j = y
      BY <1>3, <2>2, <2>4
    <3> QED BY <2>1, <2>4, <3>1
  <2>5. CASE ~(i < 0) /\ j < 0
    <3>1. t = -q /\ j = -y
      BY <1>3, <2>2, <2>5
    <3> QED BY <2>1, <2>5, <3>1
  <2>6. CASE ~(i < 0) /\ ~(j < 0)
    <3>1. t = q /\ j = y
      BY <1>3, <2>2, <2>6
    <3> QED BY <2>6, <3>1 DEF e
  <2> QED BY <2>3, <2>4, <2>5, <2>6
<1> DEFINE f == j * t
<1>8. Rest(i, j) = i - f
  BY DEF Rest
<1> HIDE DEF e, f
<1>9. f = IF i < 0 THEN -e ELSE e
  BY <1>7 DEF f
<1> HIDE DEF t
<1>10. Rest(i, j) = IF i < 0 THEN -r ELSE r
  BY <1>3, <1>6, <1>8, <1>9
<1> QED BY <1>5, <1>10

-----------------------------------------------------------------------------
(* Arithmetic answers.                                                     *)

\* v has the bits of the integer n; v is x all over.
Counts(v, w, s, n) == /\ Region(v, w, s)
                      /\ \A i \in Nat : i < w => BitOf(v, i) = IF (n \div 2 ^ i) % 2 = 1 THEN "1" ELSE "0"

AllUnknown(v, w, s) == Region(v, w, s) /\ \A i \in Nat : i < w => BitOf(v, i) = "x"

\* xs is all unknown.
LEMMA XsAreBlank ==
    ASSUME NEW w \in Nat, NEW s \in BOOLEAN
    PROVE  AllUnknown(xs(w, s), w, s)
BY FilledBits, FillType DEF AllUnknown

\* The lanes end below the cap.
LEMMA LanesBelowCap ==
    ASSUME NEW s \in BOOLEAN, NEW w \in Nat, w > WideCap
    PROVE  w > LaneOf(s)
BY WordBitsAssumption, WideCapAssumption DEF LaneOf, SignedLane, UnsignedLane

-----------------------------------------------------------------------------
(* Powers: pow_wrap, mw_pow and the table of negative exponents.           *)

\* The powers of b up to the n-th.
PowerStep(f, b, n) == [k \in 0 .. n |-> IF k = 0 THEN 1 ELSE f[k - 1] * b]

PowerTable(b, n)   == CHOOSE f : f = PowerStep(f, b, n)

\* Powers by repeated multiplication.
LEMMA PowerTableIs ==
    ASSUME NEW n \in Nat, NEW b \in Int
    PROVE  LET F == PowerTable(b, n)
           IN  /\ F[0] = 1
               /\ \A k \in 0 .. n : F[k] \in Int
               /\ \A k \in 0 .. n - 1 : F[k + 1] = F[k] * b
<1> DEFINE H == [p \in Nat \X Int |-> p[2] * b]
<1>1. ASSUME NEW k \in Nat, NEW x \in Int PROVE H[<<k, x>>] = x * b /\ H[<<k, x>>] \in Int
  <2>1. H[<<k, x>>] = x * b
    OBVIOUS
  <2> HIDE DEF H
  <2> QED BY <2>1
<1>2. PICK f \in [0 .. n -> Int] : Solves(f, n, 1, H)
  <2> HIDE DEF H
  <2>1. Stays(H, Int)
    BY <1>1 DEF Stays
  <2>2. 1 \in Int
    OBVIOUS
  <2> QED BY <2>1, <2>2, Recursion
<1>3. \A k \in 0 .. n : f[k] = IF k = 0 THEN 1 ELSE f[k - 1] * b
  <2> TAKE k \in 0 .. n
  <2>1. f[k] = IF k = 0 THEN 1 ELSE H[<<k, f[k - 1]>>]
    BY <1>2 DEF Solves
  <2>2. ASSUME k # 0 PROVE H[<<k, f[k - 1]>>] = f[k - 1] * b
    <3>1. k \in Nat /\ k - 1 \in 0 .. n
      BY <2>2
    <3>2. f[k - 1] \in Int
      BY <3>1
    <3> HIDE DEF H
    <3> QED BY <1>1, <3>1, <3>2
  <2> HIDE DEF H
  <2> QED BY <2>1, <2>2
<1>4. f = PowerStep(f, b, n)
  <2>1. f = [k \in 0 .. n |-> f[k]]
    OBVIOUS
  <2> QED BY <1>3, <2>1, Zenon DEF PowerStep
<1> DEFINE F == PowerTable(b, n)
<1>5. F = PowerStep(F, b, n)
  BY <1>4 DEF PowerTable
<1> HIDE DEF F
<1>6. \A k \in 0 .. n : F[k] = IF k = 0 THEN 1 ELSE F[k - 1] * b
  BY <1>5 DEF PowerStep
<1>7. F[0] = 1 /\ \A k \in 0 .. n - 1 : F[k + 1] = F[k] * b
  <2>1. F[0] = 1
    <3>1. 0 \in 0 .. n
      OBVIOUS
    <3> QED BY <1>6, <3>1, Zenon
  <2>2. ASSUME NEW k \in 0 .. n - 1 PROVE F[k + 1] = F[k] * b
    <3> DEFINE j == k + 1
    <3>1. j \in 0 .. n /\ j # 0 /\ j - 1 = k
      OBVIOUS
    <3> HIDE DEF j
    <3>2. F[j] = F[j - 1] * b
      BY <1>6, <3>1, Zenon
    <3> QED BY <3>1, <3>2 DEF j
  <2> QED BY <2>1, <2>2
<1> DEFINE P == {k \in Nat : k <= n => F[k] \in Int}
<1>8. 0 \in P
  BY <1>7
<1>9. ASSUME NEW k \in Nat, k \in P PROVE k + 1 \in P
  <2> SUFFICES ASSUME k + 1 <= n PROVE F[k + 1] \in Int
    OBVIOUS
  <2>1. k \in 0 .. n - 1 /\ F[k] \in Int
    BY <1>9
  <2>2. F[k + 1] = F[k] * b
    BY <1>7, <2>1
  <2> QED BY <2>1, <2>2
<1>10. \A k \in 0 .. n : F[k] \in Int
  <2>1. \A k \in Nat : k \in P
    <3> HIDE DEF P
    <3> QED BY <1>8, <1>9, SetInduction
  <2> QED BY <2>1
<1> QED BY <1>7, <1>10 DEF F

\* The exponents of a product add up.
LEMMA PowersMultiply ==
    ASSUME NEW n \in Nat, NEW b \in Int, NEW i \in Nat, NEW j \in Nat, i + j <= n
    PROVE  PowerTable(b, n)[i + j] = PowerTable(b, n)[i] * PowerTable(b, n)[j]
<1> DEFINE F == PowerTable(b, n)
<1>1. /\ F[0] = 1 /\ (\A k \in 0 .. n : F[k] \in Int)
      /\ \A k \in 0 .. n - 1 : F[k + 1] = F[k] * b
  BY PowerTableIs
<1> HIDE DEF F
<1> DEFINE P == {k \in Nat : i + k <= n => F[i + k] = F[i] * F[k]}
<1>2. 0 \in P
  <2> SUFFICES ASSUME i <= n PROVE F[i + 0] = F[i] * F[0]
    OBVIOUS
  <2>1. i + 0 = i /\ F[i] \in Int
    BY <1>1
  <2> QED BY <1>1, <2>1
<1>3. ASSUME NEW k \in Nat, k \in P PROVE k + 1 \in P
  <2> SUFFICES ASSUME i + (k + 1) <= n PROVE F[i + (k + 1)] = F[i] * F[k + 1]
    OBVIOUS
  <2>1. i + k \in 0 .. n - 1 /\ k \in 0 .. n - 1 /\ i \in 0 .. n /\ (i + k) + 1 = i + (k + 1)
    OBVIOUS
  <2>2. F[i + (k + 1)] = F[i + k] * b /\ F[k + 1] = F[k] * b /\ F[i + k] = F[i] * F[k]
    <3>1. F[(i + k) + 1] = F[i + k] * b
      BY <1>1, <2>1
    <3>2. F[k + 1] = F[k] * b
      BY <1>1, <2>1
    <3>3. F[i + k] = F[i] * F[k]
      BY <1>3, <2>1
    <3> QED BY <2>1, <3>1, <3>2, <3>3
  <2>3. F[i] \in Int /\ F[k] \in Int
    <3>1. k \in 0 .. n
      BY <2>1
    <3> QED BY <1>1, <2>1, <3>1
  <2> DEFINE x == F[i]  y == F[k]
  <2>4. (x * y) * b = x * (y * b)
    <3> HIDE DEF x, y
    <3>1. x \in Int /\ y \in Int
      BY <2>3 DEF x, y
    <3> QED BY <3>1
  <2> QED BY <2>2, <2>4
<1>4. \A k \in Nat : k \in P
  <2> HIDE DEF P
  <2> QED BY <1>2, <1>3, SetInduction
<1>5. F[i + j] = F[i] * F[j]
  BY <1>4
<1> QED BY <1>5 DEF F

\* A remainder is alike what it is the remainder of.
LEMMA RemainderAlike ==
    ASSUME NEW w \in Nat, NEW x \in Int
    PROVE  x % 2 ^ w \in Nat /\ x % 2 ^ w < 2 ^ w /\ Alike(x % 2 ^ w, x, w)
<1> DEFINE p == 2 ^ w
<1>1. p \in Nat \ {0}
  BY PowerOfTwo
<1> HIDE DEF p
<1>2. x \div p \in Int /\ x % p \in Nat /\ x % p < p /\ x = p * (x \div p) + (x % p)
  BY <1>1, Divides
<1> DEFINE q == x \div p  e == x % p  k == -q
<1>3. k \in Int /\ e = x + p * k
  <2>1. q \in Int /\ e \in Int
    BY <1>2
  <2>2. x = p * q + e
    BY <1>2
  <2>3. p * (-q) = -(p * q)
    <3> HIDE DEF q
    <3> QED BY <1>1, <2>1
  <2> DEFINE f == p * q  g == p * k
  <2>4. g = -f /\ f \in Int
    BY <1>1, <2>1, <2>3
  <2>5. x = f + e
    BY <2>2
  <2> HIDE DEF f, g, e
  <2>6. e = x + g
    BY <2>1, <2>4, <2>5
  <2> QED BY <2>1, <2>6 DEF g
<1>4. Alike(e, x, w)
  <2> HIDE DEF e, k
  <2> QED BY <1>3 DEF Alike, p
<1> QED BY <1>2, <1>4 DEF p

\* PowMod is the power, modulo 2 ^ w.
ModStep(f, b, e, w) == [k \in 0 .. e |-> IF k = 0 THEN 1 ELSE (f[k - 1] * b) % 2 ^ w]

ModTable(b, e, w)   == CHOOSE f : f = ModStep(f, b, e, w)

\* Squaring and multiplying, modulo 2 ^ w: E are the bits of the exponent.
Squares(A, S, E, m, b, w) ==
    /\ \A i \in 0 .. m : A[i] \in Int /\ S[i] \in Int
    /\ Alike(A[0], 1, w) /\ Alike(S[0], b, w)
    /\ \A i \in 0 .. m - 1 : /\ Alike(A[i + 1], IF i \in E THEN A[i] * S[i] ELSE A[i], w)
                             /\ Alike(S[i + 1], S[i] * S[i], w)

\* One step of square and multiply takes one more bit of the exponent.
LEMMA SquaresStep ==
    ASSUME NEW m \in Nat, NEW E, PlaceSet(E), NEW b \in Int, NEW w \in Nat, NEW A, NEW S,
           Squares(A, S, E, m, b, w), NEW i \in 0 .. m - 1,
           Alike(A[i], PowerTable(b, 2 ^ m)[SumAt(Below(E, i))], w),
           Alike(S[i], PowerTable(b, 2 ^ m)[2 ^ i], w)
    PROVE  /\ Alike(A[i + 1], PowerTable(b, 2 ^ m)[SumAt(Below(E, i + 1))], w)
           /\ Alike(S[i + 1], PowerTable(b, 2 ^ m)[2 ^ (i + 1)], w)
<1> DEFINE n == 2 ^ m  T == PowerTable(b, n)  p == 2 ^ i  e == SumAt(Below(E, i))  f == SumAt(Below(E, i + 1))
<1>1. n \in Nat /\ p \in Nat /\ i \in Nat /\ i + 1 \in Nat /\ i + 1 <= m
  <2>1. i \in Nat /\ i + 1 \in Nat /\ i + 1 <= m
    OBVIOUS
  <2> QED BY <2>1, PowerOfTwo
<1>2. e \in Nat /\ e < p /\ f \in Nat
  BY <1>1, BelowType
<1>3. f = e + (IF i \in E THEN p ELSE 0)
  <2>1. Above(E, i) = Above(E, i + 1) + (IF i \in E THEN p ELSE 0)
    BY <1>1, AboveSteps
  <2> DEFINE x == SumAt(E)
  <2>2. x \in Nat /\ Above(E, i) = x - e /\ Above(E, i + 1) = x - f
    BY SumType DEF Above
  <2> HIDE DEF x, e, f, p
  <2> QED BY <1>1, <1>2, <2>1, <2>2
<1>4. p + p <= n /\ 2 ^ (i + 1) = p + p
  <2>1. 2 ^ (i + 1) = 2 * p
    BY <1>1, PowerOfTwo
  <2>2. 2 ^ (i + 1) <= n
    BY <1>1, PowerOrder
  <2> HIDE DEF p
  <2>3. p + p = 2 * p
    BY <1>1
  <2> QED BY <2>1, <2>2, <2>3
<1>5. \A k \in 0 .. n : T[k] \in Int
  BY <1>1, PowerTableIs
<1>6. T[p + p] = T[p] * T[p] /\ T[e + p] = T[e] * T[p]
  <2>1. e + p <= n /\ p + p <= n /\ n \in Nat /\ p \in Nat /\ e \in Nat
    <3> HIDE DEF p, e, n
    <3> QED BY <1>1, <1>2, <1>4
  <2> HIDE DEF p, e, n
  <2>2. PowerTable(b, n)[p + p] = PowerTable(b, n)[p] * PowerTable(b, n)[p]
    BY <2>1, PowersMultiply, Zenon
  <2>3. PowerTable(b, n)[e + p] = PowerTable(b, n)[e] * PowerTable(b, n)[p]
    BY <2>1, PowersMultiply, Zenon
  <2> QED BY <2>2, <2>3
<1>7. T[p] \in Int /\ T[e] \in Int /\ T[f] \in Int /\ T[p + p] \in Int
  <2> HIDE DEF p, e, n, f, T
  <2>1. p \in 0 .. n /\ e \in 0 .. n /\ f \in 0 .. n /\ p + p \in 0 .. n
    BY <1>1, <1>2, <1>3, <1>4
  <2> QED BY <1>5, <2>1
<1>8. /\ A[i] \in Int /\ S[i] \in Int /\ A[i + 1] \in Int /\ S[i + 1] \in Int
      /\ Alike(A[i + 1], IF i \in E THEN A[i] * S[i] ELSE A[i], w)
      /\ Alike(S[i + 1], S[i] * S[i], w)
  <2>1. i \in 0 .. m /\ i + 1 \in 0 .. m
    BY <1>1
  <2> QED BY <2>1 DEF Squares
<1>9. Alike(A[i], T[e], w) /\ Alike(S[i], T[p], w)
  OBVIOUS
<1> HIDE DEF T, p, e, f, n
<1>10. Alike(S[i + 1], T[p + p], w)
  <2> DEFINE x == S[i] * S[i]  y == T[p] * T[p]
  <2>1. Alike(x, y, w)
    BY <1>7, <1>8, <1>9, AlikeTimes
  <2>2. x \in Int /\ y \in Int
    BY <1>7, <1>8
  <2>3. Alike(S[i + 1], x, w) /\ S[i + 1] \in Int
    BY <1>8
  <2> HIDE DEF x, y
  <2>4. Alike(S[i + 1], y, w)
    BY <2>1, <2>2, <2>3, AlikeSteps
  <2> QED BY <1>6, <2>4 DEF y
<1>11. CASE i \in E
  <2> DEFINE x == A[i] * S[i]  y == T[e] * T[p]
  <2>1. Alike(x, y, w)
    BY <1>7, <1>8, <1>9, AlikeTimes
  <2>2. x \in Int /\ y \in Int
    BY <1>7, <1>8
  <2>3. Alike(A[i + 1], x, w) /\ A[i + 1] \in Int
    BY <1>8, <1>11
  <2>4. T[f] = y
    BY <1>3, <1>6, <1>11
  <2> HIDE DEF x, y
  <2>5. Alike(A[i + 1], y, w)
    BY <2>1, <2>2, <2>3, AlikeSteps
  <2>6. Alike(A[i + 1], T[f], w)
    BY <2>4, <2>5
  <2> QED BY <1>4, <1>10, <2>6 DEF T, f, p, n
<1>12. CASE i \notin E
  <2>1. f = e
    BY <1>2, <1>3, <1>12
  <2>2. Alike(A[i + 1], A[i], w) /\ A[i + 1] \in Int /\ A[i] \in Int
    BY <1>8, <1>12
  <2>3. Alike(A[i + 1], T[e], w)
    BY <1>7, <1>9, <2>2, AlikeSteps
  <2>4. Alike(A[i + 1], T[f], w)
    BY <2>1, <2>3
  <2> QED BY <1>4, <1>10, <2>4 DEF T, f, p, n
<1> QED BY <1>11, <1>12

\* The powers of the native lanes.
LaneNext(x, B, i) == <<IF i \in B THEN Wrapped(x[1] * x[2]) ELSE x[1], Wrapped(x[2] * x[2])>>

LanePowers(f, b, B, m) ==
    [i \in 0 .. m |-> IF i = 0 THEN <<1, Wrapped(b)>> ELSE LaneNext(f[i - 1], B, i - 1)]

LanePower(b, B, m) == CHOOSE f : f = LanePowers(f, b, B, m)

\* What a native lane holds is a power of two.
LEMMA LaneIs == Lane = 2 ^ (2 * WordBits) /\ 2 * WordBits \in Nat
<1>1. WordBits \in Nat /\ Base = 2 ^ WordBits
  BY BaseType
<1>2. 2 ^ (WordBits + WordBits) = 2 ^ WordBits * 2 ^ WordBits
  BY <1>1, PowerAdds
<1>3. WordBits + WordBits = 2 * WordBits
  BY <1>1
<1> QED BY <1>1, <1>2, <1>3 DEF Lane

\* Wrapping to a native lane keeps a number modulo the lane.
LEMMA WrappedAlike ==
    ASSUME NEW n \in Int
    PROVE  Wrapped(n) \in Int /\ Alike(Wrapped(n), n, 2 * WordBits)
<1>1. 2 * WordBits \in Nat /\ Lane = 2 ^ (2 * WordBits)
  BY LaneIs
<1> DEFINE m == 2 * WordBits
<1> HIDE DEF m
<1>2. n % 2 ^ m \in Nat /\ Alike(n % 2 ^ m, n, m)
  BY <1>1, RemainderAlike DEF m
<1> DEFINE z == n % 2 ^ m
<1>3. Wrapped(n) = z
  BY <1>1 DEF Wrapped, m
<1> HIDE DEF z
<1>4. z \in Int /\ Alike(z, n, m)
  BY <1>2 DEF z
<1> QED BY <1>3, <1>4 DEF m

\* The steps of the power in a native lane follow each other.
LEMMA LanePowerSteps ==
    ASSUME NEW m \in Nat, NEW b \in Int, NEW B
    PROVE  LET F == LanePower(b, B, m)
           IN  /\ F[0] = <<1, Wrapped(b)>>
               /\ \A i \in 0 .. m : F[i] \in Int \X Int
               /\ \A i \in 0 .. m - 1 : F[i + 1] = LaneNext(F[i], B, i)
<1> DEFINE S == Int \X Int
           z == <<1, Wrapped(b)>>
           H == [p \in Nat \X S |-> LaneNext(p[2], B, p[1] - 1)]
<1>0. ASSUME NEW x \in S, NEW j PROVE LaneNext(x, B, j) \in S
  <2>1. x[1] \in Int /\ x[2] \in Int /\ x[1] * x[2] \in Int /\ x[2] * x[2] \in Int
    OBVIOUS
  <2> DEFINE u == x[1] * x[2]  v == x[2] * x[2]
  <2>2. Wrapped(u) \in Int /\ Wrapped(v) \in Int
    <3>1. u \in Int /\ v \in Int
      BY <2>1
    <3> HIDE DEF u, v
    <3> QED BY <3>1, WrappedAlike
  <2> QED BY <2>1, <2>2 DEF LaneNext
<1>1. ASSUME NEW j \in Nat, NEW x \in S PROVE H[<<j, x>>] = LaneNext(x, B, j - 1) /\ H[<<j, x>>] \in S
  <2>1. H[<<j, x>>] = LaneNext(x, B, j - 1)
    <3> HIDE DEF S
    <3> QED OBVIOUS
  <2>2. LaneNext(x, B, j - 1) \in S
    BY <1>0
  <2> HIDE DEF H, S
  <2> QED BY <2>1, <2>2
<1>2. z \in S
  BY WrappedAlike
<1> HIDE DEF S, z
<1>3. PICK f \in [0 .. m -> S] : Solves(f, m, z, H)
  <2> HIDE DEF H
  <2>1. Stays(H, S)
    BY <1>1 DEF Stays
  <2> QED BY <1>2, <2>1, Recursion
<1> HIDE DEF H
<1>4. \A j \in 0 .. m : f[j] = IF j = 0 THEN z ELSE LaneNext(f[j - 1], B, j - 1)
  <2> TAKE j \in 0 .. m
  <2>1. ASSUME j # 0 PROVE H[<<j, f[j - 1]>>] = LaneNext(f[j - 1], B, j - 1)
    <3>1. j \in Nat /\ j - 1 \in 0 .. m
      BY <2>1
    <3>2. f[j - 1] \in S
      BY <3>1
    <3> QED BY <1>1, <3>1, <3>2
  <2> QED BY <1>3, <2>1 DEF Solves
<1>5. f = LanePowers(f, b, B, m)
  <2>1. f = [j \in 0 .. m |-> f[j]]
    OBVIOUS
  <2> QED BY <1>4, <2>1, Zenon DEF LanePowers, z
<1> DEFINE F == LanePower(b, B, m)
<1>6. F = LanePowers(F, b, B, m)
  BY <1>5 DEF LanePower
<1> HIDE DEF F
<1>7. \A j \in 0 .. m : F[j] = IF j = 0 THEN z ELSE LaneNext(F[j - 1], B, j - 1)
  BY <1>6 DEF LanePowers, z
<1>8. F[0] = z
  <2>1. 0 \in 0 .. m
    OBVIOUS
  <2> QED BY <1>7, <2>1, Zenon
<1>9. \A i \in 0 .. m - 1 : F[i + 1] = LaneNext(F[i], B, i)
  <2> TAKE i \in 0 .. m - 1
  <2> DEFINE j == i + 1
  <2>1. j \in 0 .. m /\ j # 0 /\ j - 1 = i
    OBVIOUS
  <2> HIDE DEF j
  <2>2. F[j] = LaneNext(F[j - 1], B, j - 1)
    BY <1>7, <2>1, Zenon
  <2> QED BY <2>1, <2>2 DEF j
<1> DEFINE P == {i \in Nat : i <= m => F[i] \in S}
<1>10. 0 \in P
  BY <1>2, <1>8
<1>11. ASSUME NEW i \in Nat, i \in P PROVE i + 1 \in P
  <2> SUFFICES ASSUME i + 1 <= m PROVE F[i + 1] \in S
    OBVIOUS
  <2>1. i \in 0 .. m - 1 /\ F[i] \in S
    BY <1>11
  <2>2. F[i + 1] = LaneNext(F[i], B, i)
    BY <1>9, <2>1
  <2> QED BY <1>0, <2>1, <2>2
<1>12. \A i \in 0 .. m : F[i] \in S
  <2>1. \A i \in Nat : i \in P
    <3> HIDE DEF P
    <3> QED BY <1>10, <1>11, SetInduction
  <2> QED BY <2>1
<1> QED BY <1>8, <1>9, <1>12 DEF F, S, z

\* The powers of words, masked to the width.
Product(a, b, n, w) == mw_mask(mw_mul(a, b, n), w)

WordsNext(x, E, n, w, i) == <<IF i \in E THEN Product(x[1], x[2], n, w) ELSE x[1], Product(x[2], x[2], n, w)>>

WordsPowers(f, a, E, n, w, m) ==
    [i \in 0 .. m |-> IF i = 0 THEN <<mw_one(n), a>> ELSE WordsNext(f[i - 1], E, n, w, i - 1)]

WordsPower(a, E, n, w, m) == CHOOSE f : f = WordsPowers(f, a, E, n, w, m)

Arrays(n) == {a \in [0 .. n - 1 -> Nat] : DigitArray(a, n)}

\* The product of mw_pow: a product of words, cut to the width.
LEMMA ProductIs ==
    ASSUME NEW w \in Nat, NEW a \in Arrays(NWords(w)), NEW b \in Arrays(NWords(w))
    PROVE  LET n == NWords(w)
               d == Product(a, b, n, w)
           IN  d \in Arrays(n) /\ Alike(Val(d, n, n), Val(a, n, n) * Val(b, n, n), w)
<1> DEFINE n == NWords(w)  m == n * WordBits  A == PlacesOf(a, n)  B == PlacesOf(b, n)  c == mw_mul(a, b, n)
           d == Product(a, b, n, w)
<1>1. n \in Nat /\ m \in Nat /\ w <= m /\ n \in 0 .. n
  <2>1. n \in Nat /\ m \in Nat /\ w <= m
    BY WordsHold
  <2> HIDE DEF n, m
  <2> QED BY <2>1
<1>2. DigitArray(a, n) /\ DigitArray(b, n) /\ DOMAIN a = 0 .. n - 1 /\ DOMAIN b = 0 .. n - 1
  BY DEF Arrays, DigitArray
<1> HIDE DEF n
<1>3. PlaceSet(A) /\ DigitsOf(a, n, A) /\ PlaceSet(B) /\ DigitsOf(b, n, B)
  BY <1>1, <1>2, ValSteps, Zenon
<1> DEFINE x == Val(a, n, n)  y == Val(b, n, n)  u == x * y
<1>4. x = Low(A, n) /\ y = Low(B, n) /\ x \in Nat /\ y \in Nat
  <2>1. x \in Nat /\ y \in Nat
    BY <1>1, <1>2, ValSteps, Zenon
  <2> QED BY <2>1 DEF Val
<1>5. u \in Int
  BY <1>4
<1> HIDE DEF A, B, c
<1>6. PICK C : PlaceSet(C) /\ DigitsOf(c, n, C) /\ Alike(SumAt(C), Low(A, n) * Low(B, n), m)
  BY <1>1, <1>2, <1>3, MulWords DEF c
<1> HIDE DEF x, y
<1>7. Alike(SumAt(C), u, m)
  BY <1>4, <1>6
<1> DEFINE Z == Below(C, w)
<1>8. /\ PlaceSet(Z) /\ SumAt(Z) \in Nat
      /\ \E h \in Nat : SumAt(C) = SumAt(Z) + 2 ^ w * h
  BY <1>6, BelowType
<1>9. DigitsOf(d, n, Z)
  BY <1>6, MaskDigits DEF n, c, Product
<1>10. DOMAIN d = 0 .. n - 1 /\ d = [k \in 0 .. n - 1 |-> d[k]]
  BY DEF Product, mw_mask, Words, n
<1>11. Below(Z, m) = Z
  <2>1. \A i \in Z : i \in Nat /\ i < w
    BY <1>6 DEF Below, PlaceSet
  <2>2. \A i \in Z : i < m
    BY <1>1, <2>1
  <2> HIDE DEF Z, m
  <2> QED BY <2>2 DEF Below
<1> HIDE DEF d
<1>12. DigitArray(d, n) /\ Val(d, n, n) = SumAt(Z)
  <2>1. DigitArray(d, n) /\ Val(d, n, n) = Low(Z, n)
    BY <1>1, <1>8, <1>9, <1>10, ValOf
  <2> QED BY <1>11, <2>1 DEF Low
<1>13. d \in Arrays(n)
  <2>1. \A k \in 0 .. n - 1 : d[k] \in Nat
    BY <1>12 DEF DigitArray
  <2>2. d \in [0 .. n - 1 -> Nat]
    BY <1>10, <2>1
  <2> QED BY <1>12, <2>2 DEF Arrays
<1>14. Alike(SumAt(Z), u, w)
  <2> DEFINE s == SumAt(C)  t == SumAt(Z)
  <2>1. s \in Int /\ t \in Int
    BY <1>6, <1>8, SumType
  <2> HIDE DEF u, Z
  <2>2. Alike(s, u, w)
    <3> HIDE DEF s, m
    <3>1. Alike(s, u, m)
      BY <1>7 DEF s
    <3> QED BY <1>1, <1>5, <2>1, <3>1, AlikeBelow
  <2>3. Alike(s, t, w)
    <3>1. PICK h \in Nat : SumAt(C) = SumAt(Z) + 2 ^ w * h
      BY <1>8
    <3>2. h \in Int
      OBVIOUS
    <3> QED BY <3>1, <3>2, Zenon DEF Alike
  <2> HIDE DEF s, t
  <2>4. Alike(t, s, w)
    BY <2>1, <2>3, AlikeSteps
  <2>5. Alike(t, u, w)
    BY <1>5, <2>1, <2>2, <2>4, AlikeSteps
  <2> QED BY <2>5 DEF t
<1> QED BY <1>12, <1>13, <1>14 DEF d, n, x, y

\* The steps of mw_pow follow each other.
LEMMA WordsPowerSteps ==
    ASSUME NEW w \in Nat, NEW m \in Nat, NEW a \in Arrays(NWords(w)), NEW E, mw_one(NWords(w)) \in Arrays(NWords(w))
    PROVE  LET n == NWords(w)
               F == WordsPower(a, E, n, w, m)
           IN  /\ F[0] = <<mw_one(n), a>>
               /\ \A i \in 0 .. m : F[i] \in Arrays(n) \X Arrays(n)
               /\ \A i \in 0 .. m - 1 : F[i + 1] = WordsNext(F[i], E, n, w, i)
<1> DEFINE n == NWords(w)
           R == Arrays(n)
           S == R \X R
           z == <<mw_one(n), a>>
           H == [p \in Nat \X S |-> WordsNext(p[2], E, n, w, p[1] - 1)]
<1> HIDE DEF n
<1>0. ASSUME NEW x \in S, NEW j PROVE WordsNext(x, E, n, w, j) \in S
  <2>1. x[1] \in R /\ x[2] \in R
    OBVIOUS
  <2>2. Product(x[1], x[2], n, w) \in R /\ Product(x[2], x[2], n, w) \in R
    BY <2>1, ProductIs DEF n
  <2> HIDE DEF R
  <2> QED BY <2>1, <2>2 DEF WordsNext
<1>1. ASSUME NEW j \in Nat, NEW x \in S
      PROVE  H[<<j, x>>] = WordsNext(x, E, n, w, j - 1) /\ H[<<j, x>>] \in S
  <2>1. H[<<j, x>>] = WordsNext(x, E, n, w, j - 1)
    <3> HIDE DEF S
    <3> QED OBVIOUS
  <2>2. WordsNext(x, E, n, w, j - 1) \in S
    BY <1>0
  <2> HIDE DEF H, S
  <2> QED BY <2>1, <2>2
<1>2. z \in S
  BY DEF n
<1> HIDE DEF S, z, R
<1>3. PICK f \in [0 .. m -> S] : Solves(f, m, z, H)
  <2> HIDE DEF H
  <2>1. Stays(H, S)
    BY <1>1 DEF Stays
  <2> QED BY <1>2, <2>1, Recursion
<1> HIDE DEF H
<1>4. \A j \in 0 .. m : f[j] = IF j = 0 THEN z ELSE WordsNext(f[j - 1], E, n, w, j - 1)
  <2> TAKE j \in 0 .. m
  <2>1. ASSUME j # 0 PROVE H[<<j, f[j - 1]>>] = WordsNext(f[j - 1], E, n, w, j - 1)
    <3>1. j \in Nat /\ j - 1 \in 0 .. m
      BY <2>1
    <3>2. f[j - 1] \in S
      BY <3>1
    <3> QED BY <1>1, <3>1, <3>2
  <2> QED BY <1>3, <2>1 DEF Solves
<1>5. f = WordsPowers(f, a, E, n, w, m)
  <2>1. f = [j \in 0 .. m |-> f[j]]
    OBVIOUS
  <2> QED BY <1>4, <2>1, Zenon DEF WordsPowers, z
<1> DEFINE F == WordsPower(a, E, n, w, m)
<1>6. F = WordsPowers(F, a, E, n, w, m)
  BY <1>5 DEF WordsPower
<1> HIDE DEF F
<1>7. \A j \in 0 .. m : F[j] = IF j = 0 THEN z ELSE WordsNext(F[j - 1], E, n, w, j - 1)
  BY <1>6 DEF WordsPowers, z
<1>8. F[0] = z
  <2>1. 0 \in 0 .. m
    OBVIOUS
  <2> QED BY <1>7, <2>1, Zenon
<1>9. \A i \in 0 .. m - 1 : F[i + 1] = WordsNext(F[i], E, n, w, i)
  <2> TAKE i \in 0 .. m - 1
  <2> DEFINE j == i + 1
  <2>1. j \in 0 .. m /\ j # 0 /\ j - 1 = i
    OBVIOUS
  <2> HIDE DEF j
  <2>2. F[j] = WordsNext(F[j - 1], E, n, w, j - 1)
    BY <1>7, <2>1, Zenon
  <2> QED BY <2>1, <2>2 DEF j
<1> DEFINE P == {i \in Nat : i <= m => F[i] \in S}
<1>10. 0 \in P
  BY <1>2, <1>8
<1>11. ASSUME NEW i \in Nat, i \in P PROVE i + 1 \in P
  <2> SUFFICES ASSUME i + 1 <= m PROVE F[i + 1] \in S
    OBVIOUS
  <2>1. i \in 0 .. m - 1 /\ F[i] \in S
    BY <1>11
  <2>2. F[i + 1] = WordsNext(F[i], E, n, w, i)
    BY <1>9, <2>1
  <2> QED BY <1>0, <2>1, <2>2
<1>12. \A i \in 0 .. m : F[i] \in S
  <2>1. \A i \in Nat : i \in P
    <3> HIDE DEF P
    <3> QED BY <1>10, <1>11, SetInduction
  <2> QED BY <2>1
<1> QED BY <1>8, <1>9, <1>12 DEF F, S, z, n, R

\* One, in words.
LEMMA OneIs ==
    ASSUME NEW w \in Nat
    PROVE  LET n == NWords(w) IN mw_one(n) \in Arrays(n) /\ Val(mw_one(n), n, n) = 1
<1> DEFINE n == NWords(w)  o == mw_one(n)
<1>1. n \in Nat \ {0} /\ n * WordBits \in Nat \ {0} /\ n \in 0 .. n
  <2>1. n \in Nat \ {0} /\ WordBits \in Nat \ {0}
    BY WordsHold, WordBitsAssumption
  <2> HIDE DEF n
  <2> QED BY <2>1
<1> HIDE DEF n
<1>2. DigitsOf(o, n, {0}) /\ PlaceSet({0}) /\ SumAt({0}) = 1
  BY <1>1, OneDigits
<1>3. DOMAIN o = 0 .. n - 1 /\ o \in [0 .. n - 1 -> Nat]
  BY DEF mw_one, Words
<1>4. DigitArray(o, n) /\ Val(o, n, n) = Low({0}, n)
  BY <1>1, <1>2, <1>3, ValOf
<1>5. Below({0}, n * WordBits) = {0}
  BY <1>1 DEF Below
<1> QED BY <1>2, <1>3, <1>4, <1>5 DEF Low, Arrays, n

\* A number agrees with itself.
LEMMA AlikeSelf ==
    ASSUME NEW w \in Nat, NEW x \in Int
    PROVE  Alike(x, x, w)
<1> DEFINE p == 2 ^ w
<1>1. p \in Nat
  BY PowerOfTwo
<1> HIDE DEF p
<1>2. x = x + p * 0 /\ 0 \in Int
  BY <1>1
<1> QED BY <1>2, Zenon DEF Alike, p

\* A narrower value with the bits of one that holds a number holds what agrees
\* with it.
LEMMA HoldsAlike ==
    ASSUME NEW m \in Nat, NEW w \in Nat, w <= m, NEW s, NEW t, NEW v, NEW u, NEW n \in Int, NEW k \in Int,
           Holds(v, m, t, n), Alike(n, k, w), Region(u, w, s),
           \A i \in Nat : i < w => BitOf(u, i) = BitOf(v, i)
    PROVE  Holds(u, w, s, k)
<1>1. PICK C : /\ PlaceSet(C) /\ \E q \in Int : SumAt(C) = n + 2 ^ m * q
               /\ \A i \in Nat : i < m => BitOf(v, i) = IF i \in C THEN "1" ELSE "0"
  BY DEF Holds
<1>2. SumAt(C) \in Int
  BY <1>1, SumType
<1>3. Alike(SumAt(C), n, m)
  BY <1>1 DEF Alike
<1>4. Alike(SumAt(C), n, w)
  BY <1>2, <1>3, AlikeBelow
<1>5. Alike(SumAt(C), k, w)
  BY <1>2, <1>4, AlikeSteps
<1>6. \A i \in Nat : i < w => BitOf(u, i) = IF i \in C THEN "1" ELSE "0"
  <2>1. \A i \in Nat : i < w => i < m
    OBVIOUS
  <2> QED BY <1>1, <2>1
<1> QED BY <1>1, <1>5, <1>6 DEF Holds, Alike

\* Whether a number has the bit i.
LEMMA BitOfSum ==
    ASSUME NEW B, PlaceSet(B), NEW i \in Nat
    PROVE  (i \in B) <=> ((SumAt(B) \div 2 ^ i) % 2 = 1)
<1> DEFINE x == SumAt(B)  w == i + 1
<1>1. x \in Int /\ w \in Nat /\ i < w /\ 0 \in Int
  BY SumType
<1>2. 2 ^ w \in Nat
  BY <1>1, PowerOfTwo
<1> HIDE DEF x, w
<1>3. x = x + 2 ^ w * 0
  <2> DEFINE p == 2 ^ w
  <2>1. p \in Nat
    BY <1>2
  <2> HIDE DEF p
  <2>2. x = x + p * 0
    BY <1>1, <2>1
  <2> QED BY <2>2 DEF p
<1>4. SumAt(B) = x + 2 ^ w * 0
  BY <1>3 DEF x
<1>5. (i \in B) <=> ((x \div 2 ^ i) % 2 = 1)
  BY <1>1, <1>4, BitIs
<1> QED BY <1>5 DEF x

\* Sets of places with one sum are one set, and arrays with one value are one array.
LEMMA SameSum ==
    ASSUME NEW A, PlaceSet(A), NEW B, PlaceSet(B), SumAt(A) = SumAt(B)
    PROVE  A = B
<1>2. \A i \in Nat : i \in A <=> i \in B
  BY BitOfSum
<1>3. A \subseteq Nat /\ B \subseteq Nat
  BY DEF PlaceSet
<1> QED BY <1>2, <1>3

\* Arrays of words that make the same number are the same.
LEMMA SameArray ==
    ASSUME NEW n \in Nat, NEW a \in Arrays(n), NEW c \in Arrays(n), Val(a, n, n) = Val(c, n, n)
    PROVE  a = c
<1> DEFINE A == PlacesOf(a, n)  C == PlacesOf(c, n)
<1>1. DigitArray(a, n) /\ DigitArray(c, n) /\ DOMAIN a = 0 .. n - 1 /\ DOMAIN c = 0 .. n - 1
  BY DEF Arrays
<1>2. /\ PlaceSet(A) /\ Below(A, n * WordBits) = A /\ DigitsOf(a, n, A)
      /\ PlaceSet(C) /\ Below(C, n * WordBits) = C /\ DigitsOf(c, n, C)
  <2>1. \A k \in 0 .. n - 1 : a[k] \in Nat /\ a[k] < Base /\ c[k] \in Nat /\ c[k] < Base
    BY <1>1 DEF DigitArray
  <2> QED BY <1>1, <2>1, DigitSet
<1>3. SumAt(A) = SumAt(C)
  BY <1>2 DEF Val, Low
<1> HIDE DEF A, C
<1>4. A = C
  BY <1>2, <1>3, SameSum
<1>5. \A k \in 0 .. n - 1 : a[k] = c[k]
  BY <1>2, <1>4 DEF DigitsOf
<1>6. a = [k \in 0 .. n - 1 |-> a[k]] /\ c = [k \in 0 .. n - 1 |-> c[k]]
  BY DEF Arrays
<1> QED BY <1>5, <1>6

\* Minus one, masked to the width.
LEMMA MinusOneIs ==
    ASSUME NEW w \in Nat, w # 0, NEW s \in BOOLEAN
    PROVE  LET n == NWords(w)
               d == mw_mask(mw_neg(mw_one(n)), w)
           IN  d \in Arrays(n) /\ Val(d, n, n) = 2 ^ w - 1 /\ Holds(OfDigits(d, w, s), w, s, -1)
<1> DEFINE n == NWords(w)  o == mw_one(n)  d == mw_mask(mw_neg(o), w)  p == 2 ^ w
<1>1. n \in Nat \ {0} /\ n * WordBits \in Nat \ {0} /\ n \in 0 .. n /\ w <= n * WordBits
  <2>1. n \in Nat \ {0} /\ WordBits \in Nat \ {0} /\ w <= n * WordBits
    BY WordsHold, WordBitsAssumption
  <2> HIDE DEF n
  <2> QED BY <2>1
<1>2. DigitsOf(o, n, {0}) /\ PlaceSet({0}) /\ SumAt({0}) = 1 /\ DOMAIN o = 0 .. n - 1
  <2>1. DOMAIN o = 0 .. n - 1
    BY DEF mw_one, Words
  <2> HIDE DEF n
  <2> QED BY <1>1, <2>1, OneDigits
<1>3. Below({0}, n * WordBits) = {0}
  BY <1>1 DEF Below
<1>4. PICK C : /\ PlaceSet(C) /\ DigitsOf(d, n, C) /\ DOMAIN d = 0 .. n - 1
               /\ Below(C, n * WordBits) = C /\ SumAt(C) \in Nat /\ SumAt(C) < p
               /\ Alike(SumAt(C), -SumAt({0}), w)
  <2> HIDE DEF o
  <2> QED BY <1>2, <1>3, MaskedNegation
<1>5. d = [k \in DOMAIN d |-> d[k]]
  BY DEF mw_mask
<1> HIDE DEF d, n, o
<1> DEFINE x == SumAt(C)  y == p - 1  m == -1
<1>6. DigitArray(d, n) /\ Val(d, n, n) = x
  <2>1. DigitArray(d, n) /\ Val(d, n, n) = Low(C, n)
    BY <1>1, <1>4, ValOf
  <2> QED BY <1>4, <2>1 DEF Low
<1>7. d \in Arrays(n)
  BY <1>4, <1>5, <1>6 DEF Arrays, DigitArray
<1>8. Alike(x, m, w) /\ x \in Nat /\ m \in Int
  BY <1>2, <1>4
<1>9. p \in Nat \ {0} /\ y \in Nat /\ y < p
  <2>1. p \in Nat \ {0}
    BY PowerOfTwo
  <2> HIDE DEF p
  <2> QED BY <2>1
<1>10. Alike(y, m, w)
  <2>1. y = m + p * 1 /\ 1 \in Int
    <3> HIDE DEF p
    <3> QED BY <1>9
  <2> HIDE DEF y, m
  <2> QED BY <2>1, Zenon DEF Alike, p
<1>11. x = y
  <2> HIDE DEF x, y, m
  <2>0. x \in Int /\ y \in Int /\ m \in Int /\ Alike(x, m, w) /\ Alike(y, m, w)
    BY <1>8, <1>9, <1>10
  <2>1. Alike(m, y, w)
    BY <2>0, AlikeSteps
  <2>2. Alike(x, y, w)
    BY <2>0, <2>1, AlikeSteps
  <2>3. x < 2 ^ w /\ y < 2 ^ w
    BY <1>4, <1>9 DEF x, p
  <2> QED BY <1>8, <1>9, <2>2, <2>3, AlikeExact
<1>12. Holds(OfDigits(d, w, s), w, s, m)
  <2>1. Alike(SumAt(C), m, w) /\ w <= w
    BY <1>8
  <2> HIDE DEF x, m
  <2> QED BY <1>4, <1>8, <2>1, DigitsHold DEF n
<1> QED BY <1>6, <1>7, <1>11, <1>12 DEF d, n, o, x, y, p, m

\* The table of negative exponents.
LEMMA ZeroHeld ==
    ASSUME NEW w \in Nat, NEW s \in BOOLEAN
    PROVE  Holds(zeros(w, s), w, s, 0)
<1> DEFINE v == zeros(w, s)
<1>1. Region(v, w, s) /\ \A i \in Nat : BitOf(v, i) = "0"
  BY FilledBits, FillType
<1>2. PlaceSet({}) /\ SumAt({}) = 0
  <2>1. PlaceSet({})
    BY FS_EmptySet DEF PlaceSet
  <2> QED BY <2>1, SumType
<1>3. Alike(0, 0, w)
  BY AlikeSelf
<1> HIDE DEF v
<1>4. \A i \in Nat : i < w => BitOf(v, i) = IF i \in {} THEN "1" ELSE "0"
  BY <1>1
<1>5. \E z \in Int : SumAt({}) = 0 + 2 ^ w * z
  BY <1>2, <1>3 DEF Alike
<1> QED BY <1>1, <1>2, <1>4, <1>5 DEF Holds, v

\* mw_one holds 1 at every width.
LEMMA OneHeld ==
    ASSUME NEW w \in Nat, NEW s \in BOOLEAN
    PROVE  Holds(OfDigits(mw_one(NWords(w)), w, s), w, s, 1)
<1> DEFINE n == NWords(w)  a == mw_one(n)
<1>1. n \in Nat
  BY WordsHold
<1>2. DigitsOf(a, n, {0}) /\ PlaceSet({0}) /\ SumAt({0}) = 1
  BY <1>1, OneDigits
<1>3. Alike(SumAt({0}), 1, w) /\ w <= w /\ 1 \in Int
  BY <1>2, AlikeSelf
<1> HIDE DEF a
<1>4. Holds(OfDigits(a, w, s), w, s, 1)
  BY <1>2, <1>3, DigitsHold
<1> QED BY <1>4 DEF a

\* Words whose number is alike n hold n once they are masked.
LEMMA ArrayHolds ==
    ASSUME NEW w \in Nat, NEW s \in BOOLEAN, NEW d, DigitArray(d, NWords(w)), NEW k \in Int,
           Alike(Val(d, NWords(w), NWords(w)), k, w)
    PROVE  Holds(OfDigits(mw_mask(d, w), w, s), w, s, k)
<1> DEFINE n == NWords(w)  C == PlacesOf(d, n)
<1>1. n \in Nat /\ w <= w
  BY WordsHold
<1>2. PlaceSet(C) /\ Below(C, n * WordBits) = C /\ DigitsOf(d, n, C)
  <2>1. DOMAIN d = 0 .. n - 1 /\ \A i \in 0 .. n - 1 : d[i] \in Nat /\ d[i] < Base
    BY DEF DigitArray
  <2> QED BY <1>1, <2>1, DigitSet
<1>3. SumAt(C) = Val(d, n, n)
  BY <1>2 DEF Val, Low
<1> HIDE DEF C
<1>4. Alike(SumAt(C), k, w)
  BY <1>3
<1> QED BY <1>1, <1>2, <1>4, DigitsHold DEF n

\* An x stays one when its width is cut.
LEMMA CutBlank ==
    ASSUME NEW m \in Nat, NEW w \in Nat, w <= m, NEW s \in BOOLEAN
    PROVE  AllUnknown(resize(xs(m, s), w), w, s)
<1> DEFINE v == xs(m, s)  u == resize(v, w)
<1>1. v \in Values /\ v.width = m /\ v.signed = s /\ \A i \in Nat : i < m => BitOf(v, i) = "x"
  BY FilledBits
<1> HIDE DEF v
<1>2. u \in Values /\ u.width = w /\ u.signed = s /\ \A i \in Nat : i < w => BitOf(u, i) = Ext(v, s, i)
  BY <1>1, ResizeExtends
<1> HIDE DEF u
<1>3. \A i \in Nat : i < w => BitOf(u, i) = "x"
  <2> SUFFICES ASSUME NEW i \in Nat, i < w PROVE BitOf(u, i) = "x"
    OBVIOUS
  <2>1. i < m
    OBVIOUS
  <2> QED BY <1>1, <1>2, <2>1 DEF Ext
<1> QED BY <1>2, <1>3 DEF AllUnknown, Region, u, v

-----------------------------------------------------------------------------
(* $countones and $clog2.                                                  *)

\* Above its own bits a number has zeros.
LEMMA HighBits ==
    ASSUME NEW k \in Nat, NEW n \in Nat, n < 2 ^ k, NEW i \in Nat, k <= i
    PROVE  (n \div 2 ^ i) % 2 # 1
<1>1. PICK B \in SUBSET (0 .. k - 1) : PlaceSet(B) /\ SumAt(B) = n
  BY EveryNumber
<1>2. i \notin B
  OBVIOUS
<1> QED BY <1>1, <1>2, BitOfSum

\* The least power of two that a number does not pass is above its predecessor's top bit.
BitsBefore(w, n) == {i \in 0 .. w : ((n - 1) \div 2 ^ i) % 2 = 1}

Reaching(w, n)   == {k \in 0 .. w : 2 ^ k >= n}

Logarithm(w, n)  == IF n <= 1 THEN 0 ELSE Max(BitsBefore(w, n)) + 1

\* The loop of $clog2 stops at the least power that reaches the number.
LEMMA LeastPower ==
    ASSUME NEW w \in Nat, NEW n \in Nat, n < 2 ^ w
    PROVE  LET k == Logarithm(w, n) IN k \in Nat /\ k <= w /\ k = Min(Reaching(w, n))
<1> DEFINE set == {i \in 0 .. w : ((n - 1) \div 2 ^ i) % 2 = 1}
           k == IF n <= 1 THEN 0 ELSE Max(set) + 1
           P == {j \in 0 .. w : 2 ^ j >= n}
<1>1. k \in 0 .. w /\ 2 ^ k >= n /\ \A j \in 0 .. w : 2 ^ j >= n => k <= j
  <2>1. CASE n <= 1
    <3>1. k = 0 /\ 2 ^ 0 = 1
      BY <2>1, PowerOfTwo
    <3> HIDE DEF k
    <3> QED BY <2>1, <3>1
  <2>2. CASE ~(n <= 1)
    <3> DEFINE m == n - 1
    <3>1. m \in Nat /\ m >= 1 /\ n = m + 1
      BY <2>2
    <3>2. m < 2 ^ w
      <4> DEFINE p == 2 ^ w
      <4>1. p \in Nat /\ n < p
        BY PowerOfTwo
      <4> HIDE DEF p
      <4>2. m < p
        BY <3>1, <4>1
      <4> QED BY <4>2 DEF p
    <3>3. set = {i \in 0 .. w : (m \div 2 ^ i) % 2 = 1}
      OBVIOUS
    <3> HIDE DEF m, set
    <3>4. PICK B \in SUBSET (0 .. w - 1) : PlaceSet(B) /\ SumAt(B) = m
      BY <3>1, <3>2, EveryNumber
    <3>5. \A i \in Nat : (i \in B) <=> ((m \div 2 ^ i) % 2 = 1)
      BY <3>4, BitOfSum
    <3>6. set = B
      <4>1. \A i \in 0 .. w : i \in Nat
        OBVIOUS
      <4>2. \A i \in B : i \in 0 .. w
        BY <3>4
      <4> QED BY <3>3, <3>5, <4>1, <4>2
    <3>7. B # {}
      BY <3>1, <3>4, SumType
    <3> DEFINE t == Max(set)
    <3>8. t \in B /\ \A i \in B : i <= t
      <4>1. \E x \in B : \A i \in B : x >= i
        <5>1. B \subseteq Nat /\ IsFiniteSet(B)
          BY <3>4 DEF PlaceSet
        <5>2. \E x \in B : \A i \in B : i <= x
          BY <3>4, <3>7, Greatest
        <5> QED BY <5>1, <5>2
      <4>2. Max(B) \in B /\ \A i \in B : Max(B) >= i
        BY <4>1 DEF Max
      <4> QED BY <3>4, <3>6, <4>2
    <3>9. k = t + 1
      BY <2>2
    <3> HIDE DEF t, k
    <3>10. t \in 0 .. w - 1 /\ t \in Nat /\ t + 1 \in Nat /\ k \in 0 .. w
      BY <3>4, <3>8, <3>9
    <3>11. B \subseteq 0 .. (t + 1) - 1
      BY <3>4, <3>8, <3>10
    <3>12. m < 2 ^ (t + 1)
      BY <3>4, <3>10, <3>11, SumBound
    <3>13. 2 ^ t <= m
      BY <3>4, <3>8, SumType
    <3>14. 2 ^ k >= n
      <4> DEFINE p == 2 ^ (t + 1)
      <4>1. p \in Nat /\ m < p
        BY <3>10, <3>12, PowerOfTwo
      <4> HIDE DEF p
      <4>2. p >= n
        BY <3>1, <4>1
      <4> QED BY <3>9, <4>2 DEF p
    <3>15. ASSUME NEW j \in 0 .. w, 2 ^ j >= n PROVE k <= j
      <4>1. CASE j <= t
        <5>1. 2 ^ j <= 2 ^ t
          BY <3>10, <4>1, PowerOrder
        <5> DEFINE p == 2 ^ j  q == 2 ^ t
        <5>2. p \in Nat /\ q \in Nat /\ p <= q /\ q <= m /\ p >= n
          BY <3>10, <3>13, <3>15, <5>1, PowerOfTwo
        <5> HIDE DEF p, q
        <5> QED BY <3>1, <5>2
      <4>2. CASE ~(j <= t)
        BY <3>9, <3>10, <4>2
      <4> QED BY <4>1, <4>2
    <3> QED BY <3>10, <3>14, <3>15
  <2> QED BY <2>1, <2>2
<1> HIDE DEF k
<1>2. k = Min(P)
  <2>1. k \in P /\ \A j \in P : k <= j
    BY <1>1
  <2>2. \A j \in P : j \in Int
    OBVIOUS
  <2> HIDE DEF P
  <2>3. \A j \in P : (\A i \in P : j <= i) => j = k
    BY <2>1, <2>2
  <2>4. Min(P) \in P /\ \A i \in P : Min(P) <= i
    BY <2>1 DEF Min
  <2> QED BY <2>3, <2>4
<1> QED BY <1>1, <1>2 DEF k, Logarithm, BitsBefore, Reaching

\* A number of ones is below the width, and so is the logarithm.
LEMMA CountFits ==
    ASSUME NEW v \in Values
    PROVE  Cardinality(OnesOf(v)) \in Nat /\ Cardinality(OnesOf(v)) <= v.width
<1> DEFINE S == 0 .. v.width - 1
<1>1. v.width \in Nat
  BY ValueParts
<1>2. IsFiniteSet(S) /\ Cardinality(S) = v.width
  <2> DEFINE m == v.width - 1
  <2>1. 0 \in Int /\ m \in Int
    BY <1>1
  <2> HIDE DEF m
  <2>2. IsFiniteSet(0 .. m) /\ Cardinality(0 .. m) = IF 0 > m THEN 0 ELSE m - 0 + 1
    BY <2>1, FS_Interval, Zenon
  <2> QED BY <1>1, <2>2 DEF m
<1>3. OnesOf(v) \subseteq S
  BY DEF OnesOf
<1> HIDE DEF S
<1>4. Cardinality(OnesOf(v)) <= Cardinality(S) /\ IsFiniteSet(OnesOf(v))
  BY <1>2, <1>3, FS_Subset
<1> QED BY <1>2, <1>4, FS_CardinalityType
=============================================================================
