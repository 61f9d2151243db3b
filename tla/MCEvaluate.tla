----------------------------- MODULE MCEvaluate -----------------------------
(***************************************************************************)
(* Words of three bits: values of up to three bits take one word, of up to *)
(* six two, of seven three, so that every lane and every word boundary is  *)
(* met.  All values of one bit, all known ones of three and of four bits,  *)
(* and chosen ones with unknown bits and of two, six and seven bits.       *)
(***************************************************************************)
EXTENDS ConstFold

\* The value of width w with the bits of val and unk set.
V(w, val, unk, s) ==
    LET Words3(bits) == [k \in 0 .. NWords(w) - 1 |->
                            {b \in Bit : k * WordBits + b \in bits}]
    IN  Value(Words3(val), Words3(unk), w, s)

KnownOf(w, nums) == {V(w, {i \in 0 .. w - 1 : (n \div 2 ^ i) % 2 = 1}, {}, s) :
                     n \in nums, s \in BOOLEAN}
MixedOf(w, pairs) == {V(w, p[1], p[2], s) : p \in pairs, s \in BOOLEAN}

MCOperands ==
    {V(1, v, u, FALSE) : v \in SUBSET {0}, u \in SUBSET {0}}
    \cup {V(2, {1}, {}, TRUE), V(2, {0, 1}, {1}, TRUE)}
    \cup KnownOf(3, {5, 7}) \cup {V(3, {0}, {2}, TRUE), V(3, {2}, {2}, FALSE)}
    \cup KnownOf(4, {6, 8, 15}) \cup {V(4, {1, 3}, {3}, TRUE), V(4, {3}, {0, 1}, FALSE)}
    \cup KnownOf(6, {11}) \cup {V(6, {0, 4, 5}, {2, 4}, FALSE)}
    \cup KnownOf(7, {0, 102, 127}) \cup {V(7, {1, 5, 6}, {3, 6}, TRUE)}

MCContexts == {[width |-> 0, signed |-> TRUE], [width |-> 5, signed |-> FALSE],
               [width |-> 7, signed |-> TRUE]}

MCLeaves == {V(3, {0, 2}, {}, TRUE), V(4, {1, 2}, {}, FALSE), V(7, {1, 2, 5, 6}, {}, TRUE),
             V(3, {0}, {2}, FALSE)}

MCLiterals == {V(4, {1, 2}, {}, FALSE), V(3, {0, 2}, {}, TRUE)}

MCConditions == {V(1, {0}, {}, FALSE), V(1, {}, {0}, FALSE),
                 V(2, {}, {}, FALSE), V(4, {0, 1, 3}, {1, 2, 3}, TRUE)}
=============================================================================
