------------------------------ MODULE MCWorkLib ------------------------------
(***************************************************************************)
(* Instances of WorkLib: a top that instantiates a leaf, two versions of   *)
(* the leaf, a header both include, and a second library that also holds   *)
(* the leaf.                                                               *)
(***************************************************************************)
EXTENDS WorkLib, TLC

CONSTANTS a, b, h,                      \* files
          top, topx, leaf, both, h1, h2, \* contents
          d1, d2,                       \* directories
          p1, p2                        \* vcmp processes

VcmpSymmetry == Permutations({p1, p2})

MCPaths    == {a, b, h}
MCContents == {top, topx, leaf, both, h1, h2}

\* b may come to declare the top as well, which only a's unit may.
MCTexts == (a :> {top, topx}) @@ (b :> {leaf, both}) @@ (h :> {h1, h2})

MCInitial == (a :> top) @@ (b :> leaf) @@ (h :> h1)

\* Every edit changes the size.
MCLength == (top :> 10) @@ (topx :> 11) @@ (leaf :> 20) @@ (both :> 21)
                @@ (h1 :> 30) @@ (h2 :> 31)

\* An edit may keep the size.
MCSameLength == [c \in MCContents |-> 10]

MCDefines == (top :> {"t"}) @@ (topx :> {"t", "l"}) @@ (leaf :> {"l"})
                @@ (both :> {"t", "l"}) @@ (h1 :> {}) @@ (h2 :> {})

MCInstances == (top :> {"l"}) @@ (topx :> {}) @@ (leaf :> {}) @@ (both :> {"l"})
                @@ (h1 :> {}) @@ (h2 :> {})

MCIncludes == [c \in MCContents |-> IF c \in {top, leaf} THEN {h} ELSE {}]

MCRequests == {[dir |-> d1, name |-> d1, sources |-> {a}],
               [dir |-> d1, name |-> d1, sources |-> {b}],
               [dir |-> d1, name |-> d1, sources |-> {a, b}],
               [dir |-> d2, name |-> d2, sources |-> {b}],
               [dir |-> d1, name |-> d2, sources |-> {b}]}

MCSearchOrder == <<[dir |-> d2, name |-> d2], [dir |-> d1, name |-> d1]>>
=============================================================================
