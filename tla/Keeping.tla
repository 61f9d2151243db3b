------------------------------- MODULE Keeping -------------------------------
(***************************************************************************)
(* The entries of a sequence that stay when the others are taken out: what *)
(* the loops over run queues and manifests build.                          *)
(***************************************************************************)
EXTENDS Integers, Sequences

\* The entries of q at the places I, in the order of q.
Kept(q, I) ==
    LET upto[n \in 0 .. Len(q)] ==
            IF n = 0 THEN <<>>
            ELSE IF n \in I THEN Append(upto[n - 1], q[n]) ELSE upto[n - 1]
    IN  upto[Len(q)]
=============================================================================
