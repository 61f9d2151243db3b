----------------------------- MODULE DumpStream -----------------------------
(***************************************************************************)
(* What a waveform file promises, whatever thread writes it: the chunks    *)
(* the simulation produced, in order and without a gap, until a client has *)
(* been told that some are lost; and a run that ends without a warning,    *)
(* and told nobody, has them all.  VcdThread implements it.                *)
(***************************************************************************)
EXTENDS Integers, Sequences

CONSTANT MaxChunks

VARIABLES
    produced,  \* chunks the simulation has produced
    file,      \* the file: chunk c whole is c, a torn piece of it is -c
    told,      \* a `$dumpflush` was handed an error
    ending     \* "open", then "clean" or "warned"

Number(e) == IF e < 0 THEN 0 - e ELSE e
Last(f)   == IF f = <<>> THEN 0 ELSE Number(f[Len(f)])
Whole(f)  == \A i \in 1 .. Len(f) : f[i] = i

Init == produced = 0 /\ file = <<>> /\ told = FALSE /\ ending = "open"

Produce == /\ ending = "open"
           /\ produced < MaxChunks
           /\ produced' = produced + 1
           /\ UNCHANGED <<file, told, ending>>

\* A later chunk reaches the file, whole or torn: the next one after whole
\* ones, any one once somebody has been told of the loss.
Extend == /\ \E c \in Last(file) + 1 .. produced :
                /\ told \/ (Whole(file) /\ c = Len(file) + 1)
                /\ file' \in {Append(file, c), Append(file, 0 - c)}
          /\ UNCHANGED <<produced, told, ending>>

Tell == ending = "open" /\ told' = TRUE /\ UNCHANGED <<produced, file, ending>>

Close == /\ ending = "open"
         /\ \/ /\ ending' = "clean"
               /\ told \/ (Whole(file) /\ Len(file) = produced)
            \/ ending' = "warned"
         /\ UNCHANGED <<produced, file, told>>

Next == Produce \/ Extend \/ Tell \/ Close

Spec == Init /\ [][Next]_<<produced, file, told, ending>>
=============================================================================
