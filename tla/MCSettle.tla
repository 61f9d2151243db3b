------------------------------ MODULE MCSettle ------------------------------
(***************************************************************************)
(* The circuit, in the order of its declarations:                          *)
(*   reg a = 0|1, en = 0|1;                                                 *)
(*   1: assign q = w & y;             reads nets driven further down        *)
(*   2: assign w = ~a;                                                      *)
(*   3: assign m = a;  4: assign m = en ? w : 1'bz;      two drivers         *)
(*   5: assign #(2, 1) y = m;         rise 2, fall 1, x and z 1             *)
(*   6: assign #(en ? 1 : -1) r = q;  a runtime delay, never when en is 0   *)
(*   7: assign #(0, 3) s = w;         rises without delay                   *)
(*   8: assign o = (en === r) & s ? ~o : 1'b0;  may oscillate               *)
(***************************************************************************)
EXTENDS Settle

MCNets    == {"a", "en", "q", "w", "m", "y", "r", "s", "o"}
MCInputs  == {"a", "en"}
MCLhs     == <<"q", "w", "m", "m", "y", "r", "s", "o">>
MCDeps    == <<{"w", "y"}, {"a"}, {"a"}, {"en", "w"}, {"m"}, {"q"}, {"w"},
               {"en", "r", "s", "o"}>>
MCDelayed == {5, 6, 7}
MCRuntime == {6}
MCInitVal == [n \in MCNets |-> IF n \in MCInputs THEN "x" ELSE "z"]

Not(b)    == CASE b = "0" -> "1" [] b = "1" -> "0" [] OTHER -> "x"
And(b, c) == CASE "0" \in {b, c} -> "0" [] b = "1" /\ c = "1" -> "1" [] OTHER -> "x"
Known(b)  == IF b = "z" THEN "x" ELSE b

MCRhs(i, f) ==
    CASE i = 1 -> And(f["w"], f["y"])
      [] i = 2 -> Not(f["a"])
      [] i = 3 -> f["a"]
      [] i = 4 -> CASE f["en"] = "1" -> Known(f["w"])
                    [] f["en"] = "0" -> "z"
                    [] OTHER -> "x"
      [] i = 5 -> f["m"]
      [] i = 6 -> f["q"]
      [] i = 7 -> f["w"]
      [] i = 8 -> IF f["en"] = f["r"] /\ f["s"] = "1" THEN Not(f["o"]) ELSE "0"

MCNever == 9
MCDelay(i, v, f) ==
    CASE i = 5 -> IF v = "1" THEN 2 ELSE 1
      [] i = 6 -> CASE f["en"] = "1" -> 1 [] f["en"] = "0" -> MCNever [] OTHER -> 0
      [] i = 7 -> IF v = "0" THEN 3 ELSE 0

\* A wire: a driver at z yields, drivers that disagree make x.
MCResolve(n, vs) == LET d == vs \ {"z"}
                    IN  IF d = {} THEN "z"
                        ELSE IF Cardinality(d) = 1 THEN CHOOSE v \in d : TRUE ELSE "x"
=============================================================================
