----------------------------- MODULE MCCalculator -----------------------------
(* Small instances of Calculator for TLC: operands on both sides of every  *)
(* boundary between fixnums, bignums of one digit and bignums of two.      *)
EXTENDS Calculator

MCIntegers  == {-257, -17, -16, -15, -8, -5, -4, -3, -1, 0, 1, 2, 3, 4, 7, 12, 15, 16, 17, 48, 256}
MCFractions == {<<1, 3>>, <<-1, 4>>, <<3, 2>>, <<-5, 16>>, <<17, 5>>}
MCComplexes == {Exact(<<0, 1>>, <<1, 1>>), Exact(<<3, 2>>, <<-4, 1>>)}

MCOperands  == {OfNat(n) : n \in MCIntegers} \cup {RealOf(f) : f \in MCFractions} \cup MCComplexes
MCPairs     == {<<OfNat(-17), OfNat(3)>>, <<OfNat(256), None>>, <<RealOf(<<17, 5>>), OfNat(-4)>>}
MCSamples   == {Bytes(<<0, 1, 1, 0, 1, 0>>), [Bytes(<<1, 0, 1, 1>>) EXCEPT !.literal = TRUE]}
MCPowers    == -3..3
MCShifts    == -9..6
==============================================================================
