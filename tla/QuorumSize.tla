----------------------------- MODULE QuorumSize -----------------------------
(***************************************************************************)
(* Quorum arithmetic of the consensus layer.                               *)
(*                                                                         *)
(* getQuorumSize (consensus/polybft/validator/validator_set.go) computes   *)
(* ceil(0.6 * totalVotingPower) in binary floating point: the literal 0.6  *)
(* is a float64, the product is a big.Float whose precision is that of the *)
(* integer operand (its bit length, at least 64), and the product is       *)
(* rounded again to float64 before math.Ceil.  A binary float is modelled  *)
(* as a dyadic number m * 2^e and every rounding as IEEE round-to-nearest, *)
(* ties-to-even, to a significand of a given width.  The widths are        *)
(* CONSTANTS: FloatPrec stands for float64's 53 bits and IntPrec for the   *)
(* 64-bit minimum precision big.Float gives an integer; TLC's 32-bit       *)
(* integers force scaled-down widths, at which the rounding of totals      *)
(* near 2^FloatPrec behaves as the real code does for totals near 2^53.    *)
(*                                                                         *)
(* The IBFT helpers (consensus/ibft/validators.go) also go through         *)
(* float64, but on a validator count: float64 represents 0.4 * N and       *)
(* 0.6 * N closely enough that int() and math.Ceil give the exact integer  *)
(* results for every N below 2^50, so they are modelled exactly.           *)
(***************************************************************************)
EXTENDS Integers

CONSTANTS
    FloatPrec,  \* significand width of float64 (53 in the code)
    IntPrec     \* minimum precision of big.Float.SetInt (64 in the code)

ASSUME FloatPrec \in Nat \ {0} /\ IntPrec \in Nat /\ IntPrec >= FloatPrec

RECURSIVE BitLen(_)
\* big.Int.BitLen: the number of bits of a natural number (0 for 0).
BitLen(n) == IF n = 0 THEN 0 ELSE 1 + BitLen(n \div 2)

\* A binary floating-point value m * 2^e with a natural significand m.
Dyadic(m, e) == [m |-> m, e |-> e]

\* Rounding a dyadic value to a significand of p bits, ties to even
\* (the rounding mode of big.Float arithmetic and of Float64()).
RoundToPrec(x, p) ==
    IF BitLen(x.m) <= p THEN x
    ELSE LET k    == BitLen(x.m) - p
             q    == x.m \div (2^k)
             r    == x.m % (2^k)
             half == 2^(k - 1)
             up   == r > half \/ (r = half /\ q % 2 = 1)
         IN  Dyadic(IF up THEN q + 1 ELSE q, x.e + k)

\* math.Ceil of a dyadic value, as an integer (big.Float.Int is exact on it).
CeilDyadic(x) ==
    IF x.e >= 0 THEN x.m * 2^(x.e)
    ELSE (x.m + 2^(-x.e) - 1) \div 2^(-x.e)

\* The float64 literal 0.6: 3/5 rounded to FloatPrec bits, as m * 2^-FloatPrec.
QuorumPercentage ==
    LET scaled == 3 * 2^FloatPrec
        q == scaled \div 5
        r == scaled % 5
    IN  Dyadic(IF 2 * r > 5 THEN q + 1 ELSE q, -FloatPrec)

\* int() of a dyadic value: truncation toward zero (values here are >= 0).
FloorDyadic(x) ==
    IF x.e >= 0 THEN x.m * 2^(x.e) ELSE x.m \div 2^(-x.e)

\* math.Round of a dyadic value: half away from zero (values here are >= 0).
RoundDyadic(x) ==
    IF x.e >= 0 THEN x.m * 2^(x.e) ELSE (2 * x.m + 2^(-x.e)) \div 2^(1 - x.e)

\* The float64 getQuorumSize holds before math.Ceil: the big.Float product
\* 0.6 * total at precision max(53, max(64, BitLen(total))), then Float64().
QuorumFloat64(totalVotingPower) ==
    LET mulPrec == IF BitLen(totalVotingPower) > IntPrec
                   THEN BitLen(totalVotingPower) ELSE IntPrec
        quorumFloat == RoundToPrec(Dyadic(QuorumPercentage.m * totalVotingPower,
                                          QuorumPercentage.e), mulPrec)
    IN  RoundToPrec(quorumFloat, FloatPrec)

\* Mutations of getQuorumSize, as a slip in its code would compute it:
\* int() truncation in place of math.Ceil; math.Round in place of
\* math.Ceil; the total taken through a 64-bit integer (Int64()), which
\* keeps only its low IntPrec bits.
getQuorumSizeTruncated(blockNumber, totalVotingPower) ==
    FloorDyadic(QuorumFloat64(totalVotingPower))
getQuorumSizeRounded(blockNumber, totalVotingPower) ==
    RoundDyadic(QuorumFloat64(totalVotingPower))
getQuorumSizeInt64(blockNumber, totalVotingPower) ==
    CeilDyadic(QuorumFloat64(totalVotingPower % 2^IntPrec))

\* getQuorumSize: math.Ceil of the float64 product, converted back to an
\* integer.  blockNumber is accepted and ignored, as in the code.
getQuorumSize(blockNumber, totalVotingPower) ==
    CeilDyadic(QuorumFloat64(totalVotingPower))

\* Mutation: math.Ceil in place of int() truncation.
CalcMaxFaultyNodesCeil(n) == (4 * n + 9) \div 10

\* CalcMaxFaultyNodes: F = floor(0.4 * N).
CalcMaxFaultyNodes(n) == (4 * n) \div 10

\* LegacyQuorumSize: ceil(0.6 * N).
LegacyQuorumSize(n) == (6 * n + 9) \div 10

\* OptimalQuorumSize: the active IBFT rule, also ceil(0.6 * N).
OptimalQuorumSize(n) == (6 * n + 9) \div 10

-----------------------------------------------------------------------------
\* Reference: the quorum the specification requires, the smallest integer
\* >= 60% of the total, in exact arithmetic.
ExactQuorumSize(total) == (6 * total + 9) \div 10
=============================================================================
