----------------------------- MODULE MixedCompare -----------------------------
(***************************************************************************)
(* Mixed::compare and _impl::compare_float (mixed.cpp).                    *)
(*                                                                         *)
(* Doubles are modelled by a 5-bit IEEE-754-style format with the same   *)
(* layout as the real one: sign bit, 2 exponent bits, 2 mantissa bits.    *)
(* The top exponent gives infinities (mantissa 0) and NaNs (mantissa not  *)
(* 0: three payloads of each sign); exponent 0 gives the zeros and the    *)
(* subnormals.  The raw bits are what memcpy into the unsigned IntType    *)
(* yields.  A triple of values of one type (or null) is sampled per state *)
(* and the comparison is checked on it.                                   *)
(***************************************************************************)
EXTENDS Integers, SequencesExt

CONSTANTS
    IntBits,    \* width of the sampled ints (int64_t: 64)
    ByteVals,   \* byte values of the sampled binaries
    MaxBinary   \* longest sampled binary

IntVals == -(2^(IntBits - 1)) .. 2^(IntBits - 1) - 1

Bits == 0 .. 31
Null == [type |-> "null"]
Doubles == {[type |-> "double", bits |-> b] : b \in Bits}
Ints == {[type |-> "int", v |-> i] : i \in IntVals}
Binaries == {[type |-> "binary", bytes |-> s] : s \in BoundedSeq(ByteVals, MaxBinary)}

\* Fields of the bit pattern.
Sign(b) == b \div 16
Exp(b) == (b \div 4) % 4
Mant(b) == b % 4

\* std::isnan
IsNaN(b) == Exp(b) = 3 /\ Mant(b) # 0

\* The real number a non-NaN pattern stands for, times 4 (so that every
\* finite value is an integer); infinities as +-100, above every finite.
Magnitude(b) ==
    CASE Exp(b) = 3 -> 100
      [] Exp(b) = 0 -> Mant(b)
      [] OTHER      -> (4 + Mant(b)) * 2^(Exp(b) - 1)
Real(b) == IF Sign(b) = 1 THEN -Magnitude(b) ELSE Magnitude(b)

\* Three-way comparison of two numbers.
Cmp3(x, y) == IF x = y THEN 0 ELSE IF x < y THEN -1 ELSE 1

\* compare_float as it would read without its NaN cases: IEEE == and <.
compare_float_ieee_only(a, b) ==
    IF ~IsNaN(a) /\ ~IsNaN(b) /\ Real(a) = Real(b) THEN 0
    ELSE IF ~IsNaN(a) /\ ~IsNaN(b) /\ Real(a) < Real(b) THEN -1 ELSE 1

\* compare_float with the mixed case turned round: NaN above numbers.
compare_float_nan_high(a, b) ==
    CASE ~IsNaN(a) /\ ~IsNaN(b) -> Cmp3(Real(a), Real(b))
      [] IsNaN(a) /\ IsNaN(b)   -> Cmp3(a, b)
      [] OTHER                  -> IF IsNaN(a) THEN 1 ELSE -1

\* compare_float returning the difference of the NaN bit patterns.
compare_float_bits_diff(a, b) ==
    CASE ~IsNaN(a) /\ ~IsNaN(b) -> Cmp3(Real(a), Real(b))
      [] IsNaN(a) /\ IsNaN(b)   -> a - b
      [] OTHER                  -> IF IsNaN(a) THEN -1 ELSE 1

\* _impl::compare_float: IEEE comparison when neither is NaN (so -0 equals
\* +0), raw unsigned bits when both are, and NaN below any number.
compare_float(a, b) ==
    CASE ~IsNaN(a) /\ ~IsNaN(b) -> Cmp3(Real(a), Real(b))
      [] IsNaN(a) /\ IsNaN(b)   -> Cmp3(a, b)
      [] OTHER                  -> IF IsNaN(a) THEN -1 ELSE 1

\* memcmp(a, b, n): the difference of the first differing bytes (glibc),
\* 0 when the first n bytes agree.
RECURSIVE memcmp(_, _, _)
memcmp(a, b, n) ==
    IF n = 0 THEN 0
    ELSE IF Head(a) # Head(b) THEN Head(a) - Head(b)
    ELSE memcmp(Tail(a), Tail(b), n - 1)

\* _impl::compare_binary: memcmp over the shorter size, then the longer
\* one is greater.
compare_binary(a, b) ==
    LET ret == memcmp(a, b, IF Len(a) < Len(b) THEN Len(a) ELSE Len(b))
    IN  IF ret # 0 THEN ret ELSE IF Len(a) > Len(b) THEN 1 ELSE IF Len(a) < Len(b) THEN -1 ELSE 0

\* Mixed::compare for two values of one type, or null: null below all.
compare(a, b) ==
    CASE a = Null          -> IF b = Null THEN 0 ELSE -1
      [] b = Null          -> 1
      [] a.type = "int"    -> Cmp3(a.v, b.v)
      [] a.type = "double" -> compare_float(a.bits, b.bits)
      [] a.type = "binary" -> compare_binary(a.bytes, b.bytes)

\* The design's order (spec: value kinds, null ordering), as a rank: null,
\* then the NaNs in raw-bit order, then the numbers; binaries in
\* lexicographic byte order, a proper prefix first.
DesignRank(x) ==
    CASE x = Null                         -> <<0, 0>>
      [] x.type = "int"                   -> <<2, x.v>>
      [] x.type = "binary"                -> <<3, x.bytes>>
      [] IsNaN(x.bits)                    -> <<1, x.bits>>
      [] OTHER                            -> <<2, Real(x.bits)>>
RECURSIVE LexCmp(_, _)
LexCmp(u, v) ==
    CASE u = <<>> /\ v = <<>> -> 0
      [] u = <<>>             -> -1
      [] v = <<>>             -> 1
      [] Head(u) # Head(v)    -> Cmp3(Head(u), Head(v))
      [] OTHER                -> LexCmp(Tail(u), Tail(v))
RankCmp(r, s) ==
    IF r[1] # s[1] THEN Cmp3(r[1], s[1])
    ELSE IF r[1] = 3 THEN LexCmp(r[2], s[2]) ELSE Cmp3(r[2], s[2])

VARIABLES x, y, z

Values == {Null} \cup Doubles \cup Ints \cup Binaries

\* Callers of compare read only the sign of its answer.
Sgn(i) == Cmp3(i, 0)

\* Mixed::compare reads b as a's type: the values compared are of one
\* column type, or null.
Comparable(t) == \A i, j \in DOMAIN t : t[i] # Null /\ t[j] # Null => t[i].type = t[j].type

Init == x \in Values /\ y \in Values /\ z \in Values /\ Comparable(<<x, y, z>>)

\* Sample the next triple by replacing one of its values.
Next ==
    \E v \in Values :
        \/ x' = v /\ UNCHANGED <<y, z>> /\ Comparable(<<v, y, z>>)
        \/ y' = v /\ UNCHANGED <<x, z>> /\ Comparable(<<x, v, z>>)
        \/ z' = v /\ UNCHANGED <<x, y>> /\ Comparable(<<x, y, v>>)

Spec == Init /\ [][Next]_<<x, y, z>>

\* What compare can answer: a sign, or memcmp's difference of two bytes.
CompareRange == {-1, 0, 1} \cup {b1 - b2 : b1, b2 \in ByteVals}

TypeOK == {x, y, z} \subseteq Values /\ Comparable(<<x, y, z>>) /\ compare(x, y) \in CompareRange

\* Mixed::compare is a total preorder, as sorting over it requires:
\* swapping the operands negates the sign of the answer, and both the
\* order and the equivalence are transitive, NaN payloads, signed zeros,
\* infinities and binaries that are prefixes of each other included.
CompareIsTotalPreorder ==
    /\ Sgn(compare(x, y)) = -Sgn(compare(y, x))
    /\ compare(x, y) <= 0 /\ compare(y, z) <= 0 => compare(x, z) <= 0
    /\ compare(x, y) = 0 /\ compare(y, z) = 0 => compare(x, z) = 0

\* Mixed::compare orders as the design states: nulls below everything,
\* NaNs below every non-NaN double and among themselves by raw bits,
\* numbers by value.
CompareMatchesDesign == Sgn(compare(x, y)) = RankCmp(DesignRank(x), DesignRank(y))

====
