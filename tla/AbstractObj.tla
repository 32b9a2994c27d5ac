----------------------------- MODULE AbstractObj -----------------------------
(***************************************************************************)
(* What an object promises its users, with no memory, accessor or version *)
(* in sight: object X has a nullable int field and a link to object Y of  *)
(* the same table; Y has the backlink column of that link.  Every setter  *)
(* of Obj (obj.cpp) is one atomic change of these three fields.           *)
(***************************************************************************)
EXTENDS Integers

CONSTANTS
    W,          \* width of the int column in bits (int64_t: 64)
    NullInt,    \* the null of a nullable int column
    Null,       \* null_key
    Y           \* key of the link target

\* Two's-complement values of W bits.
IntW == -(2^(W-1)) .. 2^(W-1) - 1

\* The add_wrap lambda of Obj::add_int: int64_t(uint64_t(a) + uint64_t(b)),
\* i.e. the sum reduced modulo 2^W into the signed range.
add_wrap(a, b) == ((a + b + 2^(W-1)) % 2^W) - 2^(W-1)

VARIABLES
    xInt,       \* X's int field
    xLink,      \* X's link field
    yBl         \* number of backlinks Y holds from X

absVars == <<xInt, xLink, yBl>>

AbsInit ==
    /\ xInt = 0
    /\ xLink = Null
    /\ yBl = 0

SetInt(v) == xInt' = v /\ UNCHANGED <<xLink, yBl>>

\* On a null value add_int throws and nothing changes.
AddInt(d) ==
    /\ xInt # NullInt
    /\ xInt' = add_wrap(xInt, d)
    /\ UNCHANGED <<xLink, yBl>>

SetNull == xInt' = NullInt /\ UNCHANGED <<xLink, yBl>>

\* Setting the link moves its backlink with it.
SetLink(t) ==
    /\ t # xLink
    /\ xLink' = t
    /\ yBl' = IF t = Y THEN yBl + 1 ELSE yBl - 1
    /\ UNCHANGED xInt

AbsNext ==
    \/ \E v \in IntW : SetInt(v)
    \/ \E d \in IntW : AddInt(d)
    \/ SetNull
    \/ \E t \in {Null, Y} : SetLink(t)

AbsSpec == AbsInit /\ [][AbsNext]_absVars

====
