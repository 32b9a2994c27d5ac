------------------------------ MODULE ToString ------------------------------
(***************************************************************************)
(* util::format (util/to_string.cpp): the message formatter behind the     *)
(* exception texts.  The format string is scanned chunk by chunk: strchr   *)
(* finds the next '%', the text before it is written, "%%" writes one '%', *)
(* and "%<digits>" is parsed by strtoul into a 1-based argument number     *)
(* whose Printable is printed unquoted.  A '%' at the end, a '%' followed  *)
(* by anything else, and an argument number out of range are               *)
(* REALM_ASSERTs: the process aborts.                                      *)
(*                                                                         *)
(* One iteration of the while loop is one step; fmt is the format string  *)
(* as a sequence of characters and p is the position the char pointer fmt *)
(* has reached.  An argument's printed text is abstracted to one token     *)
(* naming the argument: Printable::print's conversion of bools, integers   *)
(* and strings is not what the properties tell apart.                      *)
(***************************************************************************)
EXTENDS Naturals, Sequences, SequencesExt

CONSTANTS
    Chars,      \* ordinary characters of a format string
    Digits,     \* the decimal digits the format strings may contain
    L,          \* the longest format string
    MaxValues,  \* the most arguments a call passes
    W           \* width of unsigned long in bits

Percent == "%"
DecimalDigits == <<"0", "1", "2", "3", "4", "5", "6", "7", "8", "9">>

ASSUME /\ Digits \subseteq Range(DecimalDigits)
       /\ Percent \notin Chars \cup Digits
       /\ Chars \cap Digits = {}

Alphabet == Chars \cup Digits \cup {Percent}

\* What ss receives: characters of fmt, and the text Printable::print
\* writes for argument i (0-based).
Text(s) == [k \in DOMAIN s |-> [chr |-> s[k]]]
Arg(i) == [arg |-> i]

DigitOf(c) == SelectInSeq(DecimalDigits, LAMBDA x : x = c) - 1

VARIABLES
    fmt,        \* the format string
    nvals,      \* values.size()
    p,          \* the position fmt points at
    out,        \* what has been written to ss
    st          \* "loop", "done" (returned) or "assert" (aborted)

vars == <<fmt, nvals, p, out, st>>

\* strchr(fmt, '%'): the position of the next '%', 0 for nullptr.
NextPercent == SelectInSubSeq(fmt, p, Len(fmt), LAMBDA c : c = Percent)

\* ss.write(fmt, next - fmt): the text before the '%'.
Before(q) == Text(SubSeq(fmt, p, q - 1))

\* strtoul(fmt + q, &end, 10): the maximal run of digits from q, its end
\* position and its value, saturated at ULONG_MAX.
DigitRunEnd(q) ==
    LET e == SelectInSubSeq(fmt, q, Len(fmt), LAMBDA c : c \notin Digits)
    IN  IF e = 0 THEN Len(fmt) + 1 ELSE e

strtoul(q) ==
    LET n == FoldLeft(LAMBDA acc, c : acc * 10 + DigitOf(c), 0,
                      SubSeq(fmt, q, DigitRunEnd(q) - 1))
    IN  IF n < 2^W THEN n ELSE 2^W - 1

\* A plausible slip: the index computed in a signed type, so "%0" gives -1
\* and passes the bound check.
ArgIndexSigned(q) == strtoul(q) - 1

\* index = strtoul(...) - 1, in unsigned long: "%0" wraps to ULONG_MAX.
ArgIndex(q) == (strtoul(q) + 2^W - 1) % 2^W

(***************************************************************************)
(* One pass of the while loop of format                                    *)
(***************************************************************************)

\* while (*fmt) fails: return ss.str().
Return ==
    /\ st = "loop"
    /\ p > Len(fmt)
    /\ st' = "done"
    /\ UNCHANGED <<fmt, nvals, p, out>>

\* No more '%': ss << fmt; break.
EmitRest ==
    /\ st = "loop"
    /\ p <= Len(fmt)
    /\ NextPercent = 0
    /\ out' = out \o Text(SubSeq(fmt, p, Len(fmt)))
    /\ st' = "done"
    /\ UNCHANGED <<fmt, nvals, p>>

\* A plausible slip: fmt = next, leaving the second '%' to be read again.
EscapeKeepSecond ==
    /\ st = "loop"
    /\ p <= Len(fmt)
    /\ LET q == NextPercent
       IN  /\ q # 0
           /\ q < Len(fmt)
           /\ fmt[q + 1] = Percent
           /\ out' = out \o Before(q) \o Text(<<Percent>>)
           /\ p' = q + 1
    /\ UNCHANGED <<fmt, nvals, st>>

\* "%%": write the text before it and one '%'; fmt = next + 1.
Escape ==
    /\ st = "loop"
    /\ p <= Len(fmt)
    /\ LET q == NextPercent
       IN  /\ q # 0
           /\ q < Len(fmt)
           /\ fmt[q + 1] = Percent
           /\ out' = out \o Before(q) \o Text(<<Percent>>)
           /\ p' = q + 2
    /\ UNCHANGED <<fmt, nvals, st>>

\* "%<digits>" in range: print values[index]; fmt is left past the digits.
Substitute ==
    /\ st = "loop"
    /\ p <= Len(fmt)
    /\ LET q == NextPercent
       IN  /\ q # 0
           /\ q < Len(fmt)
           /\ fmt[q + 1] \in Digits
           /\ ArgIndex(q + 1) < nvals
           /\ out' = out \o Before(q) \o <<Arg(ArgIndex(q + 1))>>
           /\ p' = DigitRunEnd(q + 1)
    /\ UNCHANGED <<fmt, nvals, st>>

\* The three REALM_ASSERTs: '%' ends the string, is followed by neither '%'
\* nor a digit, or names an argument that was not passed.  The text before
\* the '%' has already been written when the process aborts.
AssertFails ==
    /\ st = "loop"
    /\ p <= Len(fmt)
    /\ LET q == NextPercent
       IN  /\ q # 0
           /\ \/ q = Len(fmt)
              \/ q < Len(fmt) /\ fmt[q + 1] \notin Digits \cup {Percent}
              \/ q < Len(fmt) /\ fmt[q + 1] \in Digits /\ ArgIndex(q + 1) >= nvals
           /\ out' = out \o Before(q)
    /\ st' = "assert"
    /\ UNCHANGED <<fmt, nvals, p>>

\* format(fmt, values) is called with any format string and argument list.
Init ==
    /\ fmt \in SeqOf(Alphabet, L)
    /\ nvals \in 0 .. MaxValues
    /\ p = 1
    /\ out = <<>>
    /\ st = "loop"

Next == Return \/ EmitRest \/ Escape \/ Substitute \/ AssertFails

Spec == Init /\ [][Next]_vars

(***************************************************************************)
(* Reference definition: the format language read one token at a time.    *)
(* "%%" is a '%', "%k" with k the longest digit run is argument k, for     *)
(* 1 <= k <= values.size(); any other '%' makes the format string invalid. *)
(***************************************************************************)

Bad == [ok |-> FALSE, text |-> <<>>]
Prefixed(t, r) == IF r.ok THEN [ok |-> TRUE, text |-> t \o r.text] ELSE Bad

RECURSIVE Expand(_, _)
Expand(s, n) ==
    IF s = <<>> THEN [ok |-> TRUE, text |-> <<>>]
    ELSE IF Head(s) # Percent THEN Prefixed(Text(<<Head(s)>>), Expand(Tail(s), n))
    ELSE IF Len(s) = 1 THEN Bad
    ELSE IF s[2] = Percent THEN Prefixed(Text(<<Percent>>), Expand(Tail(Tail(s)), n))
    ELSE IF s[2] \notin Digits THEN Bad
    ELSE LET run == SelectInSeq(Tail(s), LAMBDA c : c \notin Digits)
             len == IF run = 0 THEN Len(s) - 1 ELSE run - 1
             k == FoldLeft(LAMBDA acc, c : acc * 10 + DigitOf(c), 0,
                           SubSeq(s, 2, len + 1))
         IN  IF 1 <= k /\ k <= n
             THEN Prefixed(<<Arg(k - 1)>>, Expand(SubSeq(s, len + 2, Len(s)), n))
             ELSE Bad

(***************************************************************************)
(* Properties                                                              *)
(***************************************************************************)

TypeOK ==
    /\ fmt \in SeqOf(Alphabet, L)
    /\ nvals \in 0 .. MaxValues
    /\ p \in 1 .. L + 1
    /\ out \in Seq([chr : Alphabet] \cup {Arg(i) : i \in 0 .. MaxValues - 1})
    /\ st \in {"loop", "done", "assert"}

\* The chunked scan of format, with strchr, the unsigned index arithmetic
\* of strtoul(...) - 1 and its three assertions, returns exactly the text
\* the token-by-token reading gives, and aborts exactly on the format
\* strings that reading rejects ("%0", "%" at the end, "%x", "%k" with k
\* past the last argument, a digit run glued to a placeholder).
FormatMatchesReference ==
    st # "loop" =>
        LET ref == Expand(fmt, nvals)
        IN  /\ (st = "done") = ref.ok
            /\ st = "done" => out = ref.text

=============================================================================
