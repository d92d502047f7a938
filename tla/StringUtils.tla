----------------------------- MODULE StringUtils ------------------------------
(***************************************************************************)
(* The pure functions of src/utils/stringutils: the fixed-point decimals   *)
(* of decimal_places.go (ParseValue, FormatValue, intPow) and              *)
(* GetStringInBetween of string.go.                                        *)
(*                                                                         *)
(* A string is a sequence of one-letter strings, so that strconv.Atoi,     *)
(* strings.Split, strings.Index and the fmt verbs are computed here, not   *)
(* assumed.  Go's int is `Bits' bits wide: products and sums wrap, and     *)
(* Atoi refuses what does not fit (strconv.ErrRange).  Go's / and %        *)
(* truncate toward zero.  A call returns [kind, v] with kind "ok", "err"   *)
(* (an error value) or "panic" (a run-time panic).                         *)
(***************************************************************************)
EXTENDS Integers, Sequences, SequencesExt

CONSTANT Bits   \* width of Go's int (scaled down from 64)

MinInt == -(2^(Bits - 1))
MaxInt == 2^(Bits - 1) - 1

\* Two's-complement wrap of a mathematical integer to an int.
Wrap(x) == ((x - MinInt) % 2^Bits) + MinInt

AbsInt(x) == IF x < 0 THEN -x ELSE x

\* Go's integer / and %: the quotient is truncated toward zero.
Quo(a, b) ==
    LET q == AbsInt(a) \div AbsInt(b)
    IN  Wrap(IF (a < 0) = (b < 0) THEN q ELSE -q)
Rem(a, b) == Wrap(a - b * Quo(a, b))

Ok(v) == [kind |-> "ok", v |-> v]
Err == [kind |-> "err", v |-> 0]
Panic == [kind |-> "panic", v |-> 0]

DigitChars == <<"0", "1", "2", "3", "4", "5", "6", "7", "8", "9">>
Digits == ToSet(DigitChars)
DigitValue(c) == CHOOSE d \in 0..9 : DigitChars[d + 1] = c
Zeros(k) == [i \in 1..k |-> "0"]

\* The decimal digits of a natural number.
RECURSIVE Decimal(_)
Decimal(n) ==
    IF n < 10 THEN <<DigitChars[n + 1]>>
    ELSE Decimal(n \div 10) \o <<DigitChars[(n % 10) + 1]>>

\* fmt's %d and %v of an int.
Itoa(n) == IF n < 0 THEN <<"-">> \o Decimal(-n) ELSE Decimal(n)

\* fmt's %0*d: zero-padded on the left to width w, after the sign.
ZeroPadded(n, w) ==
    IF n < 0 THEN <<"-">> \o Zeros(w - 1 - Len(Decimal(-n))) \o Decimal(-n)
    ELSE Zeros(w - Len(Decimal(n))) \o Decimal(n)

\* strconv.Atoi: an optional sign and at least one digit, nothing else,
\* and a value that fits an int.
Atoi(s) ==
    LET signed == s # <<>> /\ s[1] \in {"+", "-"}
        ds == IF signed THEN Tail(s) ELSE s
        mag == FoldLeft(LAMBDA acc, c : 10 * acc + DigitValue(c), 0, ds)
        n == IF signed /\ s[1] = "-" THEN -mag ELSE mag
    IN  IF ds # <<>> /\ ToSet(ds) \subseteq Digits /\ n \in MinInt..MaxInt
        THEN Ok(n) ELSE Err

\* intPow: 1 for m = 0, n for m = 1, else n multiplied in m - 1 times
\* (which leaves n for a negative m).
intPow(n, m) ==
    IF m = 0 THEN 1
    ELSE IF m < 2 THEN n
    ELSE Wrap(n^m)

\* Mutant: the cents keep their own sign, whatever value[0] is.
ParseValueUnsignedCents(value, placesToRight) ==
    IF value = <<>> THEN Err
    ELSE
    LET dots == {i \in DOMAIN value : value[i] = "."}
        dot == IF dots = {} THEN Len(value) + 1 ELSE Min(dots)
        parts1 == IF dots = {} THEN Zeros(placesToRight)
                  ELSE SubSeq(value, dot + 1, Len(value))
        intPart == Atoi(SubSeq(value, 1, dot - 1))
        centsStr == IF Len(parts1) >= placesToRight
                    THEN SubSeq(parts1, 1, placesToRight)
                    ELSE parts1 \o Zeros(placesToRight - Len(parts1))
        cents == Atoi(centsStr)
    IN  IF Cardinality(dots) > 1 \/ intPart.kind = "err" THEN Err
        ELSE IF placesToRight < 0 THEN Panic
        ELSE IF centsStr # <<>> /\ cents.kind = "err" THEN Err
        ELSE Ok(Wrap(intPart.v * intPow(10, placesToRight)
                     + (IF centsStr = <<>> THEN 0 ELSE cents.v)))

\* ParseValue: split on "."; more than two parts is an error, a missing
\* second part is placesToRight zeros.  The integer part goes through Atoi;
\* the cents are cut or zero-padded to placesToRight digits (a negative
\* placesToRight makes centsStr[0:placesToRight] panic), go through Atoi
\* and take the sign of value[0].
ParseValue(value, placesToRight) ==
    IF value = <<>> THEN Err
    ELSE
    LET isNegative == value[1] = "-"
        dots == {i \in DOMAIN value : value[i] = "."}
        dot == IF dots = {} THEN Len(value) + 1 ELSE Min(dots)
        parts0 == SubSeq(value, 1, dot - 1)
        parts1 == IF dots = {} THEN Zeros(placesToRight)
                  ELSE SubSeq(value, dot + 1, Len(value))
        intPart == Atoi(parts0)
        centsStr == IF Len(parts1) >= placesToRight
                    THEN SubSeq(parts1, 1, placesToRight)
                    ELSE parts1 \o Zeros(placesToRight - Len(parts1))
        cents == Atoi(centsStr)
        centsPart == IF centsStr = <<>> THEN 0
                     ELSE IF isNegative THEN -cents.v ELSE cents.v
    IN  IF Cardinality(dots) > 1 \/ intPart.kind = "err" THEN Err
        ELSE IF placesToRight < 0 THEN Panic
        ELSE IF centsStr # <<>> /\ cents.kind = "err" THEN Err
        ELSE Ok(Wrap(intPart.v * intPow(10, placesToRight) + centsPart))

\* Mutant: the remainder is not negated under the sign.
FormatValueNoCentsNegation(value, placesToLeft) ==
    IF placesToLeft = 0 THEN Itoa(value)
    ELSE
    LET d == intPow(10, placesToLeft)
        neg == value < 0
        intPart == IF neg THEN Wrap(-Quo(value, d)) ELSE Quo(value, d)
    IN  (IF neg THEN <<"-">> ELSE <<>>)
          \o Itoa(intPart) \o <<".">> \o ZeroPadded(Rem(value, d), placesToLeft)

\* FormatValue: %v for no places; otherwise value / 10^p, ".", and
\* value % 10^p zero-padded to p digits, both negated under a "-" sign
\* when value is negative.
FormatValue(value, placesToLeft) ==
    IF placesToLeft = 0 THEN Itoa(value)
    ELSE
    LET d == intPow(10, placesToLeft)
        neg == value < 0
        intPart == IF neg THEN Wrap(-Quo(value, d)) ELSE Quo(value, d)
        centsPart == IF neg THEN Wrap(-Rem(value, d)) ELSE Rem(value, d)
    IN  (IF neg THEN <<"-">> ELSE <<>>)
          \o Itoa(intPart) \o <<".">> \o ZeroPadded(centsPart, placesToLeft)

\* strings.Index: the 0-based position of the first t in s, or -1.
Index(s, t) ==
    LET at == {i \in 1..(Len(s) - Len(t) + 1) : SubSeq(s, i, i + Len(t) - 1) = t}
    IN  IF at = {} THEN -1 ELSE Min(at) - 1

\* GetStringInBetween: from after the first a up to the first b, or ""
\* when either is missing or the first b is not past the end of a.
GetStringInBetween(value, a, b) ==
    LET posFirst == Index(value, a)
        posLast == Index(value, b)
        posFirstAdjusted == posFirst + Len(a)
    IN  IF posFirst = -1 \/ posLast = -1 \/ posFirstAdjusted >= posLast THEN <<>>
        ELSE SubSeq(value, posFirstAdjusted + 1, posLast)

(***************************************************************************)
(* NormalizeString over a small alphabet: "acute" is the combining acute   *)
(* accent U+0301 (unicode.Mn), "é" the precomposed U+00E9, "\t" a tab.    *)
(***************************************************************************)
Composed == [pair \in {<<"e", "acute">>} |-> "é"]
isMn(r) == r = "acute"

\* norm.NFD: a precomposed letter becomes its base letter and its mark.
NFD(text) ==
    FoldLeft(LAMBDA acc, c : acc \o (IF c = "é" THEN <<"e", "acute">> ELSE <<c>>),
             <<>>, text)

\* norm.NFC: a base letter followed by a mark it composes with becomes the
\* precomposed letter.
NFC(text) ==
    FoldLeft(LAMBDA acc, c :
                 IF acc # <<>> /\ <<Last(acc), c>> \in DOMAIN Composed
                 THEN Append(Front(acc), Composed[<<Last(acc), c>>])
                 ELSE Append(acc, c),
             <<>>, text)

\* The code points of the alphabet.
CodePoint ==
    ("a" :> 97) @@ ("e" :> 101) @@ ("Z" :> 90) @@ ("_" :> 95) @@ ("!" :> 33)
    @@ (" " :> 32) @@ ("/" :> 47) @@ ("\\" :> 92) @@ ("\t" :> 9) @@ ("é" :> 233)
    @@ ("acute" :> 769)

\* The class [^0-9A-za-z \\/ \\s] of the raw string: its complement holds
\* 0-9, A through z (with [ \ ] ^ _ `), space, backslash, / and s.
KeptByRegexp(c) ==
    \/ CodePoint[c] \in 48..57 \cup 65..122
    \/ CodePoint[c] \in {32, 47, 92, 115}

\* Mutant: the accents are not removed between NFD and NFC.
NormalizeStringKeepsMarks(text) ==
    SelectSeq(NFC(NFD(text)), KeptByRegexp)

\* NormalizeString: NFD, remove the marks, NFC, then delete every rune the
\* class does not keep (transform.String does not fail on these runes).
NormalizeString(text) ==
    SelectSeq(NFC(SelectSeq(NFD(text), LAMBDA r : ~isMn(r))), KeptByRegexp)

=============================================================================
