------------------------------- MODULE UrlCode -------------------------------
(***************************************************************************)
(* protocols/urlcode.cpp: encodeURIComponent() and decodeURIComponent(),   *)
(* one after the other on a text, or the second alone.  Each copies into   *)
(* an array of 4096 bytes that is zero at first, a character per           *)
(* iteration, and returns it as a C string.  A character is 7-bit and      *)
(* stands for those the code treats as it does: "blank" is one that is     *)
(* escaped, "-" one that is not although strtol() accepts it before a      *)
(* digit.                                                                  *)
(***************************************************************************)
EXTENDS Integers, Sequences, FiniteSets

CONSTANTS
    UrChars,    \* the characters of a text
    UrMaxLen,   \* bound: characters of a text
    UrCap       \* the length of the array, 4096

ASSUME UrAssumption ==
    /\ UrChars \subseteq {"%", "blank", "-", "0", "2", "z"}
    /\ UrMaxLen \in Nat
    /\ UrCap \in Nat \ {0, 1, 2}

VARIABLES
    urText,     \* the text
    urFirst,    \* the function that is called with it
    urPc,       \* the function that runs, "done", or "unterminated"
    urIn,       \* its argument
    urI,        \* i, counted from 1
    urOut       \* the first j bytes of rs

urVars == <<urText, urFirst, urPc, urIn, urI, urOut>>

URInit ==
    /\ urText \in UNION {[1..n -> UrChars] : n \in 0..UrMaxLen}
    /\ urFirst \in {"encode", "decode"}
    /\ urPc = urFirst /\ urIn = urText /\ urI = 1 /\ urOut = << >>

\* s_en_uri_char: "%" is not in it
Escape(c) == IF c = "blank" THEN <<"%", "2", "0">> ELSE <<c>>

\* strtol(tmp_v, &end, 16) uses both characters: a digit may come after a
\* blank or a sign
UrDigit(c) == c \in {"0", "2"}
TwoRead(x, y) == UrDigit(y) /\ (UrDigit(x) \/ x \in {"blank", "-"})

\* Its value as a char; what is none of the characters here is a pair
ReadAs(x, y) == IF <<x, y>> = <<"2", "0">> THEN "blank"
                ELSE IF y = "0" /\ x # "2" THEN "NUL" ELSE <<x, y>>

\* return rs: up to the first zero byte
AsCString(s) ==
    IF \E k \in DOMAIN s : s[k] = "NUL"
    THEN SubSeq(s, 1, (CHOOSE k \in DOMAIN s : /\ s[k] = "NUL"
                                               /\ \A j \in 1..(k - 1) : s[j] # "NUL") - 1)
    ELSE s

\* The loop is over; an array without a zero byte is no C string
UrReturn(next) ==
    /\ urPc' = IF Len(urOut) < UrCap THEN next ELSE "unterminated"
    /\ urIn' = AsCString(urOut) /\ urI' = 1
    /\ urOut' = IF next = "done" THEN urOut ELSE << >>
    /\ UNCHANGED <<urText, urFirst>>

\* Mutant: the test leaves room for one byte, not for an escape
EncodeBoundOne ==
    /\ urPc = "encode"
    /\ IF urI <= Len(urIn) /\ Len(urOut) < UrCap - 1
       THEN /\ urOut' = urOut \o Escape(urIn[urI]) /\ urI' = urI + 1
            /\ UNCHANGED <<urText, urFirst, urPc, urIn>>
       ELSE UrReturn("decode")

\* encodeURIComponent: an iteration, or the end
UREncode ==
    /\ urPc = "encode"
    /\ IF urI <= Len(urIn) /\ Len(urOut) < UrCap - 2
       THEN /\ urOut' = urOut \o Escape(urIn[urI]) /\ urI' = urI + 1
            /\ UNCHANGED <<urText, urFirst, urPc, urIn>>
       ELSE UrReturn("decode")

\* decodeURIComponent: an iteration, or the end
URDecode ==
    /\ urPc = "decode"
    /\ IF urI <= Len(urIn) /\ Len(urOut) < UrCap
       THEN /\ IF urIn[urI] = "%" /\ Len(urIn) > urI + 1 /\ TwoRead(urIn[urI + 1], urIn[urI + 2])
               THEN urOut' = Append(urOut, ReadAs(urIn[urI + 1], urIn[urI + 2])) /\ urI' = urI + 3
               ELSE urOut' = Append(urOut, urIn[urI]) /\ urI' = urI + 1
            /\ UNCHANGED <<urText, urFirst, urPc, urIn>>
       ELSE UrReturn("done")

URNext == UREncode \/ URDecode

-----------------------------------------------------------------------------
(* Properties *)

\* The length of the encoded text
EncodedLen(s) == Len(s) + 2 * Cardinality({k \in DOMAIN s : s[k] = "blank"})

\* The loop of encodeURIComponent gets to the end of the text, and the text
\* it writes has its terminating zero
Fits == /\ \A n \in 1..Len(urText) : EncodedLen(SubSeq(urText, 1, n - 1)) < UrCap - 2
        /\ EncodedLen(urText) < UrCap

\* Decoding what was encoded gives the text back, for every text whose
\* encoding fits and in which no "%" is followed by two characters strtol()
\* takes for a number: encodeURIComponent() does not escape "%" itself, and
\* decodeURIComponent() reads "%-2" as an escape.
URRoundTrip ==
    urPc = "done" /\ urFirst = "encode" /\ Fits
    /\ (\A k \in 1..(Len(urText) - 2) : urText[k] = "%" /\ urText[k + 1] # "blank" =>
          ~TwoRead(urText[k + 1], urText[k + 2]))
    => urIn = urText

\* Neither function writes outside its array, whatever mix of escapes and
\* plain characters brings it to the end; encodeURIComponent() leaves it
\* without a terminating zero only by an escape that ends at the last byte,
\* and decodeURIComponent() only for a text at least as long as the array.
URBounds ==
    /\ Len(urOut) <= UrCap
    /\ urPc = "unterminated" =>
         IF urFirst = "decode" THEN Len(urText) >= UrCap
         ELSE \E k \in DOMAIN urText :
                urText[k] = "blank" /\ EncodedLen(SubSeq(urText, 1, k)) = UrCap

\* encodeURIComponent() and decodeURIComponent() are inverse where their
\* arrays allow it, and stay inside them where they do not.
URCorrect == URRoundTrip /\ URBounds
=============================================================================
