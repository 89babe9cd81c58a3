------------------------------ MODULE HttpText ------------------------------
(***************************************************************************)
(* The text of an HTTP head as WSProtocol, HTTPProtocol and HttpClient     *)
(* look at it: lines ended by CR LF, a blank line at the end, searched for *)
(* with rstrstr() or strstr() and taken apart by the three ParseHeader()s. *)
(*                                                                         *)
(* A head is a sequence of lines; the first is the request or status line. *)
(* A line is [name, value, colon]: colon says whether the text has what    *)
(* the parser looks for, the ":" of a field or the space of a first line.  *)
(* A byte is [m, l, k]: byte k of line l of message m, k = 4 and k = 5     *)
(* being CR and LF, k < 4 text, and k = 0 a byte of the body (number l).   *)
(***************************************************************************)
EXTENDS Integers, Sequences, FiniteSetsExt

TextBytes == 3      \* bound: a line's text, long enough to be cut anywhere
CR == 4
LF == 5
NUL == -1           \* a byte overwritten with 0

LineBytes == TextBytes + 2

\* Its lines one after the other, and the CR LF of the blank line
HeadBytes(m, head) ==
    [j \in 1..(LineBytes * Len(head) + 2) |->
        [m |-> m, l |-> (j - 1) \div LineBytes + 1,
         k |-> ((j - 1) % LineBytes) + (IF j <= LineBytes * Len(head) THEN 1 ELSE CR)]]

BodyBytes(m, n) == [i \in 1..n |-> [m |-> m, l |-> i, k |-> 0]]

\* rstrstr(b, "\r\n\r\n"): where it finds the end of a head, 0 for NULL.  Both
\* pointers run backwards, so after the first '\r' of the needle it reads the
\* byte before the literal; that is the '\0' of the literal laid out before it,
\* which ends the comparison: the match is the last CR with 3 bytes after it.
RStrStr(b) ==
    LET at == {p \in 1..(Len(b) - 3) : b[p].k = CR}
    IN  IF at = {} THEN 0 ELSE Max(at)

\* strstr(b, "\r\n\r") with the last byte of b set to 0: the first match
\* before a zero byte, 0 for NULL
StrStr(b) ==
    LET at == {p \in 1..(Len(b) - 3) :
                 /\ b[p].k = CR /\ b[p + 1].k = LF /\ b[p + 2].k = CR
                 /\ \A q \in 1..p : b[q].k # NUL}
    IN  IF at = {} THEN 0 ELSE Min(at)

\* What is left of b after its first n bytes
After(b, n) == SubSeq(b, n + 1, Len(b))

BlankLine == [name |-> "", value |-> "", colon |-> FALSE]

\* The lines of the text b[1..(p-1)], where b[p] is a CR, each up to the next
\* CR; heads[m] are the lines of message m
LinesBefore(b, p, heads) ==
    LET ends   == {q \in 1..p : b[q].k = CR}
        End(j) == CHOOSE q \in ends : Cardinality({r \in ends : r <= q}) = j
        Line(c) == IF c.l <= Len(heads[c.m]) THEN heads[c.m][c.l] ELSE BlankLine
    IN  [j \in 1..Cardinality(ends) |-> Line(b[End(j)])]

\* ParseHeader: a first line, at least one CRLF in the text, a colon in every
\* line but the last; a response must have one in the last as well
ParseOk(lines, respond) ==
    /\ Len(lines) >= 2
    /\ lines[1].colon
    /\ \A k \in 2..(Len(lines) - 1) : lines[k].colon
    /\ respond => lines[Len(lines)].colon

\* The fields that end up in the hash; a repeated name keeps its last value
Fields(lines) ==
    LET read == {k \in 2..Len(lines) : lines[k].colon}
    IN  [n \in {lines[k].name : k \in read} |->
            lines[Max({k \in read : lines[k].name = n})].value]

\* What a peer sends: a head has a first line, and a response that gives a
\* length gives that of its body
IsSequence(s) == Len(s) \in Nat /\ s = [k \in 1..Len(s) |-> s[k]]

IsHead(head) == IsSequence(head) /\ head # << >>

IsResponse(page) ==
    /\ IsHead(page.head)
    /\ page.body \in Nat
    /\ "Content-Length" \in DOMAIN Fields(page.head) =>
         Fields(page.head)["Content-Length"] = page.body
=============================================================================
