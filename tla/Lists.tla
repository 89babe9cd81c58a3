-------------------------------- MODULE Lists --------------------------------
(***************************************************************************)
(* The two intrusive lists of include/utils/container.h that an            *)
(* application uses from one thread: DoublyList, a ring that head_ is      *)
(* moved around on, and BidirectionalList.  Each is a record of its        *)
(* members and those of all nodes; the operators are the methods.          *)
(* ring and line are auxiliary: what the caller means the lists to hold.   *)
(***************************************************************************)
EXTENDS Naturals, Sequences, FiniteSets

CONSTANTS
    LsNode,     \* nodes
    LsNull,     \* NULL
    LsMaxShift  \* bound: how far head_ is moved by one call

ASSUME LsAssumption == LsNull \notin LsNode /\ LsMaxShift \in Nat

VARIABLES
    lsKind,     \* "ring" or "line": the list this behaviour is about
    dl,         \* the DoublyList: head_, count_, and next, prev of the nodes
    bl,         \* the BidirectionalList: head_, tail_, and next, prev, is_add
    ring, line

lsVars == <<lsKind, dl, bl, ring, line>>

Unlinked == [n \in LsNode |-> LsNull]

\* The constructors; nodes are made with no neighbours and is_add false
LSInit ==
    /\ lsKind \in {"ring", "line"}
    /\ dl = [head |-> LsNull, count |-> 0, next |-> Unlinked, prev |-> Unlinked]
    /\ bl = [head |-> LsNull, tail |-> LsNull, next |-> Unlinked, prev |-> Unlinked,
             is_add |-> [n \in LsNode |-> FALSE]]
    /\ ring = << >> /\ line = << >>

Member(s, n) == \E i \in DOMAIN s : s[i] = n

\* s without n, which is on it once or not at all
LsWithout(s, n) ==
    LET at == CHOOSE i \in DOMAIN s : s[i] = n
    IN  IF Member(s, n) THEN [i \in 1..(Len(s) - 1) |-> s[IF i < at THEN i ELSE i + 1]] ELSE s

-----------------------------------------------------------------------------
(* DoublyList *)

\* Insert: before head_, which is the end of the ring
InsertRing(d, n) ==
    IF d.head = LsNull
    THEN [d EXCEPT !.count = @ + 1, !.head = n, !.prev[n] = n, !.next[n] = n]
    ELSE [d EXCEPT !.count = @ + 1,
                   !.next = [@ EXCEPT ![d.prev[d.head]] = n, ![n] = d.head],
                   !.prev = [@ EXCEPT ![n] = d.prev[d.head], ![d.head] = n]]

\* Remove: a node that is not linked is left alone
RemoveRing(d, n) ==
    IF d.next[n] = LsNull \/ d.prev[n] = LsNull THEN d
    ELSE IF d.next[n] = n
    THEN [d EXCEPT !.count = @ - 1, !.next[n] = LsNull, !.prev[n] = LsNull, !.head = LsNull]
    ELSE [d EXCEPT !.count = @ - 1,
                   !.head = IF @ = n THEN d.next[n] ELSE @,
                   !.next = [@ EXCEPT ![d.prev[n]] = d.next[n], ![n] = LsNull],
                   !.prev = [@ EXCEPT ![d.next[n]] = d.prev[n], ![n] = LsNull]]

\* head_ after k steps along next or prev
Walk(to, from, k) ==
    LET at[i \in 0..k] == IF i = 0 THEN from ELSE to[at[i - 1]] IN at[k]

\* The ring read from k places on
Rotated(s, k) == [i \in DOMAIN s |-> s[((i - 1 + k) % Len(s)) + 1]]

DLInsert(n) ==
    /\ lsKind = "ring" /\ ~Member(ring, n)
    /\ dl' = InsertRing(dl, n) /\ ring' = Append(ring, n)
    /\ UNCHANGED <<lsKind, bl, line>>

DLRemove(n) ==
    /\ lsKind = "ring"
    /\ dl' = RemoveRing(dl, n)
    /\ ring' = IF ring # << >> /\ ring[1] = n THEN Tail(ring) ELSE LsWithout(ring, n)
    /\ UNCHANGED <<lsKind, bl, line>>

NextShift(k) ==
    /\ lsKind = "ring" /\ ring # << >>
    /\ dl' = [dl EXCEPT !.head = Walk(dl.next, @, k)]
    /\ ring' = Rotated(ring, k)
    /\ UNCHANGED <<lsKind, bl, line>>

PrevShift(k) ==
    /\ lsKind = "ring" /\ ring # << >>
    /\ dl' = [dl EXCEPT !.head = Walk(dl.prev, @, k)]
    /\ ring' = Rotated(ring, (Len(ring) - 1) * k)
    /\ UNCHANGED <<lsKind, bl, line>>

\* ~DoublyList: Remove and delete until head_ is NULL
DLDestroy ==
    /\ lsKind = "ring" /\ dl.head # LsNull
    /\ dl' = RemoveRing(dl, dl.head) /\ ring' = Tail(ring)
    /\ UNCHANGED <<lsKind, bl, line>>

-----------------------------------------------------------------------------
(* BidirectionalList *)

AddLine(b, n) ==
    IF b.is_add[n] THEN b
    ELSE IF b.head = LsNull
    THEN [b EXCEPT !.is_add[n] = TRUE, !.head = n, !.tail = n]
    ELSE [b EXCEPT !.is_add[n] = TRUE, !.prev[n] = b.tail, !.next[b.tail] = n, !.tail = n]

\* Mutant: the prev of a node taken from the end is kept
RemoveLineKeepsPrev(b, n) ==
    LET out == [b EXCEPT !.is_add[n] = FALSE] IN
    CASE ~b.is_add[n] -> b
      [] b.is_add[n] /\ b.prev[n] # LsNull /\ b.next[n] # LsNull ->
           [out EXCEPT !.next = [@ EXCEPT ![b.prev[n]] = b.next[n], ![n] = LsNull],
                       !.prev = [@ EXCEPT ![b.next[n]] = b.prev[n], ![n] = LsNull]]
      [] b.is_add[n] /\ b.prev[n] = LsNull /\ b.next[n] = LsNull ->
           [out EXCEPT !.head = LsNull, !.tail = LsNull]
      [] b.is_add[n] /\ b.prev[n] = LsNull /\ b.next[n] # LsNull ->
           [out EXCEPT !.prev[b.next[n]] = LsNull, !.head = b.next[n], !.next[n] = LsNull]
      [] OTHER ->
           [out EXCEPT !.next[b.prev[n]] = LsNull, !.tail = b.prev[n]]

\* Remove: an inner node, the only one, the first, the last
RemoveLine(b, n) ==
    LET out == [b EXCEPT !.is_add[n] = FALSE] IN
    CASE ~b.is_add[n] -> b
      [] b.is_add[n] /\ b.prev[n] # LsNull /\ b.next[n] # LsNull ->
           [out EXCEPT !.next = [@ EXCEPT ![b.prev[n]] = b.next[n], ![n] = LsNull],
                       !.prev = [@ EXCEPT ![b.next[n]] = b.prev[n], ![n] = LsNull]]
      [] b.is_add[n] /\ b.prev[n] = LsNull /\ b.next[n] = LsNull ->
           [out EXCEPT !.head = LsNull, !.tail = LsNull]
      [] b.is_add[n] /\ b.prev[n] = LsNull /\ b.next[n] # LsNull ->
           [out EXCEPT !.prev[b.next[n]] = LsNull, !.head = b.next[n], !.next[n] = LsNull]
      [] OTHER ->
           [out EXCEPT !.next[b.prev[n]] = LsNull, !.tail = b.prev[n], !.prev[n] = LsNull]

BLAdd(n) ==
    /\ lsKind = "line"
    /\ bl' = AddLine(bl, n)
    /\ line' = IF Member(line, n) THEN line ELSE Append(line, n)
    /\ UNCHANGED <<lsKind, dl, ring>>

BLRemove(n) ==
    /\ lsKind = "line"
    /\ bl' = RemoveLine(bl, n) /\ line' = LsWithout(line, n)
    /\ UNCHANGED <<lsKind, dl, ring>>

Readd(n) ==
    /\ lsKind = "line"
    /\ bl' = AddLine(RemoveLine(bl, n), n) /\ line' = Append(LsWithout(line, n), n)
    /\ UNCHANGED <<lsKind, dl, ring>>

LSNext ==
    \/ \E n \in LsNode : DLInsert(n) \/ DLRemove(n) \/ BLAdd(n) \/ BLRemove(n) \/ Readd(n)
    \/ \E k \in 1..LsMaxShift : NextShift(k) \/ PrevShift(k)
    \/ DLDestroy

-----------------------------------------------------------------------------
(* Properties *)

\* However nodes are inserted and removed and head_ is moved, next and prev
\* are the ring in both directions from head_, count_ is its length, and a
\* node that is not on it has no neighbours, so that Remove leaves it alone.
DLRing ==
    LET n == Len(ring) IN
    /\ dl.count = n
    /\ dl.head = IF n = 0 THEN LsNull ELSE ring[1]
    /\ \A i \in 1..n : /\ dl.next[ring[i]] = ring[(i % n) + 1]
                       /\ dl.prev[ring[(i % n) + 1]] = ring[i]
    /\ \A x \in LsNode : ~Member(ring, x) => dl.next[x] = LsNull /\ dl.prev[x] = LsNull

\* The list is a list whatever was added, removed or added again, at its ends
\* or inside: next, prev and the two ends agree with the order of the calls,
\* is_add says who is on it, and who is not has no neighbours.
BLLine ==
    LET n == Len(line) IN
    /\ bl.head = IF n = 0 THEN LsNull ELSE line[1]
    /\ bl.tail = IF n = 0 THEN LsNull ELSE line[n]
    /\ \A i \in 1..n : /\ bl.next[line[i]] = IF i = n THEN LsNull ELSE line[i + 1]
                       /\ bl.prev[line[i]] = IF i = 1 THEN LsNull ELSE line[i - 1]
    /\ \A x \in LsNode : /\ bl.is_add[x] <=> Member(line, x)
                         /\ ~Member(line, x) => bl.next[x] = LsNull /\ bl.prev[x] = LsNull

\* Both intrusive lists of container.h stay what their users walk over.
ListsOK == DLRing /\ BLLine
=============================================================================
