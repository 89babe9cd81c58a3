--------------------------- MODULE Managers_proofs ---------------------------
(***************************************************************************)
(* Proofs about TimeoutManager, for every number of connections, every     *)
(* timeout and every clock, as long as callbacks leave the event alone     *)
(* that the loop goes on with (Tame), and about PoolManager, for every     *)
(* number of workers, and however often SIGINT arrives, processes die and  *)
(* forks fail.                                                             *)
(***************************************************************************)
EXTENDS TimeoutManager, PoolManager, SequenceTheorems, TLAPS

-----------------------------------------------------------------------------
(* TimeoutManager.                                                         *)

\* The members of the manager and its events.
ListRec == [head : EventOrNull, tail : EventOrNull, count : Nat,
            prev : [Event -> EventOrNull], next : [Event -> EventOrNull],
            is_add : [Event -> BOOLEAN]]

On(s, e) == \E i \in 1..Len(s) : s[i] = e
Once(s) == \A i, j \in 1..Len(s) : s[i] = s[j] => i = j

\* The pointers of l spell s, but for the prev_ of the head.
Spells(l, s) ==
  /\ l.head = IF s = <<>> THEN Null ELSE s[1]
  /\ s # <<>> => l.tail = s[Len(s)]
  /\ \A i \in 1..Len(s) :
       /\ l.next[s[i]] = IF i < Len(s) THEN s[i + 1] ELSE Null
       /\ i > 1 => l.prev[s[i]] = s[i - 1]
  /\ \A e \in Event : l.is_add[e] <=> On(s, e)
  /\ l.count = Len(s)

\* An event that is not attached has no neighbours.
Alone(l) == \A e \in Event : ~l.is_add[e] => l.prev[e] = Null /\ l.next[e] = Null

\* The head has none before it.
FirstOf(l, s) == s # <<>> => l.prev[s[1]] = Null

\* Where the scan or the destructor is tells what tmp and saved are, and
\* whether the prev_ of the head can be trusted.  An event that is attached
\* again while it times out is at the end, or alone.
Places ==
  /\ pc \in {"timeout", "freeing"} => tmp \in Event /\ life[tmp] = "live"
  /\ pc \notin {"timeout", "freeing"} => tmp = Null
  /\ pc = "freeing" => saved = m.head /\ ~m.is_add[tmp]
  /\ pc # "freeing" => saved = Null
  /\ pc \in {"idle", "closing", "freeing"} => FirstOf(m, list)
  /\ pc = "timeout" /\ list # <<>> /\ list[1] = tmp => FirstOf(m, list)

\* Only live events are attached.
Alive == \A e \in Event : m.is_add[e] => life[e] = "live"

\* The events are on s in the order of h, but for those in L.
Sorted(h, s, L) == \A i, j \in 1..Len(s) : i < j /\ s[j] \notin L => h[s[i]] <= h[s[j]]

\* An event is heard of later than all before it on the list, unless it was
\* attached late.
InTurn == (\A e \in Event : heart[e] <= clock) /\ Sorted(heart, list, late)

\* The pointers and the list.
Chain == Spells(m, list) /\ Once(list) /\ Alone(m)

\* The inductive invariant.
ListInv == TypeOK /\ Chain /\ Places /\ Alive /\ InTurn

USE TimeoutAssumption

------------------------------------------------------------------------------
(* What the operations do to the members.                                  *)

\* A removal joins the neighbours of the event, which are not the event.
LEMMA RemoveEffect ==
  ASSUME NEW l \in ListRec, NEW e \in Event, l.is_add[e], l.prev[e] # e, l.next[e] # e, l.count > 0
  PROVE  LET r == RemoveFrom(l, e) IN
         /\ r \in ListRec
         /\ r.count = l.count - 1
         /\ r.head = IF l.prev[e] = Null THEN l.next[e] ELSE l.head
         /\ r.tail = IF l.next[e] = Null THEN l.prev[e] ELSE l.tail
         /\ \A x \in Event : /\ r.is_add[x] = (x # e /\ l.is_add[x])
                             /\ r.next[x] = IF x = e THEN Null
                                            ELSE IF x = l.prev[e] THEN l.next[e] ELSE l.next[x]
                             /\ r.prev[x] = IF x = e THEN Null
                                            ELSE IF x = l.next[e] THEN l.prev[e] ELSE l.prev[x]
<1> DEFINE p == l.prev[e]
           n == l.next[e]
<1>1. p \in EventOrNull /\ n \in EventOrNull /\ l.count \in Nat /\ l.count - 1 \in Nat
  BY DEF ListRec
<1>2. CASE p # Null /\ n # Null
  BY <1>1, <1>2 DEF RemoveFrom, ListRec, EventOrNull
<1>3. CASE p = Null /\ n = Null
  BY <1>1, <1>3 DEF RemoveFrom, ListRec, EventOrNull
<1>4. CASE p = Null /\ n # Null
  BY <1>1, <1>4 DEF RemoveFrom, ListRec, EventOrNull
<1>5. CASE p # Null /\ n = Null
  BY <1>1, <1>5 DEF RemoveFrom, ListRec, EventOrNull
<1> QED
  BY <1>2, <1>3, <1>4, <1>5

\* An event that is not attached goes behind the tail, if there is one.
LEMMA AddEffect ==
  ASSUME NEW l \in ListRec, NEW e \in Event, ~l.is_add[e], l.head # Null => l.tail \in Event
  PROVE  LET r == AddTo(l, e) IN
         /\ r \in ListRec
         /\ r.count = l.count + 1
         /\ r.head = IF l.head = Null THEN e ELSE l.head
         /\ r.tail = e
         /\ \A x \in Event : /\ r.is_add[x] = (x = e \/ l.is_add[x])
                             /\ r.next[x] = IF l.head # Null /\ x = l.tail THEN e ELSE l.next[x]
                             /\ r.prev[x] = IF l.head # Null /\ x = e THEN l.tail ELSE l.prev[x]
<1>1. l.count + 1 \in Nat
  BY DEF ListRec
<1>2. CASE l.head = Null
  BY <1>1, <1>2 DEF AddTo, ListRec, EventOrNull
<1>3. CASE l.head # Null
  BY <1>1, <1>3 DEF AddTo, ListRec, EventOrNull
<1> QED
  BY <1>2, <1>3

\* The list without the event at k.
LEMMA DropEffect ==
  ASSUME NEW s \in Seq(Event), Once(s), NEW k \in 1..Len(s)
  PROVE  LET t == Drop(s, s[k]) IN
         /\ t \in Seq(Event) /\ Len(t) = Len(s) - 1
         /\ \A j \in 1..Len(t) : t[j] = IF j < k THEN s[j] ELSE s[j + 1]
<1>1. Len(s) \in Nat /\ \A i \in 1..Len(s) : s[i] \in Event
  OBVIOUS
<1>2. k = CHOOSE i \in 1..Len(s) : s[i] = s[k]
  BY DEF Once
<1>3. Drop(s, s[k]) = [j \in 1..(Len(s) - 1) |-> IF j < k THEN s[j] ELSE s[j + 1]]
  BY <1>2 DEF Drop
<1>4. \A j \in 1..(Len(s) - 1) : (IF j < k THEN s[j] ELSE s[j + 1]) \in Event
  BY <1>1
<1> QED
  BY <1>1, <1>3, <1>4


------------------------------------------------------------------------------
(* What they do to the list.                                               *)

\* The neighbours of the k-th event.
LEMMA Neighbours ==
  ASSUME NEW l \in ListRec, NEW s \in Seq(Event), Spells(l, s), Once(s), NEW k \in 1..Len(s),
         k = 1 => l.prev[s[k]] = Null
  PROVE  /\ Len(s) \in Nat /\ s # <<>> /\ \A i \in 1..Len(s) : s[i] \in Event /\ s[i] # Null
         /\ l.is_add[s[k]] /\ l.count > 0
         /\ l.prev[s[k]] = IF k = 1 THEN Null ELSE s[k - 1]
         /\ l.next[s[k]] = IF k < Len(s) THEN s[k + 1] ELSE Null
         /\ l.prev[s[k]] # s[k] /\ l.next[s[k]] # s[k]
<1>1. Len(s) \in Nat /\ s # <<>> /\ \A i \in 1..Len(s) : s[i] \in Event /\ s[i] # Null
  OBVIOUS
<1>2. l.is_add[s[k]] /\ l.count > 0
  BY <1>1 DEF Spells, On
<1>3. l.prev[s[k]] = IF k = 1 THEN Null ELSE s[k - 1]
  BY <1>1 DEF Spells
<1>4. l.next[s[k]] = IF k < Len(s) THEN s[k + 1] ELSE Null
  BY <1>1 DEF Spells
<1>5. l.prev[s[k]] # s[k]
  <2>1. CASE k = 1
    BY <1>1, <1>3, <2>1
  <2>2. CASE k # 1
    <3>1. k - 1 \in 1..Len(s) /\ k - 1 # k
      BY <1>1, <2>2
    <3> QED
      BY <1>3, <2>2, <3>1 DEF Once
  <2> QED
    BY <2>1, <2>2
<1>6. l.next[s[k]] # s[k]
  <2>1. CASE k < Len(s)
    <3>1. k + 1 \in 1..Len(s) /\ k + 1 # k
      BY <1>1, <2>1
    <3> QED
      BY <1>4, <2>1, <3>1 DEF Once
  <2>2. CASE ~(k < Len(s))
    BY <1>1, <1>4, <2>2
  <2> QED
    BY <2>1, <2>2
<1> QED
  BY <1>1, <1>2, <1>3, <1>4, <1>5, <1>6

\* The k-th event of the list is removed.
LEMMA RemoveAt ==
  ASSUME NEW l \in ListRec, NEW s \in Seq(Event), Spells(l, s), Once(s), Alone(l), NEW k \in 1..Len(s),
         k = 1 => l.prev[s[k]] = Null
  PROVE  LET r == RemoveFrom(l, s[k])
             t == Drop(s, s[k])
         IN  /\ r \in ListRec /\ t \in Seq(Event) /\ Spells(r, t) /\ Once(t) /\ Alone(r)
             /\ ~r.is_add[s[k]] /\ \A x \in Event : x # s[k] => r.is_add[x] = l.is_add[x]
             /\ k > 1 => t # <<>> /\ t[1] = s[1] /\ r.prev[s[1]] = l.prev[s[1]]
             /\ k = 1 => FirstOf(r, t)
<1> DEFINE e == s[k]
           r == RemoveFrom(l, e)
           t == Drop(s, e)
           n == Len(s)
<1>1. /\ n \in Nat /\ s # <<>> /\ \A i \in 1..n : s[i] \in Event /\ s[i] # Null
      /\ l.is_add[e] /\ l.count > 0
      /\ l.prev[e] = IF k = 1 THEN Null ELSE s[k - 1]
      /\ l.next[e] = IF k < n THEN s[k + 1] ELSE Null
      /\ l.prev[e] # e /\ l.next[e] # e
  BY Neighbours
<1>2. e \in Event
  BY <1>1
<1>3. /\ r \in ListRec
      /\ r.count = l.count - 1
      /\ r.head = IF l.prev[e] = Null THEN l.next[e] ELSE l.head
      /\ r.tail = IF l.next[e] = Null THEN l.prev[e] ELSE l.tail
      /\ \A x \in Event : /\ r.is_add[x] = (x # e /\ l.is_add[x])
                          /\ r.next[x] = IF x = e THEN Null
                                         ELSE IF x = l.prev[e] THEN l.next[e] ELSE l.next[x]
                          /\ r.prev[x] = IF x = e THEN Null
                                         ELSE IF x = l.next[e] THEN l.prev[e] ELSE l.prev[x]
  <2> HIDE DEF e
  <2> QED
    BY <1>1, <1>2, RemoveEffect
<1>4. /\ t \in Seq(Event) /\ Len(t) = n - 1
      /\ \A j \in 1..(n - 1) : t[j] = IF j < k THEN s[j] ELSE s[j + 1]
  BY DropEffect
<1>5. \A i, j \in 1..n : s[i] = s[j] => i = j
  BY DEF Once
<1>6. /\ l.head = s[1] /\ l.tail = s[n] /\ l.count = n
      /\ \A i \in 1..n : /\ l.next[s[i]] = IF i < n THEN s[i + 1] ELSE Null
                         /\ i > 1 => l.prev[s[i]] = s[i - 1]
      /\ \A x \in Event : l.is_add[x] <=> \E i \in 1..n : s[i] = x
  BY <1>1 DEF Spells, On
<1>7. k \in 1..n /\ e = s[k]
  OBVIOUS
<1> HIDE DEF e, r, t, n
<1>8. t = <<>> <=> n = 1
  BY <1>1, <1>4, <1>7, EmptySeq
<1>9. Once(t)
  <2>1. \A i, j \in 1..(n - 1) : t[i] = t[j] => i = j
    <3>1. SUFFICES ASSUME NEW i \in 1..(n - 1), NEW j \in 1..(n - 1), t[i] = t[j] PROVE i = j
      OBVIOUS
    <3>2. PICK a \in 1..n : t[i] = s[a] /\ a = IF i < k THEN i ELSE i + 1
      BY <1>1, <1>4, <1>7
    <3>3. PICK b \in 1..n : t[j] = s[b] /\ b = IF j < k THEN j ELSE j + 1
      BY <1>1, <1>4, <1>7
    <3>4. a = b
      BY <1>5, <3>1, <3>2, <3>3
    <3> QED
      BY <1>1, <1>7, <3>2, <3>3, <3>4
  <2> QED
    BY <1>4, <2>1 DEF Once
<1>10. \A x \in Event : r.is_add[x] <=> On(t, x)
  <2>1. ASSUME NEW x \in Event, r.is_add[x] PROVE On(t, x)
    <3>0. x # e /\ l.is_add[x]
      BY <1>3, <2>1
    <3>1. PICK i \in 1..n : s[i] = x /\ i # k
      BY <1>6, <1>7, <3>0
    <3>2. CASE i < k
      BY <1>1, <1>4, <1>7, <3>1, <3>2 DEF On
    <3>3. CASE i > k
      <4>1. i - 1 \in 1..(n - 1) /\ ~(i - 1 < k) /\ i - 1 + 1 = i
        BY <1>1, <1>7, <3>3
      <4> QED
        BY <1>4, <3>1, <4>1 DEF On
    <3> QED
      BY <1>1, <1>7, <3>1, <3>2, <3>3
  <2>2. ASSUME NEW x \in Event, On(t, x) PROVE r.is_add[x]
    <3>1. PICK j \in 1..(n - 1) : t[j] = x
      BY <1>4, <2>2 DEF On
    <3>2. PICK i \in 1..n : s[i] = x /\ i # k
      <4>1. CASE j < k
        <5>1. j \in 1..n /\ j # k /\ t[j] = s[j]
          BY <1>1, <1>4, <1>7, <4>1
        <5> QED
          BY <3>1, <5>1
      <4>2. CASE ~(j < k)
        <5>1. j + 1 \in 1..n /\ j + 1 # k /\ t[j] = s[j + 1]
          BY <1>1, <1>4, <1>7, <4>2
        <5> QED
          BY <3>1, <5>1
      <4> QED
        BY <4>1, <4>2
    <3>3. x # e
      BY <1>5, <1>7, <3>2
    <3> QED
      BY <1>3, <1>6, <3>2, <3>3
  <2> QED
    BY <2>1, <2>2
<1>11. r.head = IF t = <<>> THEN Null ELSE t[1]
  <2>1. CASE k = 1
    BY <1>1, <1>3, <1>4, <1>8, <2>1
  <2>2. CASE k # 1
    <3>1. k - 1 \in 1..n /\ 1 \in 1..(n - 1) /\ 1 < k /\ n # 1
      BY <1>1, <1>7, <2>2
    <3> QED
      BY <1>1, <1>3, <1>4, <1>6, <1>8, <2>2, <3>1
  <2> QED
    BY <2>1, <2>2
<1>12. t # <<>> => r.tail = t[n - 1]
  <2>1. CASE k = n
    BY <1>1, <1>3, <1>4, <1>8, <2>1
  <2>2. CASE k # n
    <3>1. k + 1 \in 1..n /\ n - 1 \in 1..(n - 1) /\ ~(n - 1 < k) /\ k < n /\ n - 1 + 1 = n
      BY <1>1, <1>7, <2>2
    <3> QED
      BY <1>1, <1>3, <1>4, <1>6, <3>1
  <2> QED
    BY <2>1, <2>2
<1>13. ASSUME NEW j \in 1..(n - 1)
       PROVE  /\ r.next[t[j]] = IF j < n - 1 THEN t[j + 1] ELSE Null
              /\ j > 1 => r.prev[t[j]] = t[j - 1]
  <2>1. PICK a \in 1..n : t[j] = s[a] /\ a = IF j < k THEN j ELSE j + 1
    BY <1>1, <1>4, <1>7
  <2>2. a # k /\ s[a] # e /\ s[a] \in Event
    BY <1>1, <1>5, <1>7, <2>1
  <2>3. r.next[s[a]] = IF j < n - 1 THEN t[j + 1] ELSE Null
    <3>1. CASE a = k - 1
      <4>1. k # 1 /\ l.prev[e] = s[a] /\ j = k - 1
        BY <1>1, <1>7, <2>1, <3>1
      <4>2. r.next[s[a]] = l.next[e]
        BY <1>3, <2>2, <4>1
      <4>3. CASE k < n
        <5>1. j < n - 1 /\ j + 1 \in 1..(n - 1) /\ ~(j + 1 < k) /\ j + 1 + 1 = k + 1
          BY <1>1, <1>7, <4>1, <4>3
        <5> QED
          BY <1>1, <1>4, <4>2, <4>3, <5>1
      <4>4. CASE ~(k < n)
        BY <1>1, <1>7, <4>1, <4>2, <4>4
      <4> QED
        BY <4>3, <4>4
    <3>2. CASE a # k - 1
      <4>1. s[a] # l.prev[e]
        <5>1. CASE k = 1
          BY <1>1, <5>1
        <5>2. CASE k # 1
          <6>1. k - 1 \in 1..n
            BY <1>1, <1>7, <5>2
          <6> QED
            BY <1>1, <1>5, <3>2, <5>2, <6>1
        <5> QED
          BY <5>1, <5>2
      <4>2. r.next[s[a]] = IF a < n THEN s[a + 1] ELSE Null
        <5>1. r.next[s[a]] = l.next[s[a]]
          BY <1>3, <2>2, <4>1
        <5>2. l.next[s[a]] = IF a < n THEN s[a + 1] ELSE Null
          BY <1>6
        <5> QED
          BY <5>1, <5>2
      <4>3. CASE j < k
        <5>1. a = j /\ a < n /\ j + 1 < k /\ j < n - 1 /\ j + 1 \in 1..(n - 1)
          BY <1>1, <1>7, <2>1, <2>2, <3>2, <4>3
        <5> QED
          BY <1>4, <4>2, <5>1
      <4>4. CASE ~(j < k)
        <5>1. a = j + 1 /\ (a < n <=> j < n - 1)
          BY <1>1, <1>7, <2>1, <4>4
        <5>2. j < n - 1 => t[j + 1] = s[a + 1]
          BY <1>1, <1>4, <1>7, <4>4, <5>1
        <5> QED
          BY <4>2, <5>1, <5>2
      <4> QED
        BY <4>3, <4>4
    <3> QED
      BY <3>1, <3>2
  <2>4. ASSUME j > 1 PROVE r.prev[s[a]] = t[j - 1]
    <3>1. CASE a = k + 1
      <4>1. k < n /\ l.next[e] = s[a] /\ j = k /\ k # 1 /\ j - 1 \in 1..(n - 1) /\ j - 1 < k
        BY <1>1, <1>7, <2>1, <2>4, <3>1
      <4>2. r.prev[s[a]] = l.prev[e]
        BY <1>3, <2>2, <4>1
      <4> QED
        BY <1>1, <1>4, <4>1, <4>2
    <3>2. CASE a # k + 1
      <4>1. s[a] # l.next[e]
        <5>1. CASE k < n
          <6>1. k + 1 \in 1..n
            BY <1>1, <1>7, <5>1
          <6> QED
            BY <1>1, <1>5, <3>2, <5>1, <6>1
        <5>2. CASE ~(k < n)
          BY <1>1, <5>2
        <5> QED
          BY <5>1, <5>2
      <4>2. a > 1 /\ r.prev[s[a]] = s[a - 1]
        <5>1. a > 1
          BY <1>1, <1>7, <2>1, <2>4
        <5>2. r.prev[s[a]] = l.prev[s[a]]
          BY <1>3, <2>2, <4>1
        <5> QED
          BY <1>6, <5>1, <5>2
      <4>3. CASE j < k
        <5>1. a = j /\ j - 1 \in 1..(n - 1) /\ j - 1 < k
          BY <1>1, <1>7, <2>1, <2>4, <4>3
        <5> QED
          BY <1>4, <4>2, <5>1
      <4>4. CASE ~(j < k)
        <5>1. a = j + 1 /\ j - 1 \in 1..(n - 1) /\ ~(j - 1 < k) /\ j - 1 + 1 = a - 1
          BY <1>1, <1>7, <2>1, <2>4, <3>2, <4>4
        <5> QED
          BY <1>4, <4>2, <5>1
      <4> QED
        BY <4>3, <4>4
    <3> QED
      BY <3>1, <3>2
  <2> QED
    BY <2>1, <2>3, <2>4
<1>14. Spells(r, t)
  <2>1. r.count = Len(t)
    BY <1>1, <1>3, <1>4, <1>6
  <2> QED
    BY <1>4, <1>10, <1>11, <1>12, <1>13, <2>1 DEF Spells
<1>15. Alone(r)
  <2>1. ASSUME NEW x \in Event, ~r.is_add[x], x # e PROVE r.prev[x] = Null /\ r.next[x] = Null
    <3>1. ~l.is_add[x] /\ l.prev[x] = Null /\ l.next[x] = Null
      BY <1>3, <2>1 DEF Alone
    <3>2. x # l.prev[e] /\ x # l.next[e]
      BY <1>1, <1>6, <1>7, <2>1, <3>1
    <3> QED
      BY <1>3, <2>1, <3>1, <3>2
  <2> QED
    BY <1>2, <1>3, <2>1 DEF Alone
<1>16. k > 1 => t # <<>> /\ t[1] = s[1] /\ r.prev[s[1]] = l.prev[s[1]]
  <2>1. SUFFICES ASSUME k > 1 PROVE t # <<>> /\ t[1] = s[1] /\ r.prev[s[1]] = l.prev[s[1]]
    OBVIOUS
  <2>2. n # 1 /\ 1 \in 1..n /\ 1 \in 1..(n - 1) /\ 1 # k /\ k + 1 # 1
    BY <1>1, <1>7, <2>1
  <2>3. s[1] # e /\ s[1] # l.next[e]
    <3>1. s[1] # e
      BY <1>5, <1>7, <2>2
    <3>2. CASE k < n
      <4>1. k + 1 \in 1..n
        BY <1>1, <1>7, <3>2
      <4> QED
        BY <1>1, <1>5, <2>2, <3>1, <3>2, <4>1
    <3>3. CASE ~(k < n)
      BY <1>1, <2>2, <3>1, <3>3
    <3> QED
      BY <3>2, <3>3
  <2> QED
    BY <1>1, <1>3, <1>4, <1>8, <2>1, <2>2, <2>3
<1>17. k = 1 => FirstOf(r, t)
  <2>1. SUFFICES ASSUME k = 1, t # <<>> PROVE r.prev[t[1]] = Null
    BY DEF FirstOf
  <2>2. n > 1 /\ 1 \in 1..(n - 1) /\ t[1] = s[2] /\ 2 \in 1..n /\ k + 1 = 2
    BY <1>1, <1>4, <1>7, <1>8, <2>1
  <2>3. s[2] # e
    BY <1>5, <1>7, <2>1, <2>2
  <2> QED
    BY <1>1, <1>3, <2>1, <2>2, <2>3
<1>18. ~r.is_add[e] /\ \A x \in Event : x # e => r.is_add[x] = l.is_add[x]
  <2>1. \A x \in Event : r.is_add[x] = (x # e /\ l.is_add[x])
    BY <1>3
  <2>2. \A x \in Event : l.is_add[x] \in BOOLEAN
    BY DEF ListRec
  <2> QED
    BY <1>2, <2>1, <2>2
<1>19. /\ r \in ListRec /\ t \in Seq(Event) /\ Spells(r, t) /\ Once(t) /\ Alone(r)
       /\ k > 1 => t # <<>> /\ t[1] = s[1] /\ r.prev[s[1]] = l.prev[s[1]]
       /\ k = 1 => FirstOf(r, t)
  BY <1>3, <1>4, <1>9, <1>14, <1>15, <1>16, <1>17
<1> QED
  BY <1>18, <1>19 DEF e, r, t


\* What is true after e was removed, attached or not: the rest of the list is
\* as it was, and a new head has none before it.
Removed(l, s, e, r, t) ==
  /\ r \in ListRec /\ t \in Seq(Event) /\ Spells(r, t) /\ Once(t) /\ Alone(r)
  /\ ~r.is_add[e] /\ \A x \in Event : x # e => r.is_add[x] = l.is_add[x]
  /\ s # <<>> /\ s[1] # e => t # <<>> /\ t[1] = s[1] /\ r.prev[s[1]] = l.prev[s[1]]
  /\ s = <<>> \/ s[1] = e => FirstOf(r, t)
  /\ s = <<>> => t = <<>>

\* RemoveTimeoutEvent, where the prev_ of the head is NULL if it is the head.
LEMMA Removal ==
  ASSUME NEW l \in ListRec, NEW s \in Seq(Event), Spells(l, s), Once(s), Alone(l), NEW e \in Event,
         s # <<>> /\ s[1] = e => FirstOf(l, s)
  PROVE  Removed(l, s, e, RemoveFrom(l, e), Drop(s, e))
<1>1. Len(s) \in Nat /\ (s # <<>> => 1 \in 1..Len(s)) /\ l.is_add[e] \in BOOLEAN
  BY DEF ListRec
<1>2. CASE l.is_add[e]
  <2>1. PICK k \in 1..Len(s) : s[k] = e
    BY <1>2 DEF Spells, On
  <2>2. s # <<>> /\ (s[1] = e <=> k = 1)
    BY <1>1, <2>1 DEF Once
  <2>3. k = 1 => l.prev[s[k]] = Null
    BY <2>1, <2>2 DEF FirstOf
  <2>4. LET r == RemoveFrom(l, s[k])
            t == Drop(s, s[k])
        IN  /\ r \in ListRec /\ t \in Seq(Event) /\ Spells(r, t) /\ Once(t) /\ Alone(r)
            /\ ~r.is_add[s[k]] /\ \A x \in Event : x # s[k] => r.is_add[x] = l.is_add[x]
            /\ k > 1 => t # <<>> /\ t[1] = s[1] /\ r.prev[s[1]] = l.prev[s[1]]
            /\ k = 1 => FirstOf(r, t)
    BY <2>3, RemoveAt
  <2>5. k = 1 \/ k > 1
    BY <1>1
  <2> QED
    BY <2>1, <2>2, <2>4, <2>5 DEF Removed
<1>3. CASE ~l.is_add[e]
  <2>1. RemoveFrom(l, e) = l
    BY <1>3 DEF RemoveFrom
  <2>2. ~On(s, e)
    BY <1>3 DEF Spells
  <2>3. Drop(s, e) = s /\ (s # <<>> => s[1] # e)
    BY <1>1, <2>2 DEF Drop, On
  <2> QED
    BY <1>3, <2>1, <2>3 DEF Removed, FirstOf
<1> QED
  BY <1>1, <1>2, <1>3

\* What is true after e was added: it is the last, and no other has moved.
Added(l, s, e, r, t) ==
  /\ r \in ListRec /\ t \in Seq(Event) /\ t # <<>> /\ Spells(r, t) /\ Once(t) /\ Alone(r)
  /\ r.is_add[e] /\ \A x \in Event : x # e => r.is_add[x] = l.is_add[x]
  /\ s # <<>> => t[1] = s[1] /\ r.prev[s[1]] = l.prev[s[1]]
  /\ s = <<>> => t[1] = e /\ FirstOf(r, t)

\* AddTimeoutEvent of an event that is not attached.
LEMMA Addition ==
  ASSUME NEW l \in ListRec, NEW s \in Seq(Event), Spells(l, s), Once(s), Alone(l), NEW e \in Event,
         ~l.is_add[e]
  PROVE  Added(l, s, e, AddTo(l, e), Append(s, e))
<1> DEFINE r == AddTo(l, e)
           t == Append(s, e)
           n == Len(s)
<1>1. /\ n \in Nat /\ \A i \in 1..n : s[i] \in Event /\ s[i] # Null /\ s[i] # e
      /\ s = <<>> <=> n = 0
  BY EmptySeq DEF Spells, On
<1>2. /\ t \in Seq(Event) /\ t # <<>> /\ Len(t) = n + 1 /\ t[n + 1] = e
      /\ \A i \in 1..n : t[i] = s[i]
  BY AppendProperties
<1>3. /\ (n # 0 => l.head = s[1] /\ l.tail = s[n]) /\ (n = 0 => l.head = Null) /\ l.count = n
      /\ \A i \in 1..n : /\ l.next[s[i]] = IF i < n THEN s[i + 1] ELSE Null
                         /\ i > 1 => l.prev[s[i]] = s[i - 1]
      /\ \A x \in Event : l.is_add[x] <=> \E i \in 1..n : s[i] = x
  BY <1>1 DEF Spells, On
<1>4. l.prev[e] = Null /\ l.next[e] = Null
  BY DEF Alone
<1>5. /\ n # 0 => l.head # Null /\ l.tail \in Event /\ 1 \in 1..n /\ n \in 1..n
      /\ n = 0 => l.head = Null
  BY <1>1, <1>3
<1>6. /\ r \in ListRec
      /\ r.count = l.count + 1
      /\ r.head = IF l.head = Null THEN e ELSE l.head
      /\ r.tail = e
      /\ \A x \in Event : /\ r.is_add[x] = (x = e \/ l.is_add[x])
                          /\ r.next[x] = IF l.head # Null /\ x = l.tail THEN e ELSE l.next[x]
                          /\ r.prev[x] = IF l.head # Null /\ x = e THEN l.tail ELSE l.prev[x]
  BY <1>5, AddEffect
<1>7. \A i, j \in 1..n : s[i] = s[j] => i = j
  BY DEF Once
<1>8. /\ e \in Event /\ e # Null /\ \A x \in Event : l.is_add[x] \in BOOLEAN
      /\ ~l.is_add[e]
  BY DEF ListRec
<1> HIDE DEF r, t, n
<1>9. Once(t)
  <2>1. ASSUME NEW i \in 1..(n + 1), NEW j \in 1..(n + 1), t[i] = t[j] PROVE i = j
    <3>1. CASE i \in 1..n /\ j \in 1..n
      BY <1>2, <1>7, <2>1, <3>1
    <3>2. CASE i = n + 1 \/ j = n + 1
      BY <1>1, <1>2, <2>1, <3>2
    <3> QED
      BY <1>1, <3>1, <3>2
  <2> QED
    BY <1>2, <2>1 DEF Once
<1>10. \A x \in Event : r.is_add[x] <=> On(t, x)
  <2>1. ASSUME NEW x \in Event PROVE (x = e \/ \E i \in 1..n : s[i] = x) <=> On(t, x)
    <3>1. (x = e \/ \E i \in 1..n : s[i] = x) => On(t, x)
      BY <1>1, <1>2 DEF On
    <3>2. On(t, x) => (x = e \/ \E i \in 1..n : s[i] = x)
      BY <1>1, <1>2 DEF On
    <3> QED
      BY <3>1, <3>2
  <2> QED
    BY <1>3, <1>6, <1>8, <2>1
<1>11. ASSUME NEW i \in 1..(n + 1)
       PROVE  /\ r.next[t[i]] = IF i < n + 1 THEN t[i + 1] ELSE Null
              /\ i > 1 => r.prev[t[i]] = t[i - 1]
  <2>1. CASE i = n + 1
    <3>1. r.next[e] = Null
      BY <1>1, <1>3, <1>4, <1>5, <1>6, <1>8
    <3>2. i > 1 => r.prev[e] = t[i - 1]
      BY <1>1, <1>2, <1>3, <1>5, <1>6, <1>8, <2>1
    <3> QED
      BY <1>1, <1>2, <2>1, <3>1, <3>2
  <2>2. CASE i \in 1..n
    <3>1. t[i] = s[i] /\ s[i] \in Event /\ s[i] # e /\ n # 0
      BY <1>1, <1>2, <2>2
    <3>2. i > 1 => r.prev[s[i]] = t[i - 1]
      <4>1. r.prev[s[i]] = l.prev[s[i]]
        BY <1>6, <3>1
      <4>2. i > 1 => l.prev[s[i]] = s[i - 1] /\ t[i - 1] = s[i - 1]
        BY <1>1, <1>2, <1>3, <2>2
      <4> QED
        BY <4>1, <4>2
    <3>3. CASE i = n
      BY <1>1, <1>2, <1>3, <1>5, <1>6, <3>1, <3>2, <3>3
    <3>4. CASE i # n
      <4>1. i < n /\ i + 1 \in 1..n /\ s[i] # l.tail
        BY <1>1, <1>3, <1>5, <1>7, <2>2, <3>1, <3>4
      <4>2. r.next[s[i]] = l.next[s[i]]
        BY <1>6, <3>1, <4>1
      <4>3. l.next[s[i]] = s[i + 1] /\ t[i + 1] = s[i + 1] /\ i < n + 1
        BY <1>1, <1>2, <1>3, <2>2, <4>1
      <4> QED
        BY <3>1, <3>2, <4>2, <4>3
    <3> QED
      BY <3>3, <3>4
  <2> QED
    BY <1>1, <2>1, <2>2
<1>12. Spells(r, t)
  <2>1. r.head = t[1] /\ r.tail = t[n + 1] /\ r.count = n + 1
    BY <1>1, <1>2, <1>3, <1>5, <1>6
  <2> QED
    BY <1>2, <1>10, <1>11, <2>1 DEF Spells
<1>13. Alone(r)
  <2>1. ASSUME NEW x \in Event, ~r.is_add[x] PROVE r.prev[x] = Null /\ r.next[x] = Null
    <3>1. x # e /\ ~l.is_add[x] /\ l.prev[x] = Null /\ l.next[x] = Null
      BY <1>6, <2>1 DEF Alone
    <3>2. n # 0 => x # l.tail
      BY <1>3, <1>5, <3>1
    <3> QED
      BY <1>5, <1>6, <3>1, <3>2
  <2> QED
    BY <2>1 DEF Alone
<1>14. r.is_add[e] /\ \A x \in Event : x # e => r.is_add[x] = l.is_add[x]
  BY <1>6, <1>8
<1>15. n # 0 => t[1] = s[1] /\ r.prev[s[1]] = l.prev[s[1]]
  BY <1>1, <1>2, <1>5, <1>6
<1>16. n = 0 => t[1] = e /\ FirstOf(r, t)
  BY <1>2, <1>4, <1>5, <1>6 DEF FirstOf
<1>17. Added(l, s, e, r, t)
  BY <1>1, <1>2, <1>6, <1>9, <1>12, <1>13, <1>14, <1>15, <1>16 DEF Added
<1> QED
  BY <1>17 DEF r, t


\* What is true after e was moved to the end.
Moved(l, s, e, r, t) ==
  /\ r \in ListRec /\ t \in Seq(Event) /\ t # <<>> /\ Spells(r, t) /\ Once(t) /\ Alone(r)
  /\ r.is_add[e] /\ \A x \in Event : x # e => r.is_add[x] = l.is_add[x]
  /\ s # <<>> /\ s[1] # e => t[1] = s[1] /\ r.prev[s[1]] = l.prev[s[1]]
  /\ s = <<>> \/ s[1] = e => FirstOf(r, t)

\* ReaddTimeoutEvent.
LEMMA Moving ==
  ASSUME NEW l \in ListRec, NEW s \in Seq(Event), Spells(l, s), Once(s), Alone(l), NEW e \in Event,
         s # <<>> /\ s[1] = e => FirstOf(l, s)
  PROVE  Moved(l, s, e, Readd(l, e), Append(Drop(s, e), e))
<1> DEFINE r == RemoveFrom(l, e)
           t == Drop(s, e)
<1>1. Removed(l, s, e, r, t)
  BY Removal
<1> HIDE DEF r, t
<1>2. /\ r \in ListRec /\ t \in Seq(Event) /\ Spells(r, t) /\ Once(t) /\ Alone(r) /\ ~r.is_add[e]
      /\ \A x \in Event : x # e => r.is_add[x] = l.is_add[x]
  BY <1>1 DEF Removed
<1>3. Added(r, t, e, AddTo(r, e), Append(t, e))
  BY <1>2, Addition
<1>4. Moved(l, s, e, AddTo(r, e), Append(t, e))
  BY <1>1, <1>2, <1>3 DEF Removed, Added, Moved, FirstOf
<1> QED
  BY <1>4 DEF r, t, Readd

\* The rest is sorted whatever becomes of the event that left.
LEMMA DropSorted ==
  ASSUME NEW s \in Seq(Event), Once(s), NEW e \in Event, NEW h, NEW g, NEW L, NEW M, Sorted(h, s, L),
         \A x \in Event : x # e => g[x] = h[x] /\ (x \in L => x \in M)
  PROVE  Sorted(g, Drop(s, e), M)
<1>1. Len(s) \in Nat /\ \A i \in 1..Len(s) : s[i] \in Event
  OBVIOUS
<1>2. CASE On(s, e)
  <2>1. PICK k \in 1..Len(s) : s[k] = e
    BY <1>2 DEF On
  <2> DEFINE t == Drop(s, e)
  <2>2. /\ Len(t) = Len(s) - 1
        /\ \A j \in 1..Len(t) : t[j] = IF j < k THEN s[j] ELSE s[j + 1]
    BY <2>1, DropEffect
  <2> HIDE DEF t
  <2>3. ASSUME NEW i \in 1..Len(t), NEW j \in 1..Len(t), i < j, t[j] \notin M
        PROVE  g[t[i]] <= g[t[j]]
    <3>1. PICK a \in 1..Len(s) : t[i] = s[a] /\ a = IF i < k THEN i ELSE i + 1
      BY <1>1, <2>2
    <3>2. PICK b \in 1..Len(s) : t[j] = s[b] /\ b = IF j < k THEN j ELSE j + 1
      BY <1>1, <2>2
    <3>3. a < b /\ a # k /\ b # k
      BY <1>1, <2>2, <2>3, <3>1, <3>2
    <3>4. s[a] # e /\ s[b] # e
      BY <2>1, <3>3 DEF Once
    <3>5. h[s[a]] <= h[s[b]]
      BY <1>1, <2>3, <3>2, <3>3, <3>4 DEF Sorted
    <3> QED
      BY <1>1, <3>1, <3>2, <3>4, <3>5
  <2>4. Sorted(g, t, M)
    BY <2>3 DEF Sorted
  <2> QED
    BY <2>4 DEF t
<1>3. CASE ~On(s, e)
  <2>1. Drop(s, e) = s /\ \A i \in 1..Len(s) : s[i] # e
    BY <1>3 DEF Drop, On
  <2> QED
    BY <1>1, <2>1 DEF Sorted
<1> QED
  BY <1>2, <1>3

\* An event that is heard of last, or attached late, goes to the end.
LEMMA AppendSorted ==
  ASSUME NEW s \in Seq(Event), NEW e \in Event, NEW h, NEW L, Sorted(h, s, L),
         e \in L \/ \A x \in Event : h[x] <= h[e]
  PROVE  Sorted(h, Append(s, e), L)
<1> DEFINE t == Append(s, e)
           n == Len(s)
<1>1. n \in Nat /\ \A i \in 1..n : s[i] \in Event
  OBVIOUS
<1>2. Len(t) = n + 1 /\ t[n + 1] = e /\ \A i \in 1..n : t[i] = s[i]
  BY AppendProperties
<1> HIDE DEF t
<1>3. ASSUME NEW i \in 1..(n + 1), NEW j \in 1..(n + 1), i < j, t[j] \notin L PROVE h[t[i]] <= h[t[j]]
  <2>1. CASE j = n + 1
    BY <1>1, <1>2, <1>3, <2>1
  <2>2. CASE j # n + 1
    BY <1>1, <1>2, <1>3, <2>2 DEF Sorted
  <2> QED
    BY <2>1, <2>2
<1>4. Sorted(h, t, L)
  BY <1>2, <1>3 DEF Sorted
<1> QED
  BY <1>4 DEF t


\* Nothing depends on the prev_ of the head, or on the tail of an empty list.
LEMMA Loose ==
  ASSUME NEW l, NEW k, NEW s \in Seq(Event), Spells(l, s), Once(s), Alone(l),
         k.head = l.head, k.count = l.count, k.is_add = l.is_add, k.next = l.next,
         s # <<>> => k.tail = l.tail,
         \A x \in Event : (s # <<>> /\ x = s[1]) \/ k.prev[x] = l.prev[x]
  PROVE  Spells(k, s) /\ Alone(k)
<1>1. Len(s) \in Nat /\ (s # <<>> => 1 \in 1..Len(s)) /\ \A i \in 1..Len(s) : s[i] \in Event
  OBVIOUS
<1>2. ASSUME NEW i \in 1..Len(s), i > 1 PROVE k.prev[s[i]] = s[i - 1]
  <2>1. s # <<>> /\ s[i] # s[1] /\ s[i] \in Event
    BY <1>1, <1>2 DEF Once
  <2>2. k.prev[s[i]] = l.prev[s[i]]
    BY <2>1
  <2> QED
    BY <1>2, <2>2 DEF Spells
<1>3. Spells(k, s)
  BY <1>2 DEF Spells
<1>4. ASSUME NEW x \in Event, ~l.is_add[x] PROVE k.prev[x] = Null /\ k.next[x] = Null
  <2>1. ~On(s, x)
    BY <1>4 DEF Spells
  <2>2. s # <<>> => x # s[1]
    BY <1>1, <2>1 DEF On
  <2> QED
    BY <1>4, <2>2 DEF Alone
<1> QED
  BY <1>3, <1>4 DEF Alone

------------------------------------------------------------------------------
(* Every step keeps the invariant.                                         *)

\* The types, with a name for those of the list.
LEMMA Typed == ASSUME TypeOK PROVE m \in ListRec /\ list \in Seq(Event) /\ heart \in [Event -> 0..MaxClock]
                                   /\ clock \in 0..MaxClock /\ late \subseteq Event
  BY DEF TypeOK, ListRec

\* What the list says of its head.
LEMMA HeadOf ==
  ASSUME TypeOK, Chain
  PROVE  /\ m.head = IF list = <<>> THEN Null ELSE list[1]
         /\ list # <<>> => m.head \in Event /\ m.is_add[m.head] /\ list[1] = m.head
         /\ m.head = Null <=> list = <<>>
         /\ \A e \in Event : m.is_add[e] => list # <<>>
<1>1. list \in Seq(Event) /\ m.head = IF list = <<>> THEN Null ELSE list[1]
  BY DEF TypeOK, Chain, Spells
<1>2. list # <<>> => 1 \in 1..Len(list) /\ list[1] \in Event
  BY <1>1
<1>3. list # <<>> => m.is_add[list[1]]
  BY <1>2 DEF Chain, Spells, On
<1>4. \A e \in Event : m.is_add[e] => list # <<>>
  <2>1. \A e \in Event : m.is_add[e] => On(list, e)
    BY DEF Chain, Spells
  <2> QED
    BY <1>1, <2>1, EmptySeq DEF On
<1> QED
  BY <1>1, <1>2, <1>3, <1>4

\* A connection is made.
LEMMA ConstructStep ==
  ASSUME ListInv, NEW e \in Event, Construct(e)
  PROVE  ListInv'
<1>1. /\ TypeOK /\ Chain /\ Places /\ Alive /\ InTurn /\ life[e] = "none"
      /\ life' = [life EXCEPT ![e] = "live"] /\ heart' = [heart EXCEPT ![e] = clock]
      /\ UNCHANGED <<m, clock, pc, tmp, saved, now, list, late>>
  BY DEF ListInv, Construct
<1>2. ~m.is_add[e] /\ ~On(list, e)
  BY <1>1 DEF Alive, Chain, Spells
<1>3. TypeOK'
  BY <1>1 DEF TypeOK
<1>4. Chain' /\ Alive'
  BY <1>1 DEF Chain, Alive, Spells, Once, Alone, On, TypeOK
<1>5. Places'
  BY <1>1 DEF Places, FirstOf, TypeOK
<1>6. InTurn'
  <2>1. heart'[e] = clock /\ \A x \in Event : x # e => heart'[x] = heart[x]
    BY <1>1 DEF TypeOK
  <2>2. \A i \in 1..Len(list) : list[i] \in Event /\ list[i] # e
    BY <1>1, <1>2 DEF TypeOK, On
  <2>3. Sorted(heart', list, late)
    BY <1>1, <2>1, <2>2 DEF InTurn, Sorted
  <2>4. \A x \in Event : heart'[x] <= clock
    BY <1>1, <2>1, Typed DEF InTurn
  <2> QED
    BY <1>1, <2>3, <2>4 DEF InTurn
<1> QED
  BY <1>3, <1>4, <1>5, <1>6 DEF ListInv


\* A connection is attached, on time or late.
LEMMA AttachNetStep ==
  ASSUME ListInv, NEW e \in Event, AttachNet(e)
  PROVE  ListInv'
<1>1. /\ TypeOK /\ Chain /\ Places /\ Alive /\ InTurn /\ life[e] = "live" /\ e # tmp /\ ~m.is_add[e]
      /\ pc \in {"idle", "timeout"} /\ m' = AddTo(m, e) /\ list' = Append(list, e)
      /\ late' = IF heart[e] < clock THEN late \cup {e} ELSE late
      /\ UNCHANGED <<heart, life, clock, pc, tmp, saved, now>>
  BY DEF ListInv, AttachNet
<1>2. Added(m, list, e, m', list')
  BY <1>1, Typed, Addition DEF Chain
<1>3. /\ m' \in ListRec /\ list' \in Seq(Event) /\ Chain'
      /\ m'.is_add[e] /\ \A x \in Event : x # e => m'.is_add[x] = m.is_add[x]
  BY <1>2 DEF Added, Chain
<1>4. TypeOK'
  BY <1>1, <1>3 DEF TypeOK, ListRec
<1>5. Alive'
  BY <1>1, <1>3 DEF Alive
<1>6. Places'
  <2>1. FirstOf(m, list) => FirstOf(m', list')
    BY <1>2 DEF Added, FirstOf
  <2>2. list' # <<>> /\ list'[1] = tmp => FirstOf(m', list') \/ (list # <<>> /\ list[1] = tmp)
    BY <1>2 DEF Added
  <2> QED
    BY <1>1, <2>1, <2>2 DEF Places
<1>7. InTurn'
  <2>1. \A x \in Event : heart[x] \in Nat /\ heart[x] <= clock
    BY <1>1, Typed DEF InTurn
  <2>2. e \in late' \/ \A x \in Event : heart[x] <= heart[e]
    BY <1>1, <2>1, Typed
  <2>3. Sorted(heart, list, late')
    BY <1>1 DEF InTurn, Sorted
  <2>4. Sorted(heart, list', late')
    <3>1. list \in Seq(Event)
      BY <1>1, Typed
    <3> QED
      BY <1>1, <2>2, <2>3, <3>1, AppendSorted
  <2> QED
    BY <1>1, <2>1, <2>4 DEF InTurn
<1> QED
  BY <1>3, <1>4, <1>5, <1>6, <1>7 DEF ListInv

\* The application may touch the head only where its prev_ is right.
LEMMA HeadAllowed ==
  ASSUME TypeOK, Chain, Places, Tame, NEW e \in Event, Allowed(e)
  PROVE  /\ list # <<>> /\ list[1] = e => FirstOf(m, list)
         /\ pc \in {"timeout", "freeing"} => e # m.head
         /\ pc \in {"idle", "timeout", "freeing"}
<1>1. pc \in {"idle", "timeout", "freeing"} /\ (pc \in {"timeout", "freeing"} => e # m.head)
  BY DEF Allowed, InCallback, Places
<1> QED
  BY <1>1, HeadOf DEF Places

\* A connection leaves the list, and may be deleted.
LEMMA LeaveKeeps ==
  ASSUME ListInv, Tame, NEW e \in Event, Allowed(e), e # tmp,
         m' = RemoveFrom(m, e), list' = Without(e), late' = late \ {e},
         life' \in [Event -> {"none", "live", "freed"}], \A x \in Event : x # e => life'[x] = life[x],
         UNCHANGED <<heart, clock, pc, tmp, saved, now>>
  PROVE  ListInv'
<1>1. TypeOK /\ Chain /\ Places /\ Alive /\ InTurn
  BY DEF ListInv
<1>2. /\ list # <<>> /\ list[1] = e => FirstOf(m, list)
      /\ pc \in {"timeout", "freeing"} => e # m.head
      /\ pc \in {"idle", "timeout", "freeing"}
  BY <1>1, HeadAllowed
<1>3. Removed(m, list, e, m', list')
  BY <1>1, <1>2, Typed, Removal DEF Chain, Without
<1>4. /\ m' \in ListRec /\ list' \in Seq(Event) /\ Chain'
      /\ ~m'.is_add[e] /\ \A x \in Event : x # e => m'.is_add[x] = m.is_add[x]
  BY <1>3 DEF Removed, Chain
<1>5. TypeOK'
  BY <1>1, <1>4 DEF TypeOK, ListRec
<1>6. Alive'
  BY <1>1, <1>4 DEF Alive
<1>7. Places'
  <2>1. FirstOf(m, list) => FirstOf(m', list')
    BY <1>3 DEF Removed, FirstOf
  <2>2. pc = "timeout" /\ list' # <<>> /\ list'[1] = tmp => list # <<>> /\ list[1] = tmp
    BY <1>1, <1>2, <1>3, HeadOf DEF Removed
  <2>3. pc = "freeing" => m'.head = m.head
    BY <1>1, <1>2, <1>3, HeadOf DEF Removed, Spells
  <2> QED
    BY <1>1, <1>2, <1>4, <2>1, <2>2, <2>3 DEF Places
<1>8. InTurn'
  <2>1. Once(list) /\ Sorted(heart, list, late) /\ list \in Seq(Event)
    BY <1>1, Typed DEF Chain, InTurn
  <2>2. Sorted(heart, Drop(list, e), late \ {e})
    BY <2>1, DropSorted
  <2> QED
    BY <1>1, <2>2 DEF InTurn, Without
<1> QED
  BY <1>4, <1>5, <1>6, <1>7, <1>8 DEF ListInv

\* A connection is detached.
LEMMA DetachNetStep ==
  ASSUME ListInv, Tame, NEW e \in Event, DetachNet(e)
  PROVE  ListInv'
<1>1. life' \in [Event -> {"none", "live", "freed"}] /\ \A x \in Event : x # e => life'[x] = life[x]
  BY DEF ListInv, TypeOK, DetachNet
<1> QED
  BY <1>1, LeaveKeeps DEF DetachNet

\* A connection is freed.
LEMMA FreeStep ==
  ASSUME ListInv, Tame, NEW e \in Event, Free(e)
  PROVE  ListInv'
<1>1. life' \in [Event -> {"none", "live", "freed"}] /\ \A x \in Event : x # e => life'[x] = life[x]
  BY DEF ListInv, TypeOK, Free
<1> QED
  BY <1>1, LeaveKeeps DEF Free

\* Of an event that is heard of and goes to the end.
LEMMA HeardSorted ==
  ASSUME TypeOK, Chain, InTurn, NEW e \in Event, NEW L, \A x \in Event : x # e /\ x \in late => x \in L
  PROVE  LET h == [heart EXCEPT ![e] = clock] IN
         /\ h \in [Event -> 0..MaxClock] /\ \A x \in Event : h[x] <= clock
         /\ Sorted(h, Append(Drop(list, e), e), L)
<1> DEFINE h == [heart EXCEPT ![e] = clock]
<1>1. /\ heart \in [Event -> 0..MaxClock] /\ clock \in 0..MaxClock /\ list \in Seq(Event) /\ Once(list)
      /\ m \in ListRec /\ Sorted(heart, list, late) /\ \A x \in Event : heart[x] <= clock
  BY Typed DEF Chain, InTurn
<1>2. h \in [Event -> 0..MaxClock] /\ h[e] = clock /\ \A x \in Event : x # e => h[x] = heart[x]
  BY <1>1
<1> HIDE DEF h
<1>3. ASSUME NEW x \in Event PROVE h[x] <= clock
  <2>1. CASE x = e
    BY <1>1, <1>2, <2>1
  <2>2. CASE x # e
    BY <1>1, <1>2, <2>2
  <2> QED
    BY <2>1, <2>2
<1>4. Sorted(h, Drop(list, e), L)
  BY <1>1, <1>2, DropSorted
<1>5. Drop(list, e) \in Seq(Event)
  <2>1. CASE On(list, e)
    BY <1>1, <2>1, DropEffect DEF On
  <2>2. CASE ~On(list, e)
    BY <1>1, <2>2 DEF Drop, On
  <2> QED
    BY <2>1, <2>2
<1>6. Sorted(h, Append(Drop(list, e), e), L)
  BY <1>2, <1>3, <1>4, <1>5, AppendSorted
<1> QED
  BY <1>2, <1>3, <1>6 DEF h

\* A connection is heard of.
LEMMA UpdateTimeoutStep ==
  ASSUME ListInv, Tame, NEW e \in Event, UpdateTimeout(e)
  PROVE  ListInv'
<1>1. /\ TypeOK /\ Chain /\ Places /\ Alive /\ InTurn /\ Allowed(e) /\ life[e] = "live"
      /\ m.is_add[e] \/ (pc = "timeout" /\ e = tmp)
      /\ heart' = [heart EXCEPT ![e] = clock] /\ m' = Readd(m, e)
      /\ list' = Append(Drop(list, e), e) /\ late' = late \ {e}
      /\ UNCHANGED <<life, clock, pc, tmp, saved, now>>
  BY DEF ListInv, UpdateTimeout, Allowed, Without
<1>2. /\ list # <<>> /\ list[1] = e => FirstOf(m, list)
      /\ pc \in {"timeout", "freeing"} => e # m.head
      /\ pc \in {"idle", "timeout", "freeing"}
  BY <1>1, HeadAllowed
<1>3. Moved(m, list, e, m', list')
  BY <1>1, <1>2, Typed, Moving DEF Chain
<1>4. /\ m' \in ListRec /\ list' \in Seq(Event) /\ Chain'
      /\ m'.is_add[e] /\ \A x \in Event : x # e => m'.is_add[x] = m.is_add[x]
  BY <1>3 DEF Moved, Chain
<1>5. InTurn' /\ heart' \in [Event -> 0..MaxClock]
  <2>1. /\ heart' \in [Event -> 0..MaxClock] /\ \A x \in Event : heart'[x] <= clock
        /\ Sorted(heart', list', late')
    BY <1>1, HeardSorted
  <2> QED
    BY <1>1, <2>1 DEF InTurn
<1>6. TypeOK'
  BY <1>1, <1>4, <1>5 DEF TypeOK, ListRec
<1>7. Alive'
  BY <1>1, <1>4 DEF Alive
<1>8. Places'
  <2>1. FirstOf(m, list) => FirstOf(m', list')
    BY <1>3 DEF Moved, FirstOf
  <2>2. pc = "timeout" /\ list' # <<>> /\ list'[1] = tmp =>
          FirstOf(m', list') \/ (list # <<>> /\ list[1] = tmp)
    BY <1>3 DEF Moved
  <2>3. pc = "freeing" => m'.head = m.head /\ e # tmp
    <3>1. pc = "freeing" => m.is_add[e] /\ e # m.head /\ e # tmp
      BY <1>1, <1>2 DEF Places
    <3> QED
      BY <1>1, <1>3, <3>1, HeadOf DEF Moved, Spells
  <2> QED
    BY <1>1, <1>2, <1>4, <2>1, <2>2, <2>3 DEF Places
<1> QED
  BY <1>4, <1>5, <1>6, <1>7, <1>8 DEF ListInv

\* Time passes, a scan starts.
LEMMA TickStep ==
  ASSUME ListInv, Tick \/ ScanStart
  PROVE  ListInv'
<1>1. /\ TypeOK /\ Chain /\ Places /\ Alive /\ InTurn
      /\ clock' \in 0..MaxClock /\ clock <= clock' /\ now' \in 0..MaxClock
      /\ pc' = pc \/ (pc = "idle" /\ pc' = "scan")
      /\ UNCHANGED <<m, heart, life, tmp, saved, list, late>>
  BY DEF ListInv, TypeOK, Tick, ScanStart
<1>2. TypeOK'
  BY <1>1 DEF TypeOK
<1>3. Chain' /\ Alive'
  BY <1>1 DEF Chain, Alive, Spells, Once, Alone, On
<1>4. Places'
  BY <1>1 DEF Places, FirstOf
<1>5. InTurn'
  <2>1. \A x \in Event : heart[x] <= clock'
    BY <1>1, Typed DEF InTurn
  <2> QED
    BY <1>1, <2>1 DEF InTurn
<1> QED
  BY <1>2, <1>3, <1>4, <1>5 DEF ListInv


\* The head times out: it leaves the list, the prev_ of the next one stays.
LEMMA TimedOutStep ==
  ASSUME ListInv, TimedOut
  PROVE  ListInv'
<1>1. PICK h \in Event : h = m.head
  BY DEF TimedOut, ListInv, TypeOK, EventOrNull
<1>2. /\ TypeOK /\ Chain /\ Places /\ Alive /\ InTurn /\ pc = "scan"
      /\ tmp' = h /\ list' = Drop(list, h) /\ late' = late \ {h} /\ pc' = "timeout"
      /\ m' = [m EXCEPT !.head = m.next[h], !.is_add[h] = FALSE, !.prev[h] = Null,
                        !.next[h] = Null, !.count = @ - 1]
      /\ UNCHANGED <<heart, life, clock, saved, now>>
  BY <1>1 DEF ListInv, TimedOut, Without
<1>3. list # <<>> /\ list[1] = h /\ m.is_add[h] /\ list \in Seq(Event) /\ m \in ListRec
  BY <1>1, <1>2, HeadOf, Typed
<1>4. PICK l \in ListRec : l = [m EXCEPT !.prev[h] = Null]
  BY <1>3 DEF ListRec, EventOrNull
<1>5. /\ l.head = m.head /\ l.tail = m.tail /\ l.count = m.count /\ l.next = m.next
      /\ l.is_add = m.is_add /\ l.prev[h] = Null /\ \A x \in Event : x # h => l.prev[x] = m.prev[x]
  BY <1>3, <1>4 DEF ListRec
<1>6. Spells(l, list) /\ Once(list) /\ Alone(l) /\ FirstOf(l, list)
  <2>1. Spells(m, list) /\ Once(list) /\ Alone(m)
    BY <1>2 DEF Chain
  <2>2. Spells(l, list) /\ Alone(l)
    BY <1>3, <1>5, <2>1, Loose
  <2> QED
    BY <1>3, <1>5, <2>1, <2>2 DEF FirstOf
<1>7. l.is_add[h] /\ l.count > 0 /\ l.prev[h] # h /\ l.next[h] # h
  <2>1. 1 \in 1..Len(list) /\ (1 = 1 => l.prev[list[1]] = Null)
    BY <1>3, <1>5
  <2> QED
    BY <1>3, <1>6, <2>1, Neighbours
<1> DEFINE r == RemoveFrom(l, h)
<1>8. /\ r \in ListRec
      /\ r.count = l.count - 1
      /\ r.head = IF l.prev[h] = Null THEN l.next[h] ELSE l.head
      /\ r.tail = IF l.next[h] = Null THEN l.prev[h] ELSE l.tail
      /\ \A x \in Event : /\ r.is_add[x] = (x # h /\ l.is_add[x])
                          /\ r.next[x] = IF x = h THEN Null
                                         ELSE IF x = l.prev[h] THEN l.next[h] ELSE l.next[x]
                          /\ r.prev[x] = IF x = h THEN Null
                                         ELSE IF x = l.next[h] THEN l.prev[h] ELSE l.prev[x]
  BY <1>7, RemoveEffect
<1>9. Removed(l, list, h, r, list')
  BY <1>2, <1>3, <1>6, Removal
<1> HIDE DEF r
<1>10. /\ r \in ListRec /\ list' \in Seq(Event) /\ Spells(r, list') /\ Once(list') /\ Alone(r)
       /\ ~r.is_add[h] /\ \A x \in Event : x # h => r.is_add[x] = m.is_add[x]
  BY <1>5, <1>9 DEF Removed
<1>11. /\ m'.head = r.head /\ m'.count = r.count /\ m'.is_add = r.is_add /\ m'.next = r.next
       /\ m'.tail = m.tail /\ m'.prev[h] = Null /\ \A x \in Event : x # h => m'.prev[x] = m.prev[x]
  <2>1. m'.head = r.head /\ m'.count = r.count /\ m'.tail = m.tail
    BY <1>2, <1>3, <1>5, <1>8 DEF ListRec
  <2>2. m'.is_add \in [Event -> BOOLEAN] /\ r.is_add \in [Event -> BOOLEAN]
    BY <1>2, <1>3, <1>8 DEF ListRec
  <2>3. ~m'.is_add[h] /\ \A x \in Event : x # h => m'.is_add[x] = m.is_add[x]
    BY <1>2, <1>3 DEF ListRec
  <2>4. m'.is_add = r.is_add
    <3>1. \A x \in Event : m'.is_add[x] = r.is_add[x]
      BY <1>10, <2>2, <2>3
    <3> QED
      BY <2>2, <3>1
  <2>5. m'.next = [m.next EXCEPT ![h] = Null] /\ m'.prev = [m.prev EXCEPT ![h] = Null]
    BY <1>2, <1>3 DEF ListRec
  <2>6. m'.next = r.next
    <3>1. m.next \in [Event -> EventOrNull] /\ r.next \in [Event -> EventOrNull]
      BY <1>3, <1>8 DEF ListRec
    <3>2. \A x \in Event : r.next[x] = IF x = h THEN Null ELSE m.next[x]
      <4>1. l.prev[h] = Null /\ l.next = m.next /\ \A x \in Event : x # Null
        BY <1>5, TimeoutAssumption
      <4>2. \A x \in Event : r.next[x] = IF x = h THEN Null ELSE IF x = l.prev[h] THEN l.next[h] ELSE l.next[x]
        BY <1>8
      <4> QED
        BY <4>1, <4>2
    <3> QED
      BY <2>5, <3>1, <3>2
  <2>7. m'.prev[h] = Null /\ \A x \in Event : x # h => m'.prev[x] = m.prev[x]
    BY <1>3, <2>5 DEF ListRec
  <2> QED
    BY <2>1, <2>4, <2>6, <2>7
<1>12. Chain'
  <2>1. list' # <<>> => r.head = list'[1] /\ r.head \in Event
    <3>1. list' # <<>> => r.head = list'[1]
      BY <1>10 DEF Spells
    <3> QED
      BY <1>10, <3>1
  <2>2. list' # <<>> => m'.tail = r.tail
    BY <1>5, <1>8, <1>11, <2>1
  <2>3. ASSUME NEW x \in Event PROVE (list' # <<>> /\ x = list'[1]) \/ m'.prev[x] = r.prev[x]
    <3>1. CASE x = h
      BY <1>8, <1>11, <3>1
    <3>2. CASE x # h /\ x = l.next[h]
      <4>1. r.head = x
        BY <1>5, <1>8, <3>2
      <4>2. list' # <<>>
        BY <1>10, <4>1 DEF Spells
      <4> QED
        BY <2>1, <4>1, <4>2
    <3>3. CASE x # h /\ x # l.next[h]
      BY <1>5, <1>8, <1>11, <3>3
    <3> QED
      BY <3>1, <3>2, <3>3
  <2>4. Spells(m', list') /\ Alone(m')
    BY <1>10, <1>11, <2>2, <2>3, Loose
  <2> QED
    BY <1>10, <2>4 DEF Chain
<1>13. m' \in ListRec
  <2>1. /\ m.next \in [Event -> EventOrNull] /\ m.prev \in [Event -> EventOrNull]
        /\ m.is_add \in [Event -> BOOLEAN] /\ m.tail \in EventOrNull
    BY <1>3 DEF ListRec
  <2>2. m.next[h] \in EventOrNull /\ Null \in EventOrNull
    BY <2>1 DEF EventOrNull
  <2>3. m.count - 1 \in Nat
    <3>1. m.count > 0
      BY <1>5, <1>7
    <3>2. m.count \in Nat
      BY <1>3 DEF ListRec
    <3> QED
      BY <3>1, <3>2
  <2>4. m' = [m EXCEPT !.head = m.next[h], !.is_add = [m.is_add EXCEPT ![h] = FALSE],
                       !.prev = [m.prev EXCEPT ![h] = Null], !.next = [m.next EXCEPT ![h] = Null],
                       !.count = m.count - 1]
    BY <1>2, <1>3 DEF ListRec
  <2>5. /\ [m.is_add EXCEPT ![h] = FALSE] \in [Event -> BOOLEAN]
        /\ [m.prev EXCEPT ![h] = Null] \in [Event -> EventOrNull]
        /\ [m.next EXCEPT ![h] = Null] \in [Event -> EventOrNull]
    BY <2>1, <2>2
  <2> QED
    BY <1>3, <2>2, <2>3, <2>4, <2>5 DEF ListRec
<1>14. TypeOK'
  BY <1>2, <1>10, <1>13 DEF TypeOK, ListRec, EventOrNull
<1>15. Alive'
  BY <1>2, <1>10, <1>11 DEF Alive
<1>16. Places'
  <2>1. life[h] = "live" /\ saved' = Null
    BY <1>2, <1>3 DEF Alive, Places
  <2>2. ~(list' # <<>> /\ list'[1] = h)
    <3>1. ~On(list', h)
      BY <1>10 DEF Spells
    <3>2. list' # <<>> => 1 \in 1..Len(list')
      BY <1>10
    <3> QED
      BY <3>1, <3>2 DEF On
  <2> QED
    BY <1>2, <2>1, <2>2 DEF Places
<1>17. InTurn'
  <2>1. Once(list) /\ Sorted(heart, list, late)
    BY <1>2 DEF Chain, InTurn
  <2>2. Sorted(heart, Drop(list, h), late \ {h})
    BY <1>3, <2>1, DropSorted
  <2> QED
    BY <1>2, <2>2 DEF InTurn
<1> QED
  BY <1>12, <1>14, <1>15, <1>16, <1>17 DEF ListInv

\* A connection that timed out is freed.
LEMMA TimeoutTrueStep ==
  ASSUME ListInv, TimeoutTrue
  PROVE  ListInv'
<1>1. PICK e \in Event : e = tmp
  BY DEF TimeoutTrue, ListInv, Places
<1>2. /\ TypeOK /\ Chain /\ Places /\ Alive /\ InTurn /\ pc = "timeout"
      /\ m' = RemoveFrom(m, e) /\ list' = Drop(list, e) /\ life' = [life EXCEPT ![e] = "freed"]
      /\ tmp' = Null /\ pc' = "scan" /\ UNCHANGED <<heart, clock, saved, now, late>>
  BY <1>1 DEF ListInv, TimeoutTrue, Without
<1>3. list # <<>> /\ list[1] = e => FirstOf(m, list)
  BY <1>1, <1>2 DEF Places
<1>4. Removed(m, list, e, m', list')
  BY <1>2, <1>3, Typed, Removal DEF Chain
<1>5. /\ m' \in ListRec /\ list' \in Seq(Event) /\ Chain'
      /\ ~m'.is_add[e] /\ \A x \in Event : x # e => m'.is_add[x] = m.is_add[x]
  BY <1>4 DEF Removed, Chain
<1>6. life' \in [Event -> {"none", "live", "freed"}] /\ \A x \in Event : x # e => life'[x] = life[x]
  BY <1>2 DEF TypeOK
<1>7. TypeOK'
  BY <1>2, <1>5, <1>6 DEF TypeOK, ListRec, EventOrNull
<1>8. Alive'
  BY <1>2, <1>5, <1>6 DEF Alive
<1>9. Places'
  BY <1>2 DEF Places
<1>10. InTurn'
  <2>1. Once(list) /\ Sorted(heart, list, late) /\ list \in Seq(Event)
    BY <1>2, Typed DEF Chain, InTurn
  <2>2. Sorted(heart, Drop(list, e), late)
    BY <2>1, DropSorted
  <2> QED
    BY <1>2, <2>2 DEF InTurn
<1> QED
  BY <1>5, <1>7, <1>8, <1>9, <1>10 DEF ListInv

\* A connection that timed out stays, at the end.
LEMMA TimeoutFalseStep ==
  ASSUME ListInv, TimeoutFalse
  PROVE  ListInv'
<1>1. PICK e \in Event : e = tmp
  BY DEF TimeoutFalse, ListInv, Places
<1>2. /\ TypeOK /\ Chain /\ Places /\ Alive /\ InTurn /\ pc = "timeout"
      /\ heart' = [heart EXCEPT ![e] = clock] /\ m' = Readd(m, e) /\ list' = Append(Drop(list, e), e)
      /\ tmp' = Null /\ pc' = "scan" /\ UNCHANGED <<life, clock, saved, now, late>>
  BY <1>1 DEF ListInv, TimeoutFalse, Without
<1>3. (list # <<>> /\ list[1] = e => FirstOf(m, list)) /\ life[e] = "live"
  BY <1>1, <1>2 DEF Places
<1>4. Moved(m, list, e, m', list')
  BY <1>2, <1>3, Typed, Moving DEF Chain
<1>5. /\ m' \in ListRec /\ list' \in Seq(Event) /\ Chain'
      /\ m'.is_add[e] /\ \A x \in Event : x # e => m'.is_add[x] = m.is_add[x]
  BY <1>4 DEF Moved, Chain
<1>6. InTurn' /\ heart' \in [Event -> 0..MaxClock]
  <2>1. /\ heart' \in [Event -> 0..MaxClock] /\ \A x \in Event : heart'[x] <= clock
        /\ Sorted(heart', list', late)
    BY <1>2, HeardSorted
  <2> QED
    BY <1>2, <2>1 DEF InTurn
<1>7. TypeOK'
  BY <1>2, <1>5, <1>6 DEF TypeOK, ListRec, EventOrNull
<1>8. Alive'
  BY <1>2, <1>3, <1>5 DEF Alive
<1>9. Places'
  BY <1>2 DEF Places
<1> QED
  BY <1>5, <1>6, <1>7, <1>8, <1>9 DEF ListInv

\* The scan ends: the prev_ of the head is put right.
LEMMA ScanEndStep ==
  ASSUME ListInv, ScanEnd
  PROVE  ListInv'
<1>1. /\ TypeOK /\ Chain /\ Places /\ Alive /\ InTurn /\ pc = "scan" /\ pc' = "idle"
      /\ m' = IF m.head = Null THEN [m EXCEPT !.tail = Null] ELSE [m EXCEPT !.prev[m.head] = Null]
      /\ UNCHANGED <<heart, life, clock, tmp, saved, now, list, late>>
  BY DEF ListInv, ScanEnd
<1>2. m \in ListRec /\ list \in Seq(Event)
  BY <1>1, Typed
<1>3. /\ m.head = Null <=> list = <<>>
      /\ list # <<>> => m.head \in Event /\ list[1] = m.head
  BY <1>1, HeadOf
<1>4. /\ m' \in ListRec /\ m'.head = m.head /\ m'.count = m.count /\ m'.is_add = m.is_add
      /\ m'.next = m.next /\ (list # <<>> => m'.tail = m.tail /\ m'.prev[list[1]] = Null)
      /\ \A x \in Event : (list # <<>> /\ x = list[1]) \/ m'.prev[x] = m.prev[x]
  <2>1. CASE list = <<>>
    BY <1>1, <1>2, <1>3, <2>1 DEF ListRec, EventOrNull
  <2>2. CASE list # <<>>
    BY <1>1, <1>2, <1>3, <2>2 DEF ListRec, EventOrNull
  <2> QED
    BY <2>1, <2>2
<1>5. Chain' /\ FirstOf(m', list')
  <2>1. Spells(m, list) /\ Once(list) /\ Alone(m)
    BY <1>1 DEF Chain
  <2>2. Spells(m', list) /\ Alone(m')
    BY <1>2, <1>4, <2>1, Loose
  <2> QED
    BY <1>1, <1>4, <2>1, <2>2 DEF Chain, FirstOf
<1>6. TypeOK'
  BY <1>1, <1>4 DEF TypeOK, ListRec
<1>7. Alive' /\ InTurn'
  BY <1>1, <1>4 DEF Alive, InTurn
<1>8. Places'
  BY <1>1, <1>5 DEF Places
<1> QED
  BY <1>5, <1>6, <1>7, <1>8 DEF ListInv

\* The destructor takes the head out, and remembers the next one.
LEMMA CloseNextStep ==
  ASSUME ListInv, CloseNext
  PROVE  ListInv'
<1>1. PICK h \in Event : h = m.head
  BY DEF CloseNext, ListInv, TypeOK, EventOrNull
<1>2. /\ TypeOK /\ Chain /\ Places /\ Alive /\ InTurn /\ pc \in {"idle", "closing"}
      /\ saved' = m.next[h] /\ tmp' = h /\ m' = RemoveFrom(m, h) /\ list' = Drop(list, h)
      /\ late' = late \ {h} /\ pc' = "freeing" /\ UNCHANGED <<heart, life, clock, now>>
  BY <1>1 DEF ListInv, CloseNext, Without
<1>3. list # <<>> /\ list[1] = h /\ m.is_add[h] /\ list \in Seq(Event) /\ m \in ListRec
  BY <1>1, <1>2, HeadOf, Typed
<1>4. Spells(m, list) /\ Once(list) /\ Alone(m) /\ FirstOf(m, list) /\ m.prev[h] = Null
  BY <1>2, <1>3 DEF Chain, Places, FirstOf
<1>5. Removed(m, list, h, m', list')
  BY <1>2, <1>3, <1>4, Removal
<1>6. /\ m' \in ListRec /\ list' \in Seq(Event) /\ Chain' /\ FirstOf(m', list')
      /\ ~m'.is_add[h] /\ \A x \in Event : x # h => m'.is_add[x] = m.is_add[x]
  BY <1>3, <1>5 DEF Removed, Chain
<1>7. m'.head = m.next[h]
  <2>1. 1 \in 1..Len(list) /\ (1 = 1 => m.prev[list[1]] = Null)
    BY <1>3, <1>4
  <2>2. m.is_add[h] /\ m.count > 0 /\ m.prev[h] # h /\ m.next[h] # h
    BY <1>3, <1>4, <2>1, Neighbours
  <2> QED
    BY <1>2, <1>3, <1>4, <2>2, RemoveEffect
<1>8. TypeOK'
  <2>1. m.next[h] \in EventOrNull
    BY <1>3 DEF ListRec
  <2> QED
    BY <1>2, <1>6, <2>1 DEF TypeOK, ListRec, EventOrNull
<1>9. Alive'
  BY <1>2, <1>6 DEF Alive
<1>10. Places'
  <2>1. life[h] = "live"
    BY <1>2, <1>3 DEF Alive
  <2> QED
    BY <1>2, <1>6, <1>7, <2>1 DEF Places
<1>11. InTurn'
  <2>1. Once(list) /\ Sorted(heart, list, late)
    BY <1>2 DEF Chain, InTurn
  <2>2. Sorted(heart, Drop(list, h), late \ {h})
    BY <1>3, <2>1, DropSorted
  <2> QED
    BY <1>2, <2>2 DEF InTurn
<1> QED
  BY <1>6, <1>8, <1>9, <1>10, <1>11 DEF ListInv

\* The destructor goes on with the event it remembered, which is the head.
LEMMA CloseFreedStep ==
  ASSUME ListInv, CloseFreed
  PROVE  ListInv'
<1>1. PICK e \in Event : e = tmp
  BY DEF CloseFreed, ListInv, Places
<1>2. /\ TypeOK /\ Chain /\ Places /\ Alive /\ InTurn /\ pc = "freeing"
      /\ life' = [life EXCEPT ![e] = "freed"] /\ tmp' = Null /\ saved' = Null
      /\ m' = [m EXCEPT !.head = saved] /\ pc' = "closing"
      /\ UNCHANGED <<heart, clock, now, list, late>>
  BY <1>1 DEF ListInv, CloseFreed
<1>3. saved = m.head /\ ~m.is_add[e] /\ FirstOf(m, list)
  BY <1>1, <1>2 DEF Places
<1>4. m' = m
  BY <1>2, <1>3 DEF TypeOK
<1>5. life' \in [Event -> {"none", "live", "freed"}] /\ \A x \in Event : x # e => life'[x] = life[x]
  BY <1>2 DEF TypeOK
<1>6. TypeOK'
  BY <1>2, <1>4, <1>5 DEF TypeOK, EventOrNull
<1>7. Chain'
  BY <1>2, <1>4 DEF Chain
<1>8. Alive'
  BY <1>2, <1>3, <1>4, <1>5 DEF Alive
<1>9. Places'
  BY <1>2, <1>3, <1>4 DEF Places
<1>10. InTurn'
  BY <1>2 DEF InTurn
<1> QED
  BY <1>6, <1>7, <1>8, <1>9, <1>10 DEF ListInv

\* The destructor is done.
LEMMA CloseEndStep ==
  ASSUME ListInv, CloseEnd
  PROVE  ListInv'
<1>1. /\ TypeOK /\ Chain /\ Places /\ Alive /\ InTurn /\ pc \in {"idle", "closing"} /\ m.head = Null
      /\ m' = [m EXCEPT !.tail = Null] /\ pc' = "closed"
      /\ UNCHANGED <<heart, life, clock, tmp, saved, now, list, late>>
  BY DEF ListInv, CloseEnd
<1>2. m \in ListRec /\ list \in Seq(Event) /\ list = <<>>
  BY <1>1, HeadOf, Typed
<1>3. /\ m' \in ListRec /\ m'.head = m.head /\ m'.count = m.count /\ m'.is_add = m.is_add
      /\ m'.next = m.next /\ m'.prev = m.prev
  BY <1>1, <1>2 DEF ListRec, EventOrNull
<1>4. Chain'
  <2>1. Spells(m, list) /\ Once(list) /\ Alone(m)
    BY <1>1 DEF Chain
  <2>2. Spells(m', list) /\ Alone(m')
    BY <1>2, <1>3, <2>1, Loose
  <2> QED
    BY <1>1, <2>1, <2>2 DEF Chain
<1>5. TypeOK'
  BY <1>1, <1>3 DEF TypeOK, ListRec
<1>6. Alive' /\ InTurn'
  BY <1>1, <1>3 DEF Alive, InTurn
<1>7. Places'
  BY <1>1 DEF Places
<1> QED
  BY <1>4, <1>5, <1>6, <1>7 DEF ListInv

\* The empty list.
LEMMA InitInv == ASSUME Init PROVE ListInv
<1>1. TypeOK
  BY DEF Init, TypeOK, EventOrNull
<1>2. Chain
  <2>1. \A e \in Event : ~On(list, e)
    <3>1. Len(list) = 0 /\ 1..0 = {}
      BY DEF Init
    <3> QED
      BY <3>1 DEF On
  <2>2. Spells(m, list)
    BY <2>1 DEF Init, Spells
  <2> QED
    BY <2>2 DEF Init, Chain, Once, Alone
<1>3. Places
  BY DEF Init, Places, FirstOf
<1>4. Alive
  BY DEF Init, Alive
<1>5. InTurn
  BY DEF Init, InTurn, Sorted
<1> QED
  BY <1>1, <1>2, <1>3, <1>4, <1>5 DEF ListInv

\* Every step.
LEMMA InvStep == ASSUME Tame, ListInv, [Next]_vars PROVE ListInv'
<1>1. CASE Next
  <2>1. ASSUME NEW e \in Event, Construct(e) PROVE ListInv'
    BY <2>1, ConstructStep
  <2>2. ASSUME NEW e \in Event, AttachNet(e) PROVE ListInv'
    BY <2>2, AttachNetStep
  <2>3. ASSUME NEW e \in Event, DetachNet(e) PROVE ListInv'
    BY <2>3, DetachNetStep
  <2>4. ASSUME NEW e \in Event, Free(e) PROVE ListInv'
    BY <2>4, FreeStep
  <2>5. ASSUME NEW e \in Event, UpdateTimeout(e) PROVE ListInv'
    BY <2>5, UpdateTimeoutStep
  <2>6. CASE Tick \/ ScanStart
    BY <2>6, TickStep
  <2>7. CASE TimedOut
    BY <2>7, TimedOutStep
  <2>8. CASE TimeoutTrue
    BY <2>8, TimeoutTrueStep
  <2>9. CASE TimeoutFalse
    BY <2>9, TimeoutFalseStep
  <2>10. CASE ScanEnd
    BY <2>10, ScanEndStep
  <2>11. CASE CloseNext
    BY <2>11, CloseNextStep
  <2>12. CASE CloseFreed
    BY <2>12, CloseFreedStep
  <2>13. CASE CloseEnd
    BY <2>13, CloseEndStep
  <2> QED
    BY <1>1, <2>1, <2>2, <2>3, <2>4, <2>5, <2>6, <2>7, <2>8, <2>9, <2>10, <2>11, <2>12, <2>13 DEF Next
<1>2. CASE UNCHANGED vars
  <2>1. UNCHANGED <<m, heart, life, clock, pc, tmp, saved, now, list, late>>
    BY <1>2 DEF vars
  <2>2. TypeOK' /\ Chain' /\ Alive' /\ InTurn' /\ Places'
    BY <2>1 DEF ListInv, TypeOK, Chain, Alive, InTurn, Places
  <2> QED
    BY <2>2 DEF ListInv
<1> QED
  BY <1>1, <1>2

------------------------------------------------------------------------------
(* The theorems.                                                           *)

\* The members of TimeoutManager and its events spell the list of the
\* attached connections, which are live and in the order they were heard of,
\* whatever the application does between scans, in the callbacks of one and
\* in those of the destructor.
THEOREM ListInvariant == ASSUME Tame PROVE Spec => []ListInv
<1>1. Init => ListInv
  BY InitInv
<1>2. ListInv /\ [Next]_vars => ListInv'
  BY InvStep
<1> QED
  BY <1>1, <1>2, PTL DEF Spec

\* AddTimeoutEvent, RemoveTimeoutEvent, ReaddTimeoutEvent, TimeElapsedTimeout
\* and ~TimeoutManager keep the links in agreement, front to back and back to
\* front, and reach no connection that was freed, as long as a callback leaves
\* the event alone that the loop goes on with.
THEOREM ScanListCorrect == ASSUME Tame PROVE Spec => []ScanListOK
<1>1. ListInv => ScanListOK
  <2>1. SUFFICES ASSUME ListInv PROVE TypeOK /\ ListOK /\ NoDangling
    BY DEF ScanListOK
  <2>2. TypeOK /\ Chain /\ Places /\ Alive
    BY <2>1 DEF ListInv
  <2>3. ListOK
    BY <2>2 DEF ListOK, Chain, Places, Spells, On, FirstOf
  <2>4. NoDangling
    <3>1. \A p \in {m.head, saved} \ {Null} : life[p] = "live"
      <4>1. m.head # Null => life[m.head] = "live"
        BY <2>2, HeadOf DEF Alive
      <4>2. saved # Null => saved = m.head
        BY <2>2 DEF Places
      <4> QED
        BY <4>1, <4>2
    <3>2. ASSUME NEW e \in Event, m.is_add[e], m.next[e] # Null PROVE life[m.next[e]] = "live"
      <4>1. PICK i \in 1..Len(list) : list[i] = e
        BY <2>2, <3>2 DEF Chain, Spells, On
      <4>2. i < Len(list) /\ m.next[e] = list[i + 1]
        BY <2>2, <3>2, <4>1 DEF Chain, Spells
      <4>3. i + 1 \in 1..Len(list) /\ list[i + 1] \in Event
        BY <2>2, <4>2, Typed
      <4>4. m.is_add[list[i + 1]]
        BY <2>2, <4>3 DEF Chain, Spells, On
      <4> QED
        BY <2>2, <4>2, <4>3, <4>4 DEF Alive
    <3>3. \A e \in Event : life[e] # "live" => ~m.is_add[e]
      BY <2>2 DEF Alive
    <3> QED
      BY <3>1, <3>2, <3>3 DEF NoDangling
  <2> QED
    BY <2>2, <2>3, <2>4
<1> QED
  BY <1>1, ListInvariant, PTL

\* TimeElapsedTimeout may stop at the first event that passes Check: when it
\* stops, every attached connection that has timed out was found, but for
\* those that were attached later than they were heard of.
THEOREM ScanFindsAll == ASSUME Tame PROVE Spec => ScanComplete
<1>1. ASSUME ListInv, ScanEnd, NEW e \in Event, m.is_add[e], ~Check(e) PROVE e \in late
  <2>1. TypeOK /\ Chain /\ InTurn /\ (m.head # Null => Check(m.head))
    BY <1>1 DEF ListInv, ScanEnd
  <2>2. PICK i \in 1..Len(list) : list[i] = e
    BY <1>1, <2>1 DEF Chain, Spells, On
  <2>3. /\ list \in Seq(Event) /\ Len(list) \in Nat /\ list # <<>> /\ m.head \in Event
        /\ m.head = list[1] /\ Check(list[1]) /\ 1 \in 1..Len(list)
    BY <1>1, <2>1, <2>2, HeadOf, Typed
  <2>4. i # 1 /\ 1 < i
    BY <1>1, <2>2, <2>3
  <2>5. e \notin late => heart[list[1]] <= heart[e]
    BY <2>1, <2>2, <2>3, <2>4 DEF InTurn, Sorted
  <2>6. heart[list[1]] \in Nat /\ heart[e] \in Nat /\ now \in Nat /\ Timeout \in Nat
    BY <2>1, <2>3 DEF TypeOK
  <2> QED
    BY <1>1, <2>3, <2>5, <2>6 DEF Check
<1>2. ListInv /\ [Next]_vars => [ScanEnd => \A e \in Event : m.is_add[e] /\ ~Check(e) => e \in late]_vars
  BY <1>1
<1> QED
  BY <1>2, ListInvariant, PTL DEF Spec, ScanComplete


-----------------------------------------------------------------------------
(* PoolManager.                                                            *)

\* Where Close() is.
InClose == {"close", "closelog", "waitlog", "done"}

\* The master knows the process of worker w.
Known(w) == child[w] # "none" /\ w \in hash /\ w \in pid

\* Which workers have a process, by where Loop() is; one that has a process
\* has its pid in pool_pid_, so that Close() waits for it.
Forked ==
  /\ mpc \in {"log", "shm"} => at = 1 /\ \A w \in W : child[w] = "none"
  /\ mpc = "fork" => /\ \A w \in 1..(at - 1) : Known(w)
                     /\ \A w \in at..N : child[w] = "none"
  /\ mpc = "wait" => \A w \in W : Known(w)
  /\ mpc = "refork" => child[at] = "none" /\ \A w \in W \ {at} : Known(w)
  /\ \A w \in W : w \notin pid => child[w] = "none"

\* Close() deletes the workers in their order.  One it has deleted has no
\* process any more, or a signal interrupted waitpid: and that stored the flag.
Deleting ==
  /\ mpc \notin InClose => deleted = {}
  /\ mpc = "close" => deleted = 1..(at - 1)
  /\ mpc \in InClose \ {"close"} => deleted = W /\ sig = 0
  /\ \A w \in deleted : /\ ~skipped => child[w] = "none"
                        /\ is_close = "no" => child[w] \notin Living

\* The flag: it exists between shmat and shmdt, unless the log process could
\* not be forked, and it is set while a handler runs, when one has run, and
\* when a 'C' waits anywhere.
Flag ==
  /\ mpc \in {"log", "shm", "done"} => is_close = "null"
  /\ mpc = "log" => log = "none"
  /\ is_close = "null" => mpc \in {"log", "shm", "done"} \/ log = "none"
  /\ sig # 0 \/ intr => is_close = "yes"
  /\ \A w \in W : inbox[w] > 0 => is_close = "yes" \/ mpc = "done"

\* 'c' is sent once, when no worker is left that could log.
LogInv ==
  /\ mpc \notin {"waitlog", "done"} => \A i \in DOMAIN logq : logq[i] # "c"
  /\ LogComplete
  /\ mpc = "done" /\ ~skipped => log \in {"none", "reaped"}

\* The inductive invariant.
PoolInv == PMTypeOK /\ Forked /\ Deleting /\ Flag /\ StopSeen /\ SignalSafe /\ LogInv

\* The log process is forked.
LEMMA ForkLogStep ==
  ASSUME PoolInv, ForkLog
  PROVE  PoolInv'
<1>1. PMTypeOK'
  BY DEF PoolInv, PMTypeOK, ForkLog
<1>2. Forked'
  BY DEF PoolInv, Forked, Known, ForkLog, Master
<1>3. Deleting'
  BY DEF PoolInv, Deleting, InClose, Forked, ForkLog, Master
<1>4. Flag'
  BY DEF PoolInv, Flag, ForkLog, Master
<1>5. StopSeen'
  BY DEF PoolInv, StopSeen, Flag, ForkLog
<1>6. SignalSafe'
  BY DEF PoolInv, SignalSafe, Flag, Deleting, InClose, ForkLog, Master
<1>7. LogInv'
  BY DEF PoolInv, LogInv, LogComplete, ForkLog, Master
<1> QED
  BY <1>1, <1>2, <1>3, <1>4, <1>5, <1>6, <1>7 DEF PoolInv

\* The flag exists from here on.
LEMMA ShmStep ==
  ASSUME PoolInv, Shm
  PROVE  PoolInv'
<1>1. PMTypeOK'
  BY DEF PoolInv, PMTypeOK, Shm
<1>2. Forked'
  <2>1. /\ at = 1 /\ at' = 1 /\ mpc' = "fork" /\ UNCHANGED <<child, pid>>
        /\ \A w \in W : child[w] = "none"
    BY DEF PoolInv, Forked, Shm, Master
  <2>2. 1..(at' - 1) = {} /\ at'..N = W
    BY <2>1 DEF W
  <2> QED
    BY <2>1, <2>2 DEF Forked
<1>3. Deleting'
  BY DEF PoolInv, Deleting, InClose, Forked, Shm, Master
<1>4. Flag'
  BY DEF PoolInv, Flag, Shm, Master
<1>5. StopSeen'
  BY DEF PoolInv, StopSeen, Flag, Shm
<1>6. SignalSafe'
  BY DEF PoolInv, SignalSafe, Flag, Deleting, InClose, Shm, Master
<1>7. LogInv'
  BY DEF PoolInv, LogInv, LogComplete, Shm, Master
<1> QED
  BY <1>1, <1>2, <1>3, <1>4, <1>5, <1>6, <1>7 DEF PoolInv

\* The next worker is forked; after the last one Loop() waits.
LEMMA ForkWorkerStep ==
  ASSUME PoolInv, ForkWorker
  PROVE  PoolInv'
<1>1. PMTypeOK'
  <2>1. at' \in W /\ child' \in [W -> Living \cup {"none", "zombie"}] /\ inbox' \in [W -> Nat]
    BY PoolManagerAssumption DEF PoolInv, PMTypeOK, ForkWorker, Fork, W, Living
  <2> QED
    BY <2>1 DEF PoolInv, PMTypeOK, ForkWorker, Fork
<1>2. Forked'
  BY DEF PoolInv, Forked, Known, PMTypeOK, W, ForkWorker, Fork, Master
<1>3. Deleting'
  BY DEF PoolInv, Deleting, InClose, Forked, ForkWorker, Fork, Master
<1>4. Flag'
  BY DEF PoolInv, Flag, ForkWorker, Fork, Master
<1>5. StopSeen'
  BY DEF PoolInv, StopSeen, Flag, PMTypeOK, ForkWorker, Fork
<1>6. SignalSafe'
  BY DEF PoolInv, SignalSafe, Flag, Deleting, InClose, ForkWorker, Fork, Master
<1>7. LogInv'
  BY DEF PoolInv, LogInv, LogComplete, ForkWorker, Fork, Master
<1> QED
  BY <1>1, <1>2, <1>3, <1>4, <1>5, <1>6, <1>7 DEF PoolInv

\* A fork failed: the worker has no process, and Close() starts.
LEMMA ForkFailsStep ==
  ASSUME PoolInv, ForkFails
  PROVE  PoolInv'
<1>1. PMTypeOK'
  BY PoolManagerAssumption DEF PoolInv, PMTypeOK, W, ForkFails
<1>2. Forked'
  BY DEF PoolInv, Forked, Known, W, ForkFails, Master
<1>3. Deleting'
  BY DEF PoolInv, Deleting, InClose, Forked, ForkFails, Master
<1>4. Flag'
  BY DEF PoolInv, Flag, ForkFails, Master
<1>5. StopSeen'
  BY DEF PoolInv, StopSeen, Flag, ForkFails
<1>6. SignalSafe'
  BY DEF PoolInv, SignalSafe, Flag, Deleting, InClose, ForkFails, Master
<1>7. LogInv'
  BY DEF PoolInv, LogInv, LogComplete, ForkFails, Master
<1> QED
  BY <1>1, <1>2, <1>3, <1>4, <1>5, <1>6, <1>7 DEF PoolInv

\* A worker that ended is forked again, or Close() starts.
LEMMA WaitWorkerStep ==
  ASSUME PoolInv, NEW w \in W, WaitWorker(w)
  PROVE  PoolInv'
<1>1. PMTypeOK'
  <2>1. at' \in W
    BY PoolManagerAssumption DEF WaitWorker, W
  <2> QED
    BY <2>1 DEF PoolInv, PMTypeOK, WaitWorker
<1>2. Forked'
  BY DEF PoolInv, Forked, Known, PMTypeOK, WaitWorker, Master
<1>3. Deleting'
  <2>1. deleted = {} /\ deleted' = {} /\ 1..(1 - 1) = {}
    BY DEF PoolInv, Deleting, InClose, WaitWorker, Master
  <2>2. (mpc' = "close" /\ at' = 1) \/ mpc' = "refork"
    BY DEF WaitWorker
  <2> QED
    BY <2>1, <2>2 DEF Deleting, InClose
<1>4. Flag'
  BY DEF PoolInv, Flag, WaitWorker, Master
<1>5. StopSeen'
  BY DEF PoolInv, StopSeen, Flag, WaitWorker
<1>6. SignalSafe'
  BY DEF PoolInv, SignalSafe, Flag, Deleting, InClose, WaitWorker, Master
<1>7. LogInv'
  BY DEF PoolInv, LogInv, LogComplete, WaitWorker, Master
<1> QED
  BY <1>1, <1>2, <1>3, <1>4, <1>5, <1>6, <1>7 DEF PoolInv

\* wait() returned the log process, or was interrupted.
LEMMA WaitOtherStep ==
  ASSUME PoolInv, WaitOther
  PROVE  PoolInv'
<1>1. PMTypeOK'
  <2>1. at' \in W
    BY PoolManagerAssumption DEF WaitOther, W
  <2> QED
    BY <2>1 DEF PoolInv, PMTypeOK, WaitOther
<1>2. Forked'
  BY DEF PoolInv, Forked, Known, WaitOther, Master
<1>3. Deleting'
  BY DEF PoolInv, Deleting, InClose, Forked, WaitOther, Master
<1>4. Flag'
  BY DEF PoolInv, Flag, WaitOther, Master
<1>5. StopSeen'
  BY DEF PoolInv, StopSeen, Flag, WaitOther
<1>6. SignalSafe'
  BY DEF PoolInv, SignalSafe, Flag, Deleting, InClose, WaitOther, Master
<1>7. LogInv'
  BY DEF PoolInv, LogInv, LogComplete, WaitOther, Master
<1> QED
  BY <1>1, <1>2, <1>3, <1>4, <1>5, <1>6, <1>7 DEF PoolInv

\* The worker that ended has a process again.
LEMMA ReforkStep ==
  ASSUME PoolInv, Refork
  PROVE  PoolInv'
<1>1. PMTypeOK'
  <2>1. at' \in W /\ child' \in [W -> Living \cup {"none", "zombie"}] /\ inbox' \in [W -> Nat]
    BY PoolManagerAssumption DEF PoolInv, PMTypeOK, Refork, Fork, W, Living
  <2> QED
    BY <2>1 DEF PoolInv, PMTypeOK, Refork, Fork
<1>2. Forked'
  BY DEF PoolInv, Forked, Known, PMTypeOK, Refork, Fork, Master
<1>3. Deleting'
  BY DEF PoolInv, Deleting, InClose, Forked, Refork, Fork, Master
<1>4. Flag'
  BY DEF PoolInv, Flag, Refork, Fork, Master
<1>5. StopSeen'
  BY DEF PoolInv, StopSeen, Flag, PMTypeOK, Refork, Fork
<1>6. SignalSafe'
  BY DEF PoolInv, SignalSafe, Flag, Deleting, InClose, Refork, Fork, Master
<1>7. LogInv'
  BY DEF PoolInv, LogInv, LogComplete, Refork, Fork, Master
<1> QED
  BY <1>1, <1>2, <1>3, <1>4, <1>5, <1>6, <1>7 DEF PoolInv

\* waitpid returned the process of the worker, or was interrupted.
LEMMA CloseWorkerStep ==
  ASSUME PoolInv, CloseWorker
  PROVE  PoolInv'
<1>1. PMTypeOK'
  <2>1. at' \in W /\ child' \in [W -> Living \cup {"none", "zombie"}]
    <3>1. at \in W /\ child \in [W -> Living \cup {"none", "zombie"}] /\ at' = IF at = N THEN 1 ELSE at + 1
      BY DEF PoolInv, PMTypeOK, CloseWorker
    <3>2. at' \in W
      BY <3>1, PoolManagerAssumption DEF W
    <3>3. child' = child \/ child' = [child EXCEPT ![at] = "none"]
      BY DEF CloseWorker
    <3> QED
      BY <3>1, <3>2, <3>3
  <2> QED
    BY <2>1 DEF PoolInv, PMTypeOK, CloseWorker
<1>2. Forked'
  BY DEF PoolInv, Forked, Known, CloseWorker
<1>3. Deleting'
  <2>1. /\ mpc = "close" /\ sig = 0 /\ sig' = 0 /\ at \in 1..N
        /\ deleted = 1..(at - 1) /\ deleted' = deleted \cup {at} /\ is_close' = is_close
    BY DEF PoolInv, PMTypeOK, Deleting, CloseWorker, Master, W
  <2>2. deleted' = 1..at
    BY <2>1
  <2>3. mpc' \in {"close", "closelog"}
    BY DEF CloseWorker
  <2>4. mpc' = "close" => deleted' = 1..(at' - 1)
    BY <2>1, <2>2 DEF CloseWorker
  <2>5. mpc' # "close" => mpc' = "closelog" /\ deleted' = W
    BY <2>2 DEF CloseWorker, W
  <2>6. at \in W /\ (skipped \/ child'[at] # "none" => skipped')
    BY <2>1 DEF CloseWorker, W
  <2>7. is_close = "no" => child'[at] \notin Living
    <3>1. at \notin pid => child[at] \notin Living
      BY <2>6 DEF PoolInv, Forked, Living
    <3> QED
      BY <2>6, <3>1 DEF PoolInv, Flag, CloseWorker, Living
  <2>8. \A w \in W \ {at} : child'[w] = child[w]
    BY DEF PoolInv, CloseWorker
  <2>9. \A w \in deleted' : /\ ~skipped' => child'[w] = "none"
                            /\ is_close' = "no" => child'[w] \notin Living
    BY <2>1, <2>6, <2>7, <2>8 DEF PoolInv, Deleting, PMTypeOK
  <2> QED
    BY <2>1, <2>3, <2>4, <2>5, <2>9 DEF Deleting, InClose
<1>4. Flag'
  BY DEF PoolInv, Flag, CloseWorker, Master
<1>5. StopSeen'
  BY DEF PoolInv, StopSeen, Flag, CloseWorker
<1>6. SignalSafe'
  BY DEF PoolInv, SignalSafe, Flag, Deleting, InClose, CloseWorker, Master
<1>7. LogInv'
  BY DEF PoolInv, LogInv, LogComplete, CloseWorker, Master
<1> QED
  BY <1>1, <1>2, <1>3, <1>4, <1>5, <1>6, <1>7 DEF PoolInv

\* 'c' is sent, by the last process that logs.
LEMMA CloseLogStep ==
  ASSUME PoolInv, CloseLog
  PROVE  PoolInv'
<1>1. PMTypeOK'
  <2>1. logq' \in Seq({"l", "c"})
    <3>1. logq \in Seq({"l", "c"})
      BY DEF PoolInv, PMTypeOK
    <3>2. Append(logq, "c") \in Seq({"l", "c"})
      BY <3>1
    <3> QED
      BY <3>1, <3>2 DEF CloseLog
  <2> QED
    BY <2>1 DEF PoolInv, PMTypeOK, CloseLog
<1>2. Forked'
  BY DEF PoolInv, Forked, Known, CloseLog
<1>3. Deleting'
  BY DEF PoolInv, Deleting, InClose, Forked, CloseLog, Master
<1>4. Flag'
  BY DEF PoolInv, Flag, CloseLog, Master
<1>5. StopSeen'
  BY DEF PoolInv, StopSeen, Flag, CloseLog
<1>6. SignalSafe'
  BY DEF PoolInv, SignalSafe, Flag, Deleting, InClose, CloseLog, Master
<1>7. LogInv'
  BY DEF PoolInv, LogInv, LogComplete, CloseLog, Master
<1> QED
  BY <1>1, <1>2, <1>3, <1>4, <1>5, <1>6, <1>7 DEF PoolInv

\* Close() ends and the flag is gone.
LEMMA WaitLogStep ==
  ASSUME PoolInv, WaitLog
  PROVE  PoolInv'
<1>1. PMTypeOK'
  BY DEF PoolInv, PMTypeOK, WaitLog
<1>2. Forked'
  BY DEF PoolInv, Forked, Known, WaitLog
<1>3. Deleting'
  BY DEF PoolInv, Deleting, InClose, Forked, WaitLog, Master
<1>4. Flag'
  BY DEF PoolInv, Flag, WaitLog, Master
<1>5. StopSeen'
  BY DEF PoolInv, StopSeen, Flag, WaitLog
<1>6. SignalSafe'
  BY DEF PoolInv, SignalSafe, Flag, Deleting, InClose, WaitLog, Master
<1>7. LogInv'
  BY DEF PoolInv, LogInv, LogComplete, PMTypeOK, WaitLog
<1> QED
  BY <1>1, <1>2, <1>3, <1>4, <1>5, <1>6, <1>7 DEF PoolInv

\* SIGINT stores the flag, if it is there, and Stop() starts.
LEMMA SignalStep ==
  ASSUME PoolInv, Signal
  PROVE  PoolInv'
<1>1. PMTypeOK'
  <2>1. sig' \in 0..N
    BY PoolManagerAssumption DEF PoolInv, Signal
  <2> QED
    BY <2>1 DEF PoolInv, PMTypeOK, Signal
<1>2. Forked'
  BY DEF PoolInv, Forked, Known, Signal
<1>3. Deleting'
  BY DEF PoolInv, Deleting, InClose, Forked, Signal
<1>4. Flag'
  BY DEF PoolInv, Flag, Signal
<1>5. StopSeen'
  <2>1. ASSUME fault' = "none", NEW w \in W, child'[w] = "poll", is_close' = "yes"
        PROVE  inbox'[w] > 0 \/ sig' \in 1..w
    <3>1. child[w] = "poll" /\ inbox' = inbox /\ fault = "none" /\ sig = 0
      BY <2>1 DEF Signal
    <3>2. CASE sig' = 1
      BY <3>2 DEF W
    <3>3. CASE sig' # 1
      <4>1. mpc \in {"closelog", "waitlog"} /\ is_close # "null"
        BY <2>1, <3>1, <3>3 DEF Signal
      <4>2. deleted = W
        BY <4>1 DEF PoolInv, Deleting, InClose
      <4>3. is_close = "yes"
        BY <3>1, <4>1, <4>2 DEF PoolInv, Deleting, PMTypeOK
      <4> QED
        BY <3>1, <4>3 DEF PoolInv, StopSeen
    <3> QED
      BY <3>2, <3>3
  <2> QED
    BY <2>1 DEF StopSeen
<1>6. SignalSafe'
  BY DEF PoolInv, SignalSafe, Flag, Deleting, InClose, Signal
<1>7. LogInv'
  BY DEF PoolInv, LogInv, LogComplete, Signal
<1> QED
  BY <1>1, <1>2, <1>3, <1>4, <1>5, <1>6, <1>7 DEF PoolInv

\* Stop() sends 'C' to the next worker.
LEMMA StopSendStep ==
  ASSUME PoolInv, StopSend
  PROVE  PoolInv'
<1>1. PMTypeOK'
  <2>1. sig \in 1..N /\ N \in Nat /\ inbox \in [W -> Nat]
    BY PoolManagerAssumption DEF PoolInv, PMTypeOK, StopSend
  <2>2. sig' \in 0..N
    BY <2>1 DEF StopSend
  <2>3. inbox' \in [W -> Nat]
    <3>1. [inbox EXCEPT ![sig] = @ + 1] \in [W -> Nat]
      BY <2>1 DEF W
    <3> QED
      BY <2>1, <3>1 DEF StopSend
  <2> QED
    BY <2>2, <2>3 DEF PoolInv, PMTypeOK, StopSend, master
<1>2. Forked'
  BY DEF PoolInv, Forked, Known, StopSend, master
<1>3. Deleting'
  BY DEF PoolInv, Deleting, InClose, Forked, StopSend, master
<1>4. Flag'
  BY DEF PoolInv, Flag, StopSend, master
<1>5. StopSeen'
  <2>1. ASSUME fault' = "none", NEW w \in W, child'[w] = "poll", is_close' = "yes"
        PROVE  inbox'[w] > 0 \/ sig' \in 1..w
    <3>1. /\ child[w] = "poll" /\ is_close = "yes" /\ fault = "none" /\ sig \in 1..N
          /\ sig \notin deleted /\ w \in 1..N /\ N \in Nat
      BY <2>1, PoolManagerAssumption DEF PoolInv, PMTypeOK, StopSend, master, W
    <3>2. /\ inbox' = IF child[sig] \in Living \ {"boot"} THEN [inbox EXCEPT ![sig] = @ + 1] ELSE inbox
          /\ sig' = IF sig = N THEN 0 ELSE sig + 1
      BY <3>1 DEF StopSend
    <3>3. inbox \in [W -> Nat]
      BY DEF PoolInv, PMTypeOK
    <3>4. CASE w = sig
      BY <3>1, <3>2, <3>3, <3>4 DEF Living
    <3>5. CASE sig < w
      BY <3>1, <3>2, <3>5
    <3>6. CASE w < sig
      <4>1. inbox[w] > 0
        BY <3>1, <3>6 DEF PoolInv, StopSeen
      <4> QED
        BY <3>1, <3>2, <3>3, <3>6, <4>1
    <3> QED
      BY <3>1, <3>4, <3>5, <3>6
  <2> QED
    BY <2>1 DEF StopSeen
<1>6. SignalSafe'
  <2>1. SignalSafe /\ Deleting /\ sig # 0 /\ fault = "none" /\ UNCHANGED <<mpc, at, log>>
    BY DEF PoolInv, StopSend, master
  <2>2. CASE sig \in deleted
    <3>1. mpc = "close" /\ sig \in 1..(at - 1) /\ fault' = "freed"
      BY <2>1, <2>2 DEF Deleting, StopSend
    <3>2. at \in Nat
      BY DEF PoolInv, PMTypeOK, W
    <3> QED
      BY <2>1, <3>1, <3>2 DEF SignalSafe
  <2>3. CASE sig \notin deleted
    <3>1. fault' = "none"
      BY <2>1, <2>3 DEF StopSend
    <3> QED
      BY <3>1 DEF SignalSafe
  <2> QED
    BY <2>2, <2>3
<1>7. LogInv'
  BY DEF PoolInv, LogInv, LogComplete, StopSend, master
<1> QED
  BY <1>1, <1>2, <1>3, <1>4, <1>5, <1>6, <1>7 DEF PoolInv

\* A worker has its socket.
LEMMA BootStep ==
  ASSUME PoolInv, NEW w \in W, Boot(w)
  PROVE  PoolInv'
<1>1. PMTypeOK'
  BY DEF PoolInv, PMTypeOK, Living, Boot, env
<1>2. Forked'
  BY DEF PoolInv, Forked, Known, Boot, env
<1>3. Deleting'
  BY DEF PoolInv, Deleting, InClose, Forked, PMTypeOK, Boot, env
<1>4. Flag'
  BY DEF PoolInv, Flag, Boot, env
<1>5. StopSeen'
  BY DEF PoolInv, StopSeen, Flag, Boot, env
<1>6. SignalSafe'
  BY DEF PoolInv, SignalSafe, Flag, Deleting, InClose, Boot, env
<1>7. LogInv'
  BY DEF PoolInv, LogInv, LogComplete, Boot, env
<1> QED
  BY <1>1, <1>2, <1>3, <1>4, <1>5, <1>6, <1>7 DEF PoolInv

\* A thread of a worker waits.
LEMMA ParkStep ==
  ASSUME PoolInv, NEW w \in W, Park(w)
  PROVE  PoolInv'
<1>1. PMTypeOK'
  BY DEF PoolInv, PMTypeOK, Park, env
<1>2. Forked'
  BY DEF PoolInv, Forked, Known, Park, env
<1>3. Deleting'
  BY DEF PoolInv, Deleting, InClose, Forked, Park, env
<1>4. Flag'
  BY DEF PoolInv, Flag, Park, env
<1>5. StopSeen'
  BY DEF PoolInv, StopSeen, Flag, Park, env
<1>6. SignalSafe'
  BY DEF PoolInv, SignalSafe, Flag, Deleting, InClose, Park, env
<1>7. LogInv'
  BY DEF PoolInv, LogInv, LogComplete, Park, env
<1> QED
  BY <1>1, <1>2, <1>3, <1>4, <1>5, <1>6, <1>7 DEF PoolInv

\* A worker that sees the flag leaves.
LEMMA TestStep ==
  ASSUME PoolInv, NEW w \in W, Test(w)
  PROVE  PoolInv'
<1>1. PMTypeOK'
  BY DEF PoolInv, PMTypeOK, Living, Test, env
<1>2. Forked'
  BY DEF PoolInv, Forked, Known, Test, env
<1>3. Deleting'
  BY DEF PoolInv, Deleting, InClose, Forked, PMTypeOK, Test, env
<1>4. Flag'
  BY DEF PoolInv, Flag, Test, env
<1>5. StopSeen'
  BY DEF PoolInv, StopSeen, Flag, Test, env
<1>6. SignalSafe'
  BY DEF PoolInv, SignalSafe, Flag, Deleting, InClose, Test, env
<1>7. LogInv'
  BY DEF PoolInv, LogInv, LogComplete, Test, env
<1> QED
  BY <1>1, <1>2, <1>3, <1>4, <1>5, <1>6, <1>7 DEF PoolInv

\* A worker reads 'C', which was sent after the flag was stored.
LEMMA RecvCStep ==
  ASSUME PoolInv, NEW w \in W, RecvC(w)
  PROVE  PoolInv'
<1>1. PMTypeOK'
  BY DEF PoolInv, PMTypeOK, Living, RecvC
<1>2. Forked'
  BY DEF PoolInv, Forked, Known, RecvC
<1>3. Deleting'
  BY DEF PoolInv, Deleting, InClose, Forked, RecvC
<1>4. Flag'
  BY DEF PoolInv, Flag, RecvC
<1>5. StopSeen'
  BY DEF PoolInv, StopSeen, Flag, PMTypeOK, RecvC
<1>6. SignalSafe'
  BY DEF PoolInv, SignalSafe, Flag, Deleting, InClose, RecvC
<1>7. LogInv'
  BY DEF PoolInv, LogInv, LogComplete, RecvC
<1> QED
  BY <1>1, <1>2, <1>3, <1>4, <1>5, <1>6, <1>7 DEF PoolInv

\* Five seconds are over.
LEMMA PollTimeoutStep ==
  ASSUME PoolInv, NEW w \in W, PollTimeout(w)
  PROVE  PoolInv'
<1>1. PMTypeOK'
  BY DEF PoolInv, PMTypeOK, Living, PollTimeout, env
<1>2. Forked'
  BY DEF PoolInv, Forked, Known, PollTimeout, env
<1>3. Deleting'
  BY DEF PoolInv, Deleting, InClose, Forked, PMTypeOK, PollTimeout, env
<1>4. Flag'
  BY DEF PoolInv, Flag, PollTimeout, env
<1>5. StopSeen'
  BY DEF PoolInv, StopSeen, Flag, PollTimeout, env
<1>6. SignalSafe'
  BY DEF PoolInv, SignalSafe, Flag, Deleting, InClose, PollTimeout, env
<1>7. LogInv'
  BY DEF PoolInv, LogInv, LogComplete, PollTimeout, env
<1> QED
  BY <1>1, <1>2, <1>3, <1>4, <1>5, <1>6, <1>7 DEF PoolInv

\* A worker ends, or hangs.
LEMMA LeaveStep ==
  ASSUME PoolInv, NEW w \in W, Leave(w)
  PROVE  PoolInv'
<1>1. PMTypeOK'
  BY DEF PoolInv, PMTypeOK, Living, Leave, env
<1>2. Forked'
  BY DEF PoolInv, Forked, Known, Leave, env
<1>3. Deleting'
  BY DEF PoolInv, Deleting, InClose, Forked, PMTypeOK, Leave, env
<1>4. Flag'
  BY DEF PoolInv, Flag, Leave, env
<1>5. StopSeen'
  BY DEF PoolInv, StopSeen, Flag, Leave, env
<1>6. SignalSafe'
  BY DEF PoolInv, SignalSafe, Flag, Deleting, InClose, Leave, env
<1>7. LogInv'
  BY DEF PoolInv, LogInv, LogComplete, Leave, env
<1> QED
  BY <1>1, <1>2, <1>3, <1>4, <1>5, <1>6, <1>7 DEF PoolInv

\* A worker dies.
LEMMA CrashStep ==
  ASSUME PoolInv, NEW w \in W, Crash(w)
  PROVE  PoolInv'
<1>1. PMTypeOK'
  BY DEF PoolInv, PMTypeOK, Crash, env
<1>2. Forked'
  BY DEF PoolInv, Forked, Known, Crash, env
<1>3. Deleting'
  BY DEF PoolInv, Deleting, InClose, Forked, PMTypeOK, Crash, env
<1>4. Flag'
  BY DEF PoolInv, Flag, Crash, env
<1>5. StopSeen'
  BY DEF PoolInv, StopSeen, Flag, Crash, env
<1>6. SignalSafe'
  BY DEF PoolInv, SignalSafe, Flag, Deleting, InClose, Crash, env
<1>7. LogInv'
  BY DEF PoolInv, LogInv, LogComplete, Crash, env
<1> QED
  BY <1>1, <1>2, <1>3, <1>4, <1>5, <1>6, <1>7 DEF PoolInv

\* A worker logs, and is not deleted unless a signal interrupted Close().
LEMMA LogStep ==
  ASSUME PoolInv, NEW w \in W, Log(w)
  PROVE  PoolInv'
<1>1. PMTypeOK'
  BY DEF PoolInv, PMTypeOK, Log, env
<1>2. Forked'
  BY DEF PoolInv, Forked, Known, Log, env
<1>3. Deleting'
  BY DEF PoolInv, Deleting, InClose, Forked, Log, env
<1>4. Flag'
  BY DEF PoolInv, Flag, Log, env
<1>5. StopSeen'
  BY DEF PoolInv, StopSeen, Flag, Log, env
<1>6. SignalSafe'
  BY DEF PoolInv, SignalSafe, Flag, Deleting, InClose, Log, env
<1>7. LogInv'
  <2>1. CASE mpc \notin {"waitlog", "done"}
    <3>1. \A i \in DOMAIN logq' : logq'[i] # "c"
      BY <2>1 DEF PoolInv, LogInv, Log
    <3> QED
      BY <2>1, <3>1 DEF LogInv, LogComplete, Log, env
  <2>2. CASE mpc \in {"waitlog", "done"}
    <3>1. skipped
      BY <2>2 DEF PoolInv, Deleting, InClose, Log
    <3> QED
      BY <2>2, <3>1 DEF LogInv, LogComplete, Log, env
  <2> QED
    BY <2>1, <2>2
<1> QED
  BY <1>1, <1>2, <1>3, <1>4, <1>5, <1>6, <1>7 DEF PoolInv

\* The log process works.
LEMMA LogRunStep ==
  ASSUME PoolInv, LogRun
  PROVE  PoolInv'
<1>1. PMTypeOK'
  <2>1. logq' \in Seq({"l", "c"})
    <3>1. logq \in Seq({"l", "c"})
      BY DEF PoolInv, PMTypeOK
    <3>2. logq # <<>> => Tail(logq) \in Seq({"l", "c"})
      BY <3>1
    <3> QED
      BY <3>1, <3>2 DEF LogRun
  <2> QED
    BY <2>1 DEF PoolInv, PMTypeOK, LogRun, master
<1>2. Forked'
  BY DEF PoolInv, Forked, Known, LogRun, master
<1>3. Deleting'
  BY DEF PoolInv, Deleting, InClose, Forked, LogRun, master
<1>4. Flag'
  BY DEF PoolInv, Flag, LogRun, master
<1>5. StopSeen'
  BY DEF PoolInv, StopSeen, Flag, LogRun, master
<1>6. SignalSafe'
  BY DEF PoolInv, SignalSafe, Flag, Deleting, InClose, LogRun, master
<1>7. LogInv'
  <2>1. CASE UNCHANGED logq
    BY <2>1 DEF PoolInv, LogInv, LogComplete, LogRun, master
  <2>2. CASE logq # <<>> /\ logq' = Tail(logq)
    <3>1. /\ logq \in Seq({"l", "c"}) /\ Len(logq) \in Nat \ {0}
          /\ DOMAIN logq = 1..Len(logq)
      BY <2>2 DEF PoolInv, PMTypeOK
    <3>2. /\ DOMAIN logq' = 1..(Len(logq) - 1) /\ Len(logq') = Len(logq) - 1
          /\ \A i \in 1..(Len(logq) - 1) : logq'[i] = logq[i + 1]
      BY <2>2, <3>1
    <3>3. \A i \in 1..(Len(logq) - 1) : i + 1 \in 1..Len(logq)
      BY <3>1
    <3>4. LogComplete'
      BY <3>1, <3>2, <3>3 DEF PoolInv, LogInv, LogComplete, LogRun, master
    <3>5. mpc \notin {"waitlog", "done"} => \A i \in DOMAIN logq' : logq'[i] # "c"
      BY <3>1, <3>2, <3>3 DEF PoolInv, LogInv
    <3>6. mpc' = mpc /\ skipped' = skipped /\ (log \in {"none", "reaped"} => log' = log)
      BY DEF LogRun, master
    <3> QED
      BY <3>4, <3>5, <3>6 DEF PoolInv, LogInv
  <2> QED
    BY <2>1, <2>2 DEF LogRun
<1> QED
  BY <1>1, <1>2, <1>3, <1>4, <1>5, <1>6, <1>7 DEF PoolInv

\* The log process dies.
LEMMA LogAbortStep ==
  ASSUME PoolInv, LogAbort
  PROVE  PoolInv'
<1>1. PMTypeOK'
  BY DEF PoolInv, PMTypeOK, LogAbort, master
<1>2. Forked'
  BY DEF PoolInv, Forked, Known, LogAbort, master
<1>3. Deleting'
  BY DEF PoolInv, Deleting, InClose, Forked, LogAbort, master
<1>4. Flag'
  BY DEF PoolInv, Flag, LogAbort, master
<1>5. StopSeen'
  BY DEF PoolInv, StopSeen, Flag, LogAbort, master
<1>6. SignalSafe'
  BY DEF PoolInv, SignalSafe, Flag, Deleting, InClose, LogAbort, master
<1>7. LogInv'
  BY DEF PoolInv, LogInv, LogComplete, LogAbort, master
<1> QED
  BY <1>1, <1>2, <1>3, <1>4, <1>5, <1>6, <1>7 DEF PoolInv

------------------------------------------------------------------------------
(* The theorems.                                                           *)

\* Before Loop() nothing was forked and the flag is not there.
LEMMA PoolInit == PMInit => PoolInv
<1> SUFFICES ASSUME PMInit PROVE PoolInv
  OBVIOUS
<1>1. PMTypeOK
  <2>1. at \in W /\ sig \in 0..N
    BY PoolManagerAssumption DEF PMInit, W
  <2>2. logq \in Seq({"l", "c"})
    BY DEF PMInit
  <2> QED
    BY <2>1, <2>2 DEF PMInit, PMTypeOK
<1>2. Forked /\ Deleting /\ Flag
  BY DEF PMInit, Forked, Deleting, InClose, Flag
<1>3. StopSeen /\ SignalSafe /\ LogInv
  BY DEF PMInit, StopSeen, SignalSafe, LogInv, LogComplete
<1> QED
  BY <1>1, <1>2, <1>3 DEF PoolInv

\* The invariant is inductive.
LEMMA PoolStep ==
  ASSUME PoolInv, [PMNext]_pmVars
  PROVE  PoolInv'
<1>1. CASE MasterStep
  BY <1>1, ForkLogStep, ShmStep, ForkWorkerStep, WaitOtherStep, ReforkStep, WaitWorkerStep,
     CloseWorkerStep, CloseLogStep, WaitLogStep, StopSendStep
     DEF MasterStep
<1>2. CASE ForkFails \/ Signal
  BY <1>2, ForkFailsStep, SignalStep
<1>3. ASSUME NEW w \in W, WorkerStep(w) \/ Park(w) \/ Crash(w) \/ Log(w)
      PROVE  PoolInv'
  BY <1>3, BootStep, TestStep, RecvCStep, PollTimeoutStep, LeaveStep, ParkStep, CrashStep, LogStep
     DEF WorkerStep
<1>4. CASE LogRun \/ LogAbort
  BY <1>4, LogRunStep, LogAbortStep
<1>5. CASE UNCHANGED pmVars
  <2>1. PMTypeOK' /\ Forked' /\ Deleting' /\ Flag'
    BY <1>5 DEF PoolInv, PMTypeOK, Forked, Known, Deleting, Flag, pmVars
  <2>2. StopSeen' /\ SignalSafe' /\ LogInv'
    BY <1>5 DEF PoolInv, StopSeen, SignalSafe, LogInv, LogComplete, pmVars
  <2> QED
    BY <2>1, <2>2 DEF PoolInv
<1> QED
  BY <1>1, <1>2, <1>3, <1>4, <1>5 DEF PMNext

\* Where the master is tells which workers have a process, and the flag is
\* stored before any 'C' is sent (Loop, Stop and Close of manager.cpp).
THEOREM PoolInvariant == PMSpec => []PoolInv
  BY PoolInit, PoolStep, PTL DEF PMSpec

\* For every number of workers: a worker that waits for events while the flag
\* is set has a 'C' at its socket or will be sent one, also when it was forked
\* again while Stop() ran, and Stop() touches memory that is not there only
\* before Loop() has the flag and while Close() deletes the workers.
THEOREM StopCorrect == PMSpec => []StopOK
<1>1. PoolInv => StopOK
  BY DEF PoolInv, StopOK
<1> QED
  BY <1>1, PoolInvariant, PTL

\* While Loop() waits it knows the process of every worker; when Close()
\* returns no process is left, and the log process has ended after the last
\* message, unless a signal interrupted a waitpid of Close() (manager.cpp).
THEOREM CloseCorrect == PMSpec => []CloseOK
<1>1. PoolInv => Reaped
  BY DEF PoolInv, Reaped, Forked, Known, Deleting, InClose, LogInv
<1>2. PoolInv => LogComplete
  BY DEF PoolInv, LogInv
<1> QED
  BY <1>1, <1>2, PoolInvariant, PTL DEF CloseOK
==============================================================================
