--------------------------- MODULE CycleList_proofs ---------------------------
(***************************************************************************)
(* Proofs about CycleList for every set of nodes: the pointers always form *)
(* the two lists, so no thread touches a deleted node, no command has two  *)
(* holders, nothing is leaked, and the list implements CmdChannel.  And    *)
(* about TransferCmd, the commands the list recycles, and Lists, the other *)
(* two containers of container.h.                                          *)
(***************************************************************************)
EXTENDS CycleList, TransferCmd, Lists, SequenceTheorems, WellFoundedInduction, TLAPS

------------------------------------------------------------------------------
(* Sequences of nodes as lists in memory.                                  *)

\* What Tail does to a list of nodes.
LEMMA TailFacts ==
  ASSUME NEW s \in Seq(Node), s # <<>>
  PROVE  /\ Tail(s) \in Seq(Node)
         /\ Len(s) \in Nat /\ Len(s) > 0
         /\ Len(Tail(s)) = Len(s) - 1
         /\ \A i \in 1..Len(Tail(s)) : Tail(s)[i] = s[i + 1]
         /\ s[1] \in Node
  OBVIOUS

\* Only the empty list has length zero.
LEMMA EmptyIffNoLen ==
  ASSUME NEW s \in Seq(Node)
  PROVE  (s = <<>>) <=> (Len(s) = 0)
  OBVIOUS

\* What Append does to a list of nodes.
LEMMA AppendFacts ==
  ASSUME NEW s \in Seq(Node), NEW x \in Node
  PROVE  /\ Append(s, x) \in Seq(Node)
         /\ Append(s, x) # <<>>
         /\ Len(s) \in Nat
         /\ Len(Append(s, x)) = Len(s) + 1
         /\ \A i \in 1..Len(s) : Append(s, x)[i] = s[i]
         /\ Append(s, x)[Len(s) + 1] = x
  OBVIOUS

\* Cutting off the first node removes it and nothing else.
LEMMA ElemsTail ==
  ASSUME NEW s \in Seq(Node), s # <<>>,
         \A i, j \in 1..Len(s) : s[i] = s[j] => i = j
  PROVE  /\ Elems(Tail(s)) = Elems(s) \ {s[1]}
         /\ s[1] \in Elems(s)
  <1>1. /\ Len(s) \in Nat /\ Len(s) > 0
        /\ Len(Tail(s)) = Len(s) - 1
        /\ \A i \in 1..Len(Tail(s)) : Tail(s)[i] = s[i + 1]
    BY TailFacts
  <1>2. ASSUME NEW n \in Elems(Tail(s)) PROVE n \in Elems(s) \ {s[1]}
    <2>1. PICK i \in 1..Len(Tail(s)) : n = Tail(s)[i]
      BY DEF Elems
    <2>2. i + 1 \in 1..Len(s) /\ 1 \in 1..Len(s) /\ i + 1 # 1 /\ n = s[i + 1]
      BY <1>1, <2>1
    <2>3. n # s[1]
      BY <2>2
    <2> QED BY <2>2, <2>3 DEF Elems
  <1>3. ASSUME NEW n \in Elems(s) \ {s[1]} PROVE n \in Elems(Tail(s))
    <2>1. PICK i \in 1..Len(s) : n = s[i]
      BY DEF Elems
    <2>2. i # 1
      BY <2>1
    <2>3. i - 1 \in 1..Len(Tail(s)) /\ Tail(s)[i - 1] = s[i]
      BY <1>1, <2>2
    <2> QED BY <2>1, <2>3 DEF Elems
  <1>4. s[1] \in Elems(s)
    BY <1>1 DEF Elems
  <1> QED BY <1>2, <1>3, <1>4

\* Appending a node adds it and nothing else.
LEMMA ElemsAppend ==
  ASSUME NEW s \in Seq(Node), NEW x \in Node
  PROVE  Elems(Append(s, x)) = Elems(s) \cup {x}
  <1>1. /\ Len(s) \in Nat
        /\ Len(Append(s, x)) = Len(s) + 1
        /\ \A i \in 1..Len(s) : Append(s, x)[i] = s[i]
        /\ Append(s, x)[Len(s) + 1] = x
    BY AppendFacts
  <1>2. ASSUME NEW n \in Elems(Append(s, x)) PROVE n \in Elems(s) \cup {x}
    BY <1>1 DEF Elems
  <1>3. ASSUME NEW n \in Elems(s) \cup {x} PROVE n \in Elems(Append(s, x))
    BY <1>1 DEF Elems
  <1> QED BY <1>2, <1>3

\* A write to a node that is not on a list leaves the list as it is.
LEMMA LinkedElsewhere ==
  ASSUME NEW nx \in [Node -> PtrOrNull], NEW s \in Seq(Node), Linked(nx, s),
         NEW n \in Node, n \notin Elems(s), NEW y \in PtrOrNull
  PROVE  Linked([nx EXCEPT ![n] = y], s)
  <1>1. \A i \in 1..Len(s) : s[i] # n /\ s[i] \in Node
    BY DEF Elems
  <1> QED BY <1>1 DEF Linked

\* Advancing past the first node leaves a list, whatever is then written to it.
LEMMA LinkedTail ==
  ASSUME NEW nx \in [Node -> PtrOrNull], NEW s \in Seq(Node), s # <<>>, Linked(nx, s)
  PROVE  Linked(nx, Tail(s))
  <1>1. /\ Len(s) \in Nat /\ Len(s) > 0
        /\ Len(Tail(s)) = Len(s) - 1
        /\ \A i \in 1..Len(Tail(s)) : Tail(s)[i] = s[i + 1]
    BY TailFacts
  <1>2. ASSUME NEW i \in 1..Len(Tail(s))
        PROVE  nx[Tail(s)[i]] = IF i < Len(Tail(s)) THEN Tail(s)[i + 1] ELSE NULL
    <2>1. i + 1 \in 1..Len(s) /\ Tail(s)[i] = s[i + 1]
      BY <1>1
    <2>2. nx[s[i + 1]] = IF i + 1 < Len(s) THEN s[i + 1 + 1] ELSE NULL
      BY <2>1 DEF Linked
    <2>3. CASE i < Len(Tail(s))
      <3>1. i + 1 \in 1..Len(Tail(s)) /\ i + 1 < Len(s)
        BY <1>1, <2>3
      <3> QED BY <1>1, <2>1, <2>2, <2>3, <3>1
    <2>4. CASE ~ (i < Len(Tail(s)))
      BY <1>1, <2>1, <2>2, <2>4
    <2> QED BY <2>3, <2>4
  <1>3. ASSUME NEW i \in 1..Len(Tail(s)), NEW j \in 1..Len(Tail(s)),
               Tail(s)[i] = Tail(s)[j]
        PROVE  i = j
    <2>1. i + 1 \in 1..Len(s) /\ j + 1 \in 1..Len(s) /\ s[i + 1] = s[j + 1]
      BY <1>1, <1>3
    <2>2. i + 1 = j + 1
      BY <2>1 DEF Linked
    <2> QED BY <1>1, <2>2
  <1> QED BY <1>2, <1>3 DEF Linked

\* Linking a node after the last one gives the longer list.
LEMMA LinkedAppend ==
  ASSUME NEW nx \in [Node -> PtrOrNull], NEW s \in Seq(Node), s # <<>>, Linked(nx, s),
         NEW x \in Node, x \notin Elems(s), nx[x] = NULL
  PROVE  Linked([nx EXCEPT ![s[Len(s)]] = x], Append(s, x))
  <1> DEFINE t == Append(s, x)
             ny == [nx EXCEPT ![s[Len(s)]] = x]
  <1>1. /\ Len(s) \in Nat /\ Len(s) > 0
        /\ Len(t) = Len(s) + 1
        /\ \A i \in 1..Len(s) : t[i] = s[i]
        /\ t[Len(s) + 1] = x
        /\ \A i \in 1..Len(s) : s[i] \in Node /\ s[i] # x
    BY AppendFacts, TailFacts DEF Elems
  <1>2. ASSUME NEW i \in 1..Len(t)
        PROVE  ny[t[i]] = IF i < Len(t) THEN t[i + 1] ELSE NULL
    <2>1. CASE i = Len(s) + 1
      <3>1. t[i] = x /\ x # s[Len(s)] /\ ~ (i < Len(t))
        BY <1>1, <2>1
      <3> QED BY <3>1
    <2>2. CASE i = Len(s)
      <3>1. t[i] = s[Len(s)] /\ i < Len(t) /\ t[i + 1] = x /\ s[Len(s)] \in Node
        BY <1>1, <2>2
      <3> QED BY <3>1
    <2>3. CASE i < Len(s)
      <3>1. i \in 1..Len(s) /\ i + 1 \in 1..Len(s) /\ Len(s) \in 1..Len(s) /\ i # Len(s)
        BY <1>1, <2>3
      <3>2. t[i] = s[i] /\ t[i + 1] = s[i + 1] /\ i < Len(t) /\ s[i] \in Node
        BY <1>1, <2>3, <3>1
      <3>3. s[i] # s[Len(s)]
        BY <3>1 DEF Linked
      <3>4. nx[s[i]] = s[i + 1]
        BY <2>3, <3>1 DEF Linked
      <3> QED BY <3>2, <3>3, <3>4
    <2> QED BY <1>1, <2>1, <2>2, <2>3
  <1>3. ASSUME NEW i \in 1..Len(t), NEW j \in 1..Len(t), t[i] = t[j]
        PROVE  i = j
    <2>1. CASE i \in 1..Len(s) /\ j \in 1..Len(s)
      BY <1>1, <1>3, <2>1 DEF Linked
    <2>2. CASE i = Len(s) + 1 \/ j = Len(s) + 1
      BY <1>1, <1>3, <2>2
    <2> QED BY <1>1, <2>1, <2>2
  <1> HIDE DEF t, ny
  <1>4. Linked(ny, t)
    BY <1>2, <1>3 DEF Linked
  <1> QED BY <1>4 DEF t, ny

------------------------------------------------------------------------------
(* The invariant.                                                          *)

IInv == TypeOK /\ ListInv /\ NoLeak

\* SetupQueue leaves the two placeholders on the two lists.
LEMMA InitInv == Init => IInv
  <1> SUFFICES ASSUME Init PROVE IInv
    OBVIOUS
  <1>1. /\ chain \in Seq(Node) /\ Len(chain) = 1 /\ chain[1] = Head0
        /\ cycle \in Seq(Node) /\ Len(cycle) = 1 /\ cycle[1] = Cycle0
        /\ chain # <<>> /\ cycle # <<>>
    BY NodeAssumption DEF Init
  <1>2. Elems(chain) = {Head0} /\ Elems(cycle) = {Cycle0}
    BY <1>1 DEF Elems
  <1>3. TypeOK
    BY <1>1, NodeAssumption DEF Init, TypeOK, PtrOrNull, SenderPc, ReceiverPc
  <1>4. SenderHolds = {} /\ ReceiverHolds = {}
    BY DEF Init, SenderHolds, ReceiverHolds
  <1>5. ListInv
    <2>1. WellLinked
      <3>1. Linked(next, chain) /\ Linked(next, cycle)
        <4>1. next[chain[1]] = NULL /\ next[cycle[1]] = NULL
          BY <1>1, NodeAssumption DEF Init
        <4> QED BY <1>1, <4>1 DEF Linked
      <3> QED BY <1>2, <3>1, NodeAssumption DEF WellLinked, Disjoint
    <2>2. Ends
      BY <1>1 DEF Init, Ends, ChainHead
    <2>3. Ownership /\ SenderView /\ ReceiverView /\ Closing
      BY <1>4 DEF Init, Ownership, Disjoint, SenderView, ReceiverView, Closing
    <2> QED BY <2>1, <2>2, <2>3 DEF ListInv
  <1>6. NoLeak
    BY <1>2, <1>4 DEF Init, NoLeak
  <1> QED BY <1>3, <1>5, <1>6 DEF IInv

\* What the invariant says of an open list, in the form the steps below use.
LEMMA OpenFacts ==
  ASSUME IInv, phase = "open"
  PROVE  /\ chain \in Seq(Node) /\ chain # <<>> /\ Len(chain) \in Nat /\ Len(chain) > 0
         /\ cycle \in Seq(Node) /\ cycle # <<>> /\ Len(cycle) \in Nat /\ Len(cycle) > 0
         /\ chain[1] = ChainHead /\ chain[1] \in Node /\ chain[1] \in Elems(chain)
         /\ cycle[1] = cycle_head_ /\ cycle[1] \in Node /\ cycle[1] \in Elems(cycle)
         /\ chain[Len(chain)] \in Elems(chain) /\ cycle[Len(cycle)] \in Elems(cycle)
         /\ Elems(chain) \subseteq Node /\ Elems(cycle) \subseteq Node
         /\ next[chain[1]] = IF 1 < Len(chain) THEN chain[2] ELSE NULL
         /\ next[cycle[1]] = IF 1 < Len(cycle) THEN cycle[2] ELSE NULL
         /\ 1 < Len(chain) => chain[2] \in Node
         /\ 1 < Len(cycle) => cycle[2] \in Node
  <1>1. /\ chain \in Seq(Node) /\ chain # <<>> /\ cycle \in Seq(Node) /\ cycle # <<>>
        /\ chain[1] = ChainHead /\ cycle[1] = cycle_head_
    BY DEF IInv, TypeOK, ListInv, Ends
  <1>2. /\ Len(chain) \in Nat /\ Len(chain) > 0 /\ chain[1] \in Node
        /\ Len(cycle) \in Nat /\ Len(cycle) > 0 /\ cycle[1] \in Node
    BY <1>1, TailFacts
  <1>3. /\ 1 \in 1..Len(chain) /\ Len(chain) \in 1..Len(chain)
        /\ 1 \in 1..Len(cycle) /\ Len(cycle) \in 1..Len(cycle)
    BY <1>2
  <1>4. /\ chain[1] \in Elems(chain) /\ chain[Len(chain)] \in Elems(chain)
        /\ cycle[1] \in Elems(cycle) /\ cycle[Len(cycle)] \in Elems(cycle)
    BY <1>3 DEF Elems
  <1>5. Elems(chain) \subseteq Node /\ Elems(cycle) \subseteq Node
    BY <1>1 DEF Elems
  <1>6. Linked(next, chain) /\ Linked(next, cycle)
    BY DEF IInv, ListInv, WellLinked
  <1>7. /\ next[chain[1]] = IF 1 < Len(chain) THEN chain[1 + 1] ELSE NULL
        /\ next[cycle[1]] = IF 1 < Len(cycle) THEN cycle[1 + 1] ELSE NULL
    BY <1>3, <1>6 DEF Linked
  <1>8. (1 < Len(chain) => chain[2] \in Node) /\ (1 < Len(cycle) => cycle[2] \in Node)
    BY <1>1, <1>2
  <1>9. 1 + 1 = 2
    OBVIOUS
  <1>10. /\ next[chain[1]] = IF 1 < Len(chain) THEN chain[2] ELSE NULL
         /\ next[cycle[1]] = IF 1 < Len(cycle) THEN cycle[2] ELSE NULL
    BY <1>7, <1>9
  <1> QED BY <1>1, <1>2, <1>4, <1>5, <1>8, <1>10

\* GetCycle's loop test only reads.
LEMMA GetCycleTestInv == IInv /\ GetCycleTest => IInv'
  <1> SUFFICES ASSUME IInv, GetCycleTest PROVE IInv'
    OBVIOUS
  <1> USE DEF IInv, GetCycleTest, listVars, nodeVars, rVars, auxVars
  <1>0. /\ Len(cycle) \in Nat /\ Len(cycle) > 0
        /\ cycle_head_ = cycle[1] /\ cycle_head_ \in Node
        /\ next[cycle_head_] # NULL => 1 < Len(cycle)
    BY OpenFacts
  <1>1. TypeOK'
    BY <1>0 DEF TypeOK, PtrOrNull, SenderPc
  <1>2. SenderHolds' = SenderHolds /\ ReceiverHolds' = ReceiverHolds /\ SenderHolds = {}
    BY DEF SenderHolds, ReceiverHolds
  <1>3. ListInv'
    BY <1>0, <1>2
    DEF ListInv, WellLinked, Ends, ChainHead, Ownership, SenderView, ReceiverView, Closing
  <1>4. NoLeak'
    BY <1>2 DEF NoLeak
  <1> QED BY <1>1, <1>3, <1>4

\* GetCycle takes the first node of the free list; there is another one after it,
\* so cycle_tail_ is not the node it takes.
LEMMA GetCycleAdvanceInv == IInv /\ GetCycleAdvance => IInv'
  <1> SUFFICES ASSUME IInv, GetCycleAdvance PROVE IInv'
    OBVIOUS
  <1> USE DEF IInv, GetCycleAdvance, nodeVars, rVars
  <1>1. /\ cycle \in Seq(Node) /\ cycle # <<>> /\ Len(cycle) \in Nat
        /\ cycle[1] = cycle_head_ /\ cycle[1] \in Node /\ cycle[1] \in Elems(cycle)
        /\ Len(cycle) > 1 /\ data = cycle[1] /\ data \in Node
        /\ cycle_head_' = cycle[2] /\ cycle[2] \in Node
    BY OpenFacts DEF ListInv, SenderView
  <1>2. /\ cycle' \in Seq(Node) /\ Len(cycle') = Len(cycle) - 1 /\ cycle' # <<>>
        /\ cycle'[1] = cycle[2] /\ cycle'[Len(cycle')] = cycle[Len(cycle)]
    BY <1>1, TailFacts
  <1>3. /\ Elems(cycle') = Elems(cycle) \ {cycle[1]}
        /\ Linked(next, cycle')
    BY <1>1, ElemsTail, LinkedTail DEF TypeOK, ListInv, WellLinked, Linked
  <1>4. /\ SenderHolds = {} /\ SenderHolds' = {data}
        /\ ReceiverHolds' = ReceiverHolds
    BY DEF SenderHolds, ReceiverHolds
  <1>5. cycle_tail_ # NULL /\ rpc \notin {"readcycle", "linkfirst"}
    BY <1>1 DEF ListInv, Ends
  <1>6. TypeOK'
    BY <1>1, <1>2 DEF TypeOK, PtrOrNull, SenderPc
  <1>7. WellLinked'
    BY <1>3 DEF ListInv, WellLinked, Disjoint
  <1>8. Ends'
    BY <1>1, <1>2, <1>5 DEF ListInv, Ends, ChainHead
  <1>9. Ownership'
    BY <1>1, <1>3, <1>4 DEF ListInv, Ownership, WellLinked, Disjoint
  <1>10. SenderView' /\ ReceiverView' /\ Closing'
    BY <1>1, <1>5 DEF ListInv, SenderView, ReceiverView, Closing
  <1>11. NoLeak'
    BY <1>1, <1>3, <1>4 DEF NoLeak
  <1> QED BY <1>6, <1>7, <1>8, <1>9, <1>10, <1>11 DEF ListInv

\* The node taken is on neither list when its next is cleared.
LEMMA GetCycleUnlinkInv == IInv /\ GetCycleUnlink => IInv'
  <1> SUFFICES ASSUME IInv, GetCycleUnlink PROVE IInv'
    OBVIOUS
  <1> USE DEF IInv, GetCycleUnlink, listVars, rVars, auxVars
  <1>1. /\ SenderHolds = {data} /\ SenderHolds' = {data}
        /\ ReceiverHolds' = ReceiverHolds
    BY DEF SenderHolds, ReceiverHolds
  <1>2. data \in Node /\ data \notin Elems(chain) /\ data \notin Elems(cycle)
    BY <1>1 DEF ListInv, Ownership, Disjoint
  <1>3. next' \in [Node -> PtrOrNull] /\ next'[data] = NULL
        /\ \A n \in Node : next[n] = NULL => next'[n] = NULL
    BY <1>2 DEF TypeOK, PtrOrNull
  <1>4. TypeOK'
    BY <1>3 DEF TypeOK, SenderPc
  <1>5. WellLinked'
    BY <1>2, LinkedElsewhere DEF TypeOK, ListInv, WellLinked, PtrOrNull
  <1>6. Ends'
    BY DEF ListInv, Ends, ChainHead
  <1>7. Ownership' /\ NoLeak'
    BY <1>1 DEF ListInv, Ownership, NoLeak
  <1>8. \A n \in ReceiverHolds : next'[n] = NULL
    BY <1>3 DEF ListInv, Ownership, ReceiverView, ReceiverHolds
  <1>9. SenderView' /\ ReceiverView' /\ Closing'
    BY <1>3, <1>8 DEF ListInv, SenderView, ReceiverView, Closing, ReceiverHolds
  <1> QED BY <1>4, <1>5, <1>6, <1>7, <1>9 DEF ListInv

\* GetCycle deletes a placeholder that only it still knows.
LEMMA GetCycleCheckInv == IInv /\ GetCycleCheck => IInv'
  <1> SUFFICES ASSUME IInv, GetCycleCheck PROVE IInv'
    OBVIOUS
  <1> USE DEF IInv, GetCycleCheck, listVars, rVars, auxVars
  <1>1. /\ SenderHolds = {data}
        /\ SenderHolds' = IF is_free[data] THEN {} ELSE {data}
        /\ ReceiverHolds' = ReceiverHolds
    BY DEF SenderHolds, ReceiverHolds
  <1>2. TypeOK'
    BY DEF TypeOK, PtrOrNull, SenderPc
  <1>3. WellLinked' /\ Ends'
    BY DEF ListInv, WellLinked, Ends, ChainHead
  <1>4. Ownership'
    BY <1>1 DEF ListInv, Ownership, Disjoint
  <1>5. SenderView' /\ ReceiverView' /\ Closing'
    BY DEF ListInv, SenderView, ReceiverView, Closing
  <1>6. NoLeak'
    BY <1>1 DEF NoLeak, ListInv, Ownership, Disjoint
  <1> QED BY <1>2, <1>3, <1>4, <1>5, <1>6 DEF ListInv

\* A new node is on neither list, because what is on a list is allocated.
LEMMA NewCmdInv == IInv /\ NewCmd => IInv'
  <1> SUFFICES ASSUME IInv, NewCmd PROVE IInv'
    OBVIOUS
  <1> USE DEF IInv, NewCmd, listVars, rVars, auxVars
  <1>1. PICK n \in Node \ live, free \in BOOLEAN :
               /\ live' = live \cup {n}
               /\ next' = [next EXCEPT ![n] = NULL]
               /\ is_free' = [is_free EXCEPT ![n] = free]
               /\ data' = n
    OBVIOUS
  <1>2. /\ SenderHolds = {} /\ SenderHolds' = {n}
        /\ ReceiverHolds' = ReceiverHolds
    BY <1>1 DEF SenderHolds, ReceiverHolds
  <1>3. n \notin Elems(chain) /\ n \notin Elems(cycle) /\ n \notin ReceiverHolds
    BY <1>2 DEF NoLeak
  <1>4. next' \in [Node -> PtrOrNull] /\ next'[n] = NULL
        /\ \A m \in Node : next[m] = NULL => next'[m] = NULL
    BY <1>1 DEF TypeOK, PtrOrNull
  <1>5. TypeOK'
    BY <1>1, <1>4 DEF TypeOK, SenderPc, PtrOrNull
  <1>6. WellLinked'
    BY <1>1, <1>3, LinkedElsewhere DEF TypeOK, ListInv, WellLinked, PtrOrNull
  <1>7. Ends'
    BY DEF ListInv, Ends, ChainHead
  <1>8. Ownership' /\ NoLeak'
    BY <1>1, <1>2, <1>3 DEF ListInv, Ownership, NoLeak, Disjoint
  <1>9. \A m \in ReceiverHolds : next'[m] = NULL
    BY <1>4 DEF ListInv, Ownership, ReceiverView, ReceiverHolds
  <1>10. SenderView' /\ ReceiverView' /\ Closing'
    BY <1>1, <1>4, <1>9 DEF ListInv, SenderView, ReceiverView, Closing, ReceiverHolds
  <1> QED BY <1>5, <1>6, <1>7, <1>8, <1>10 DEF ListInv

\* Insert links a command after the last node; the receiver may be on that node,
\* but has not cut it off.
LEMMA InsertLinkInv == IInv /\ InsertLink => IInv'
  <1> SUFFICES ASSUME IInv, InsertLink PROVE IInv'
    OBVIOUS
  <1> USE DEF IInv, InsertLink, rVars
  <1>1. /\ SenderHolds = {data} /\ SenderHolds' = {}
        /\ ReceiverHolds' = ReceiverHolds
    BY DEF SenderHolds, ReceiverHolds
  <1>2. /\ data \in Node /\ data \notin Elems(chain) /\ data \notin Elems(cycle)
        /\ data \notin ReceiverHolds /\ next[data] = NULL
    BY <1>1 DEF ListInv, Ownership, Disjoint, SenderView
  <1>3. /\ tail_ = chain[Len(chain)] /\ tail_ \in Elems(chain) /\ tail_ \in Node
        /\ chain \in Seq(Node) /\ chain # <<>> /\ Len(chain) \in Nat /\ Len(chain) > 0
    BY OpenFacts DEF ListInv, Ends
  <1>4. tail_ \notin Elems(cycle) /\ tail_ \notin ReceiverHolds
    BY <1>3 DEF ListInv, WellLinked, Ownership, Disjoint
  <1>5. /\ chain' \in Seq(Node) /\ Len(chain') = Len(chain) + 1 /\ chain' # <<>>
        /\ chain'[1] = chain[1] /\ chain'[Len(chain')] = data
        /\ Len(chain) > 1 => chain'[2] = chain[2]
    BY <1>2, <1>3, AppendFacts
  <1>6. Elems(chain') = Elems(chain) \cup {data}
    BY <1>2, <1>3, ElemsAppend
  <1>7. next' \in [Node -> PtrOrNull]
        /\ \A n \in Node : n # tail_ => next'[n] = next[n]
    BY <1>2, <1>3 DEF TypeOK, PtrOrNull
  <1>8. Linked(next', chain') /\ Linked(next', cycle)
    BY <1>2, <1>3, <1>4, LinkedAppend, LinkedElsewhere
    DEF TypeOK, ListInv, WellLinked, PtrOrNull
  <1>9. TypeOK'
    BY <1>2, <1>5, <1>7 DEF TypeOK, PtrOrNull, SenderPc
  <1>10. WellLinked'
    BY <1>2, <1>6, <1>8 DEF ListInv, WellLinked, Disjoint
  <1>11. Ends'
    BY <1>2, <1>3, <1>5, NodeAssumption DEF ListInv, Ends, ChainHead
  <1>12. Ownership' /\ NoLeak'
    BY <1>1, <1>2, <1>6 DEF ListInv, Ownership, Disjoint, NoLeak
  <1>13. \A n \in ReceiverHolds : next'[n] = NULL
    BY <1>4, <1>7 DEF ListInv, Ownership, ReceiverView, ReceiverHolds
  <1>14. SenderView' /\ ReceiverView' /\ Closing'
    BY <1>3, <1>5, <1>13 DEF ListInv, SenderView, ReceiverView, Closing, ReceiverHolds
  <1> QED BY <1>9, <1>10, <1>11, <1>12, <1>14 DEF ListInv

\* The first Insert: the receiver has never seen a command.
LEMMA InsertFirstInv == IInv /\ InsertFirst => IInv'
  <1> SUFFICES ASSUME IInv, InsertFirst PROVE IInv'
    OBVIOUS
  <1> USE DEF IInv, InsertFirst, nodeVars, rVars, auxVars
  <1>1. /\ SenderHolds' = SenderHolds /\ ReceiverHolds' = ReceiverHolds
    BY DEF SenderHolds, ReceiverHolds
  <1>2. TypeOK'
    BY DEF TypeOK, SenderPc
  <1>3. WellLinked' /\ Ends'
    BY DEF ListInv, WellLinked, Ends, ChainHead
  <1>4. Ownership' /\ NoLeak'
    BY <1>1 DEF ListInv, Ownership, NoLeak
  <1>5. SenderView' /\ ReceiverView' /\ Closing'
    BY DEF ListInv, SenderView, ReceiverView, Closing
  <1> QED BY <1>2, <1>3, <1>4, <1>5 DEF ListInv

\* Reading head_ in the first Insert.
LEMMA InsertReadHeadInv == IInv /\ InsertReadHead => IInv'
  <1> SUFFICES ASSUME IInv, InsertReadHead PROVE IInv'
    OBVIOUS
  <1> USE DEF IInv, InsertReadHead, listVars, nodeVars, rVars, auxVars
  <1>1. /\ SenderHolds' = SenderHolds /\ ReceiverHolds' = ReceiverHolds
    BY DEF SenderHolds, ReceiverHolds
  <1>2. TypeOK'
    BY DEF TypeOK, SenderPc
  <1>3. WellLinked' /\ Ends'
    BY DEF ListInv, WellLinked, Ends, ChainHead
  <1>4. Ownership' /\ NoLeak'
    BY <1>1 DEF ListInv, Ownership, NoLeak
  <1>5. SenderView' /\ ReceiverView' /\ Closing'
    BY DEF ListInv, SenderView, ReceiverView, Closing
  <1> QED BY <1>2, <1>3, <1>4, <1>5 DEF ListInv

\* Linking the first command: head_ is still where it was when it was read.
LEMMA InsertLinkFirstInv == IInv /\ InsertLinkFirst => IInv'
  <1> SUFFICES ASSUME IInv, InsertLinkFirst PROVE IInv'
    OBVIOUS
  <1> USE DEF IInv, InsertLinkFirst, listVars, rVars
  <1>1. /\ SenderHolds = {data} /\ SenderHolds' = {}
        /\ ReceiverHolds' = {} /\ ReceiverHolds = {}
    BY DEF SenderHolds, ReceiverHolds, ListInv, Ends
  <1>2. /\ data \in Node /\ data \notin Elems(chain) /\ data \notin Elems(cycle)
        /\ next[data] = NULL /\ tail_ = data /\ rpc = "idle"
    BY <1>1 DEF ListInv, Ownership, Disjoint, SenderView, Ends
  <1>3. /\ sreg = chain[Len(chain)] /\ sreg \in Elems(chain) /\ sreg \in Node
        /\ chain \in Seq(Node) /\ chain # <<>> /\ Len(chain) = 1
    BY OpenFacts DEF ListInv, Ends, ChainHead, SenderView
  <1>4. sreg \notin Elems(cycle)
    BY <1>3 DEF ListInv, WellLinked, Disjoint
  <1>5. /\ chain' \in Seq(Node) /\ Len(chain') = 2 /\ chain' # <<>>
        /\ chain'[1] = chain[1] /\ chain'[Len(chain')] = data
    <2>1. /\ chain' \in Seq(Node) /\ chain' # <<>> /\ Len(chain') = Len(chain) + 1
          /\ \A i \in 1..Len(chain) : chain'[i] = chain[i]
          /\ chain'[Len(chain) + 1] = data
      BY <1>2, <1>3, AppendFacts
    <2>2. 1 \in 1..Len(chain)
      BY <1>3
    <2> QED BY <1>3, <2>1, <2>2
  <1>6. Elems(chain') = Elems(chain) \cup {data}
    BY <1>2, <1>3, ElemsAppend
  <1>7. next' \in [Node -> PtrOrNull]
    BY <1>2, <1>3 DEF TypeOK, PtrOrNull
  <1>8. Linked(next', chain') /\ Linked(next', cycle)
    BY <1>2, <1>3, <1>4, LinkedAppend, LinkedElsewhere
    DEF TypeOK, ListInv, WellLinked, PtrOrNull
  <1>9. TypeOK'
    BY <1>2, <1>5, <1>7 DEF TypeOK, PtrOrNull, SenderPc
  <1>10. WellLinked'
    BY <1>2, <1>6, <1>8 DEF ListInv, WellLinked, Disjoint
  <1>11. Ends'
    BY <1>2, <1>3, <1>5, NodeAssumption DEF ListInv, Ends, ChainHead
  <1>12. Ownership' /\ NoLeak'
    BY <1>1, <1>2, <1>6 DEF ListInv, Ownership, Disjoint, NoLeak
  <1>13. SenderView' /\ ReceiverView' /\ Closing'
    BY <1>2, <1>3, <1>5 DEF ListInv, SenderView, ReceiverView, Closing
  <1> QED BY <1>9, <1>10, <1>11, <1>12, <1>13 DEF ListInv

\* GetData's test only reads; a command is there, so Insert is past its first one.
LEMMA GetDataTestInv == IInv /\ GetDataTest => IInv'
  <1> SUFFICES ASSUME IInv, GetDataTest PROVE IInv'
    OBVIOUS
  <1> USE DEF IInv, GetDataTest, listVars, nodeVars, sVars, auxVars
  <1>1. /\ SenderHolds' = SenderHolds /\ ReceiverHolds' = ReceiverHolds
    BY DEF SenderHolds, ReceiverHolds
  <1>2. Len(chain) \in Nat /\ Len(chain) > 1
    <2>1. ChainHead = head_
      BY DEF ChainHead
    <2>2. next[chain[1]] # NULL
      BY <2>1, OpenFacts
    <2> QED BY <2>2, OpenFacts
  <1>3. TypeOK'
    BY DEF TypeOK, ReceiverPc
  <1>4. WellLinked' /\ Ends'
    <2>1. tail_ # NULL /\ spc \notin {"readhead", "linkfirst"}
      BY <1>2 DEF ListInv, Ends
    <2>2. WellLinked'
      BY DEF ListInv, WellLinked
    <2>3. Ends'
      BY <2>1 DEF ListInv, Ends, ChainHead
    <2> QED BY <2>2, <2>3
  <1>5. Ownership' /\ NoLeak'
    BY <1>1 DEF ListInv, Ownership, NoLeak
  <1>6. SenderView' /\ ReceiverView' /\ Closing'
    BY <1>2 DEF ListInv, SenderView, ReceiverView, Closing
  <1> QED BY <1>3, <1>4, <1>5, <1>6 DEF ListInv

\* tmp is the second node.
LEMMA GetDataReadInv == IInv /\ GetDataRead => IInv'
  <1> SUFFICES ASSUME IInv, GetDataRead PROVE IInv'
    OBVIOUS
  <1> USE DEF IInv, GetDataRead, listVars, nodeVars, sVars, auxVars
  <1>1. /\ SenderHolds' = SenderHolds /\ ReceiverHolds' = ReceiverHolds
    BY DEF SenderHolds, ReceiverHolds
  <1>2. Len(chain) > 1 /\ tmp' = chain[2] /\ chain[2] \in Node
    BY OpenFacts DEF ChainHead, ListInv, ReceiverView
  <1>3. TypeOK'
    BY <1>2 DEF TypeOK, ReceiverPc, PtrOrNull
  <1>4. WellLinked' /\ Ends'
    BY <1>2 DEF ListInv, WellLinked, Ends, ChainHead
  <1>5. Ownership' /\ NoLeak'
    BY <1>1 DEF ListInv, Ownership, NoLeak
  <1>6. SenderView' /\ ReceiverView' /\ Closing'
    BY <1>2 DEF ListInv, SenderView, ReceiverView, Closing
  <1> QED BY <1>3, <1>4, <1>5, <1>6 DEF ListInv

\* Cutting off head_: it is not the last node, so Insert does not write to it.
LEMMA GetDataUnlinkInv == IInv /\ GetDataUnlink => IInv'
  <1> SUFFICES ASSUME IInv, GetDataUnlink PROVE IInv'
    OBVIOUS
  <1> USE DEF IInv, GetDataUnlink, listVars, sVars
  <1>1. /\ chain \in Seq(Node) /\ chain # <<>> /\ Len(chain) \in Nat /\ Len(chain) > 1
        /\ chain[1] = head_ /\ head_ \in Node /\ head_ \in Elems(chain)
        /\ tmp = chain[2]
    BY OpenFacts DEF ListInv, ReceiverView, ChainHead
  <1>2. /\ chain' \in Seq(Node) /\ Len(chain') = Len(chain) - 1 /\ chain' # <<>>
        /\ chain'[1] = chain[2] /\ chain'[Len(chain')] = chain[Len(chain)]
    BY <1>1, TailFacts
  <1>3. /\ Elems(chain') = Elems(chain) \ {head_}
        /\ Linked(next, chain')
    BY <1>1, ElemsTail, LinkedTail DEF TypeOK, ListInv, WellLinked, Linked
  <1>4. head_ \notin Elems(cycle) /\ head_ \notin SenderHolds
    BY <1>1 DEF ListInv, WellLinked, Ownership, Disjoint
  <1>5. /\ ReceiverHolds = {} /\ ReceiverHolds' = {head_}
        /\ SenderHolds' = SenderHolds
    BY DEF SenderHolds, ReceiverHolds
  <1>6. tail_ # NULL /\ spc \notin {"readhead", "linkfirst"}
    BY <1>1 DEF ListInv, Ends
  <1>7. next' \in [Node -> PtrOrNull] /\ next'[head_] = NULL
        /\ \A n \in Node : next[n] = NULL => next'[n] = NULL
    BY <1>1 DEF TypeOK, PtrOrNull
  <1>8. TypeOK'
    BY <1>2, <1>7 DEF TypeOK, ReceiverPc
  <1>9. Linked(next', chain') /\ Linked(next', cycle)
    BY <1>1, <1>2, <1>3, <1>4, LinkedElsewhere DEF TypeOK, ListInv, WellLinked, PtrOrNull
  <1>10. WellLinked'
    BY <1>3, <1>9 DEF ListInv, WellLinked, Disjoint
  <1>11. Ends'
    BY <1>1, <1>2, <1>6 DEF ListInv, Ends, ChainHead
  <1>12. Ownership' /\ NoLeak'
    BY <1>1, <1>3, <1>4, <1>5 DEF ListInv, Ownership, Disjoint, NoLeak
  <1>13. \A n \in SenderHolds : n \in Node
    BY DEF ListInv, Ownership
  <1>14. SenderView' /\ ReceiverView' /\ Closing'
    BY <1>6, <1>7, <1>13 DEF ListInv, SenderView, ReceiverView, Closing, SenderHolds
  <1> QED BY <1>8, <1>10, <1>11, <1>12, <1>14 DEF ListInv

\* GetData deletes a node that only it still knows.
LEMMA GetDataDeleteInv == IInv /\ GetDataDelete => IInv'
  <1> SUFFICES ASSUME IInv, GetDataDelete PROVE IInv'
    OBVIOUS
  <1> USE DEF IInv, GetDataDelete, listVars, sVars, auxVars
  <1>1. /\ ReceiverHolds = {head_} /\ ReceiverHolds' = {}
        /\ SenderHolds' = SenderHolds
    BY DEF SenderHolds, ReceiverHolds
  <1>2. TypeOK'
    BY DEF TypeOK, ReceiverPc
  <1>3. WellLinked' /\ Ends'
    BY DEF ListInv, WellLinked, Ends, ChainHead
  <1>4. Ownership'
    BY <1>1 DEF ListInv, Ownership, Disjoint
  <1>5. SenderView' /\ ReceiverView' /\ Closing'
    BY DEF ListInv, SenderView, ReceiverView, Closing, Ends
  <1>6. NoLeak'
    BY <1>1 DEF NoLeak, ListInv, Ownership, Disjoint
  <1> QED BY <1>2, <1>3, <1>4, <1>5, <1>6 DEF ListInv

\* Recycling appends to the free list; the sender never takes its last node.
LEMMA GetDataRecycleInv == IInv /\ GetDataRecycle => IInv'
  <1> SUFFICES ASSUME IInv, GetDataRecycle PROVE IInv'
    OBVIOUS
  <1> USE DEF IInv, GetDataRecycle, sVars
  <1>1. /\ ReceiverHolds = {head_} /\ ReceiverHolds' = {}
        /\ SenderHolds' = SenderHolds
    BY DEF SenderHolds, ReceiverHolds
  <1>2. /\ head_ \in Node /\ head_ \notin Elems(chain) /\ head_ \notin Elems(cycle)
        /\ head_ \notin SenderHolds /\ next[head_] = NULL
    BY <1>1 DEF ListInv, Ownership, Disjoint, ReceiverView
  <1>3. /\ cycle_tail_ = cycle[Len(cycle)] /\ cycle_tail_ \in Elems(cycle)
        /\ cycle_tail_ \in Node
        /\ cycle \in Seq(Node) /\ cycle # <<>> /\ Len(cycle) \in Nat /\ Len(cycle) > 0
    BY OpenFacts DEF ListInv, Ends
  <1>4. cycle_tail_ \notin Elems(chain) /\ cycle_tail_ \notin SenderHolds
    BY <1>3 DEF ListInv, WellLinked, Ownership, Disjoint
  <1>5. /\ cycle' \in Seq(Node) /\ Len(cycle') = Len(cycle) + 1 /\ cycle' # <<>>
        /\ cycle'[1] = cycle[1] /\ cycle'[Len(cycle')] = head_
    BY <1>2, <1>3, AppendFacts
  <1>6. Elems(cycle') = Elems(cycle) \cup {head_}
    BY <1>2, <1>3, ElemsAppend
  <1>7. next' \in [Node -> PtrOrNull]
        /\ \A n \in Node : n # cycle_tail_ => next'[n] = next[n]
    BY <1>2, <1>3 DEF TypeOK, PtrOrNull
  <1>8. Linked(next', cycle') /\ Linked(next', chain)
    BY <1>2, <1>3, <1>4, LinkedAppend, LinkedElsewhere
    DEF TypeOK, ListInv, WellLinked, PtrOrNull
  <1>9. TypeOK'
    BY <1>2, <1>5, <1>7 DEF TypeOK, PtrOrNull, ReceiverPc
  <1>10. WellLinked'
    BY <1>2, <1>6, <1>8 DEF ListInv, WellLinked, Disjoint
  <1>11. Ends'
    BY <1>2, <1>3, <1>5, NodeAssumption DEF ListInv, Ends, ChainHead
  <1>12. Ownership' /\ NoLeak'
    BY <1>1, <1>2, <1>6 DEF ListInv, Ownership, Disjoint, NoLeak
  <1>13. \A n \in SenderHolds : next'[n] = next[n]
    BY <1>4, <1>7 DEF ListInv, Ownership
  <1>14. SenderView' /\ ReceiverView' /\ Closing'
    BY <1>3, <1>5, <1>13 DEF ListInv, SenderView, ReceiverView, Closing, SenderHolds, Ends
  <1> QED BY <1>9, <1>10, <1>11, <1>12, <1>14 DEF ListInv

\* The first recycling.
LEMMA GetDataRecycleFirstInv == IInv /\ GetDataRecycleFirst => IInv'
  <1> SUFFICES ASSUME IInv, GetDataRecycleFirst PROVE IInv'
    OBVIOUS
  <1> USE DEF IInv, GetDataRecycleFirst, nodeVars, sVars, auxVars
  <1>1. /\ SenderHolds' = SenderHolds /\ ReceiverHolds' = ReceiverHolds
    BY DEF SenderHolds, ReceiverHolds
  <1>2. TypeOK'
    BY DEF TypeOK, ReceiverPc
  <1>3. WellLinked' /\ Ends'
    BY DEF ListInv, WellLinked, Ends, ChainHead
  <1>4. Ownership' /\ NoLeak'
    BY <1>1 DEF ListInv, Ownership, NoLeak
  <1>5. SenderView' /\ ReceiverView' /\ Closing'
    BY DEF ListInv, SenderView, ReceiverView, Closing
  <1> QED BY <1>2, <1>3, <1>4, <1>5 DEF ListInv

\* Reading cycle_head_ in the first recycling.
LEMMA GetDataReadCycleInv == IInv /\ GetDataReadCycle => IInv'
  <1> SUFFICES ASSUME IInv, GetDataReadCycle PROVE IInv'
    OBVIOUS
  <1> USE DEF IInv, GetDataReadCycle, listVars, nodeVars, sVars, auxVars
  <1>1. /\ SenderHolds' = SenderHolds /\ ReceiverHolds' = ReceiverHolds
    BY DEF SenderHolds, ReceiverHolds
  <1>2. TypeOK'
    BY DEF TypeOK, ReceiverPc
  <1>3. WellLinked' /\ Ends'
    BY DEF ListInv, WellLinked, Ends, ChainHead
  <1>4. Ownership' /\ NoLeak'
    BY <1>1 DEF ListInv, Ownership, NoLeak
  <1>5. SenderView' /\ ReceiverView' /\ Closing'
    BY DEF ListInv, SenderView, ReceiverView, Closing
  <1> QED BY <1>2, <1>3, <1>4, <1>5 DEF ListInv

\* Linking the first recycled node: cycle_head_ is still where it was.
LEMMA GetDataLinkFirstInv == IInv /\ GetDataLinkFirst => IInv'
  <1> SUFFICES ASSUME IInv, GetDataLinkFirst PROVE IInv'
    OBVIOUS
  <1> USE DEF IInv, GetDataLinkFirst, listVars, sVars
  <1>1. /\ ReceiverHolds = {head_} /\ ReceiverHolds' = {}
        /\ SenderHolds' = SenderHolds
    BY DEF SenderHolds, ReceiverHolds
  <1>2. /\ head_ \in Node /\ head_ \notin Elems(chain) /\ head_ \notin Elems(cycle)
        /\ head_ \notin SenderHolds /\ next[head_] = NULL /\ cycle_tail_ = head_
    BY <1>1 DEF ListInv, Ownership, Disjoint, ReceiverView
  <1>3. /\ rreg = cycle[Len(cycle)] /\ rreg \in Elems(cycle) /\ rreg \in Node
        /\ cycle \in Seq(Node) /\ cycle # <<>> /\ Len(cycle) = 1
    BY OpenFacts DEF ListInv, Ends, ReceiverView
  <1>4. rreg \notin Elems(chain) /\ rreg \notin SenderHolds
    BY <1>3 DEF ListInv, WellLinked, Ownership, Disjoint
  <1>5. /\ cycle' \in Seq(Node) /\ Len(cycle') = 2 /\ cycle' # <<>>
        /\ cycle'[1] = cycle[1] /\ cycle'[Len(cycle')] = head_
    <2>1. /\ cycle' \in Seq(Node) /\ cycle' # <<>> /\ Len(cycle') = Len(cycle) + 1
          /\ \A i \in 1..Len(cycle) : cycle'[i] = cycle[i]
          /\ cycle'[Len(cycle) + 1] = head_
      BY <1>2, <1>3, AppendFacts
    <2>2. 1 \in 1..Len(cycle)
      BY <1>3
    <2> QED BY <1>3, <2>1, <2>2
  <1>6. Elems(cycle') = Elems(cycle) \cup {head_}
    BY <1>2, <1>3, ElemsAppend
  <1>7. next' \in [Node -> PtrOrNull]
        /\ \A n \in Node : n # rreg => next'[n] = next[n]
    BY <1>2, <1>3 DEF TypeOK, PtrOrNull
  <1>8. Linked(next', cycle') /\ Linked(next', chain)
    BY <1>2, <1>3, <1>4, LinkedAppend, LinkedElsewhere
    DEF TypeOK, ListInv, WellLinked, PtrOrNull
  <1>9. TypeOK'
    BY <1>2, <1>5, <1>7 DEF TypeOK, PtrOrNull, ReceiverPc
  <1>10. WellLinked'
    BY <1>2, <1>6, <1>8 DEF ListInv, WellLinked, Disjoint
  <1>11. Ends'
    BY <1>2, <1>3, <1>5, NodeAssumption DEF ListInv, Ends, ChainHead
  <1>12. Ownership' /\ NoLeak'
    BY <1>1, <1>2, <1>6 DEF ListInv, Ownership, Disjoint, NoLeak
  <1>13. \A n \in SenderHolds : next'[n] = next[n]
    BY <1>4, <1>7 DEF ListInv, Ownership
  <1>14. SenderView' /\ ReceiverView' /\ Closing'
    BY <1>3, <1>5, <1>13 DEF ListInv, SenderView, ReceiverView, Closing, SenderHolds, Ends
  <1> QED BY <1>9, <1>10, <1>11, <1>12, <1>14 DEF ListInv

\* head_ moves to the command received.
LEMMA GetDataAdvanceInv == IInv /\ GetDataAdvance => IInv'
  <1> SUFFICES ASSUME IInv, GetDataAdvance PROVE IInv'
    OBVIOUS
  <1> USE DEF IInv, GetDataAdvance, nodeVars, sVars, auxVars
  <1>1. /\ SenderHolds' = SenderHolds /\ ReceiverHolds' = ReceiverHolds
        /\ ReceiverHolds = {}
    BY DEF SenderHolds, ReceiverHolds
  <1>2. TypeOK'
    BY DEF TypeOK, ReceiverPc, PtrOrNull
  <1>3. WellLinked' /\ Ends'
    BY DEF ListInv, WellLinked, Ends, ChainHead
  <1>4. Ownership' /\ NoLeak'
    BY <1>1 DEF ListInv, Ownership, NoLeak
  <1>5. SenderView' /\ ReceiverView' /\ Closing'
    BY DEF ListInv, SenderView, ReceiverView, Closing, Ends
  <1> QED BY <1>2, <1>3, <1>4, <1>5 DEF ListInv

\* Processing a command does not touch the list.
LEMMA ProcessDoneInv == IInv /\ ProcessDone => IInv'
  <1> SUFFICES ASSUME IInv, ProcessDone PROVE IInv'
    OBVIOUS
  <1> USE DEF IInv, ProcessDone, listVars, nodeVars, sVars, auxVars
  <1>1. /\ SenderHolds' = SenderHolds /\ ReceiverHolds' = ReceiverHolds
    BY DEF SenderHolds, ReceiverHolds
  <1>2. TypeOK'
    BY DEF TypeOK, ReceiverPc
  <1>3. WellLinked' /\ Ends'
    BY DEF ListInv, WellLinked, Ends, ChainHead
  <1>4. Ownership' /\ NoLeak'
    BY <1>1 DEF ListInv, Ownership, NoLeak
  <1>5. SenderView' /\ ReceiverView' /\ Closing'
    BY DEF ListInv, SenderView, ReceiverView, Closing
  <1> QED BY <1>2, <1>3, <1>4, <1>5 DEF ListInv

\* The destructor starts when neither thread is inside an operation.
LEMMA DestroyInv == IInv /\ Destroy => IInv'
  <1> SUFFICES ASSUME IInv, Destroy PROVE IInv'
    OBVIOUS
  <1> USE DEF IInv, Destroy, listVars, nodeVars, sVars, rVars, auxVars
  <1>1. /\ SenderHolds' = SenderHolds /\ ReceiverHolds' = ReceiverHolds
    BY DEF SenderHolds, ReceiverHolds
  <1>2. TypeOK'
    BY DEF TypeOK
  <1>3. WellLinked' /\ Ends'
    BY DEF ListInv, WellLinked, Ends, ChainHead
  <1>4. Ownership' /\ NoLeak'
    BY <1>1 DEF ListInv, Ownership, NoLeak
  <1>5. SenderView' /\ ReceiverView' /\ Closing'
    BY DEF ListInv, SenderView, ReceiverView, Closing
  <1> QED BY <1>2, <1>3, <1>4, <1>5 DEF ListInv

\* What deleting the first node of a list leaves, and where the pointer goes.
LEMMA DeleteFirst ==
  ASSUME NEW nx \in [Node -> PtrOrNull], NEW s \in Seq(Node), s # <<>>, Linked(nx, s)
  PROVE  /\ Tail(s) \in Seq(Node) /\ Linked(nx, Tail(s))
         /\ Elems(Tail(s)) = Elems(s) \ {s[1]}
         /\ s[1] \in Elems(s) /\ s[1] \in Node
         /\ nx[s[1]] = IF Tail(s) = <<>> THEN NULL ELSE Tail(s)[1]
  <1>1. /\ Tail(s) \in Seq(Node) /\ Linked(nx, Tail(s))
        /\ Elems(Tail(s)) = Elems(s) \ {s[1]}
        /\ s[1] \in Elems(s) /\ s[1] \in Node
    BY TailFacts, LinkedTail, ElemsTail DEF Linked
  <1>2. /\ Len(s) \in Nat /\ Len(s) > 0
        /\ Len(Tail(s)) = Len(s) - 1
        /\ \A i \in 1..Len(Tail(s)) : Tail(s)[i] = s[i + 1]
    BY TailFacts
  <1>3. 1 \in 1..Len(s)
    BY <1>2
  <1>4. nx[s[1]] = IF 1 < Len(s) THEN s[1 + 1] ELSE NULL
    BY <1>3 DEF Linked
  <1>5. CASE 1 < Len(s)
    <2>1. Len(Tail(s)) \in Nat /\ Len(Tail(s)) # 0 /\ 1 \in 1..Len(Tail(s))
      BY <1>1, <1>2, <1>5, SMTT(30)
    <2>2. Tail(s) # <<>>
      BY <1>1, <2>1, EmptyIffNoLen
    <2>3. Tail(s)[1] = s[1 + 1]
      BY <2>1, TailFacts
    <2> QED BY <1>1, <1>4, <1>5, <2>2, <2>3
  <1>6. CASE Len(s) = 1
    <2>1. Len(Tail(s)) = 0
      BY <1>2, <1>6
    <2>2. Tail(s) = <<>>
      BY <1>1, <2>1, EmptyIffNoLen
    <2> QED BY <1>1, <1>4, <1>6, <2>2
  <1> QED BY <1>2, <1>5, <1>6

\* The first loop of the destructor.
LEMMA DestroyMainInv == IInv /\ DestroyMain => IInv'
  <1> SUFFICES ASSUME IInv, DestroyMain PROVE IInv'
    OBVIOUS
  <1> USE DEF IInv, DestroyMain, sVars, rVars
  <1>1. /\ SenderHolds = {} /\ ReceiverHolds = {} /\ spc = "idle" /\ rpc = "idle"
        /\ SenderHolds' = {} /\ ReceiverHolds' = {} /\ ChainHead = head_ /\ ChainHead' = head_'
    BY DEF SenderHolds, ReceiverHolds, ListInv, Closing, ChainHead
  <1>2. CASE head_ # NULL
    <2>1. chain \in Seq(Node) /\ chain # <<>> /\ chain[1] = head_ /\ Linked(next, chain)
      BY <1>1, <1>2 DEF TypeOK, ListInv, Ends, WellLinked
    <2>2. /\ head_' = next[head_] /\ live' = live \ {head_} /\ chain' = Tail(chain)
          /\ tail_' = tail_ /\ phase' = phase
      BY <1>2
    <2>3. /\ chain' \in Seq(Node) /\ Linked(next, chain')
          /\ Elems(chain') = Elems(chain) \ {head_}
          /\ head_ \in Elems(chain) /\ head_ \in Node
          /\ head_' = IF chain' = <<>> THEN NULL ELSE chain'[1]
      BY <2>1, <2>2, DeleteFirst DEF TypeOK
    <2>4. TypeOK'
      BY <2>2, <2>3 DEF TypeOK, PtrOrNull
    <2>5. WellLinked'
      BY <2>3 DEF ListInv, WellLinked, Disjoint
    <2>6. Ends'
      BY <1>1, <2>2, <2>3 DEF ListInv, Ends
    <2>7. Ownership' /\ SenderView' /\ ReceiverView' /\ Closing'
      BY <1>1, <2>2 DEF ListInv, Ownership, Disjoint, SenderView, ReceiverView, Closing
    <2>8. head_ \notin Elems(cycle)
      BY <2>3 DEF ListInv, WellLinked, Disjoint
    <2>9. NoLeak'
      BY <1>1, <2>2, <2>3, <2>8 DEF NoLeak
    <2> QED BY <2>4, <2>5, <2>6, <2>7, <2>9 DEF ListInv
  <1>3. CASE head_ = NULL
    <2>1. chain = <<>>
      <3>1. ASSUME chain # <<>> PROVE FALSE
        <4>1. chain[1] = head_ /\ chain \in Seq(Node)
          BY <1>1, <3>1 DEF ListInv, Ends, TypeOK
        <4>2. chain[1] \in Node
          BY <3>1, <4>1, TailFacts
        <4> QED BY <1>3, <4>1, <4>2, NodeAssumption
      <3> QED BY <3>1
    <2>2. /\ tail_' = NULL /\ phase' = "cycle"
          /\ UNCHANGED <<head_, live, chain>>
      BY <1>3
    <2>3. TypeOK'
      BY <2>2 DEF TypeOK, PtrOrNull
    <2>4. WellLinked' /\ Ends'
      BY <1>1, <2>2 DEF ListInv, WellLinked, Ends
    <2>5. Ownership' /\ SenderView' /\ ReceiverView' /\ Closing'
      BY <1>1, <2>1, <2>2 DEF ListInv, Ownership, Disjoint, SenderView, ReceiverView, Closing
    <2>6. NoLeak'
      BY <1>1, <2>2 DEF NoLeak
    <2> QED BY <2>3, <2>4, <2>5, <2>6 DEF ListInv
  <1> QED BY <1>2, <1>3

\* The second loop of the destructor.
LEMMA DestroyCycleInv == IInv /\ DestroyCycle => IInv'
  <1> SUFFICES ASSUME IInv, DestroyCycle PROVE IInv'
    OBVIOUS
  <1> USE DEF IInv, DestroyCycle, sVars, rVars
  <1>1. /\ SenderHolds = {} /\ ReceiverHolds = {} /\ spc = "idle" /\ rpc = "idle"
        /\ SenderHolds' = {} /\ ReceiverHolds' = {} /\ ChainHead' = ChainHead
        /\ chain = <<>>
    BY DEF SenderHolds, ReceiverHolds, ListInv, Closing, ChainHead
  <1>2. CASE cycle_head_ # NULL
    <2>1. cycle \in Seq(Node) /\ cycle # <<>> /\ cycle[1] = cycle_head_ /\ Linked(next, cycle)
      BY <1>1, <1>2 DEF TypeOK, ListInv, Ends, WellLinked
    <2>2. /\ cycle_head_' = next[cycle_head_] /\ live' = live \ {cycle_head_}
          /\ cycle' = Tail(cycle) /\ cycle_tail_' = cycle_tail_ /\ phase' = phase
      BY <1>2
    <2>3. /\ cycle' \in Seq(Node) /\ Linked(next, cycle')
          /\ Elems(cycle') = Elems(cycle) \ {cycle_head_}
          /\ cycle_head_ \in Elems(cycle) /\ cycle_head_ \in Node
          /\ cycle_head_' = IF cycle' = <<>> THEN NULL ELSE cycle'[1]
      BY <2>1, <2>2, DeleteFirst DEF TypeOK
    <2>4. TypeOK'
      BY <2>2, <2>3 DEF TypeOK, PtrOrNull
    <2>5. WellLinked'
      BY <2>3 DEF ListInv, WellLinked, Disjoint
    <2>6. Ends'
      BY <1>1, <2>2, <2>3 DEF ListInv, Ends
    <2>7. Ownership' /\ SenderView' /\ ReceiverView' /\ Closing'
      BY <1>1, <2>2 DEF ListInv, Ownership, Disjoint, SenderView, ReceiverView, Closing
    <2>8. cycle_head_ \notin Elems(chain)
      BY <2>3 DEF ListInv, WellLinked, Disjoint
    <2>9. NoLeak'
      BY <1>1, <2>2, <2>3, <2>8 DEF NoLeak
    <2> QED BY <2>4, <2>5, <2>6, <2>7, <2>9 DEF ListInv
  <1>3. CASE cycle_head_ = NULL
    <2>1. cycle = <<>>
      <3>1. ASSUME cycle # <<>> PROVE FALSE
        <4>1. cycle[1] = cycle_head_ /\ cycle \in Seq(Node)
          BY <1>1, <3>1 DEF ListInv, Ends, TypeOK
        <4>2. cycle[1] \in Node
          BY <3>1, <4>1, TailFacts
        <4> QED BY <1>3, <4>1, <4>2, NodeAssumption
      <3> QED BY <3>1
    <2>2. /\ cycle_tail_' = NULL /\ phase' = "done"
          /\ UNCHANGED <<cycle_head_, live, cycle>>
      BY <1>3
    <2>3. TypeOK'
      BY <2>2 DEF TypeOK, PtrOrNull
    <2>4. WellLinked' /\ Ends'
      BY <1>1, <2>2 DEF ListInv, WellLinked, Ends
    <2>5. Ownership' /\ SenderView' /\ ReceiverView' /\ Closing'
      BY <1>1, <2>1, <2>2 DEF ListInv, Ownership, Disjoint, SenderView, ReceiverView, Closing
    <2>6. Elems(chain) = {} /\ Elems(cycle) = {}
      BY <1>1, <2>1 DEF Elems
    <2>7. NoLeak'
      BY <1>1, <2>2, <2>6 DEF NoLeak
    <2> QED BY <2>3, <2>4, <2>5, <2>7 DEF ListInv
  <1> QED BY <1>2, <1>3

\* No step of the sender, the receiver or the destructor breaks the invariant.
LEMMA NextInv == IInv /\ [Next]_vars => IInv'
  <1> SUFFICES ASSUME IInv, [Next]_vars PROVE IInv'
    OBVIOUS
  <1>1. CASE Sender
    BY <1>1, GetCycleTestInv, GetCycleAdvanceInv, GetCycleUnlinkInv, GetCycleCheckInv,
       NewCmdInv, InsertLinkInv, InsertFirstInv, InsertReadHeadInv, InsertLinkFirstInv
    DEF Sender
  <1>2. CASE Receiver
    BY <1>2, GetDataTestInv, GetDataReadInv, GetDataUnlinkInv, GetDataDeleteInv,
       GetDataRecycleInv, GetDataRecycleFirstInv, GetDataReadCycleInv,
       GetDataLinkFirstInv, GetDataAdvanceInv, ProcessDoneInv
    DEF Receiver
  <1>3. CASE Destructor
    BY <1>3, DestroyInv, DestroyMainInv, DestroyCycleInv DEF Destructor
  <1>4. CASE UNCHANGED vars
    BY <1>4 DEF vars, listVars, nodeVars, sVars, rVars, auxVars, IInv, TypeOK, ListInv,
       NoLeak, WellLinked, Ends, ChainHead, Ownership, SenderHolds, ReceiverHolds,
       SenderView, ReceiverView, Closing
  <1> QED BY <1>1, <1>2, <1>3, <1>4 DEF Next

\* The two lists are always well formed, and every field has its type.
THEOREM ListInvariant == Spec => [](TypeOK /\ ListInv /\ NoLeak)
  <1>1. Spec => []IInv
    BY InitInv, NextInv, PTL DEF Spec
  <1> QED BY <1>1, PTL DEF IInv

------------------------------------------------------------------------------
(* What follows from the invariant.                                        *)

\* No thread ever touches or deletes a node that is not allocated.
THEOREM MemorySafety == Spec => []NoUseAfterFree
  <1>1. IInv => NoUseAfterFree
    <2> SUFFICES ASSUME IInv PROVE NoUseAfterFree
      OBVIOUS
    <2> USE DEF IInv
    <2>1. ASSUME phase = "open" PROVE SenderDerefs \subseteq live
      <3>1. /\ cycle_head_ \in Elems(cycle) /\ chain[1] \in Elems(chain)
            /\ chain[1] = ChainHead
            /\ Elems(cycle) \subseteq live /\ Elems(chain) \subseteq live
            /\ SenderHolds \subseteq live /\ chain[Len(chain)] \in Elems(chain)
        BY <2>1, OpenFacts DEF NoLeak
      <3>2. spc = "linkfirst" => sreg = chain[1]
        BY <2>1, <3>1 DEF ListInv, SenderView, Ends, ChainHead
      <3>3. spc = "fill" => {tail_} \ {NULL} \subseteq live
        BY <2>1, <3>1 DEF ListInv, Ends
      <3> QED BY <3>1, <3>2, <3>3 DEF SenderDerefs, SenderHolds
    <2>2. ASSUME phase = "open" PROVE ReceiverDerefs \subseteq live
      <3>1. /\ cycle_head_ \in Elems(cycle) /\ chain[1] \in Elems(chain)
            /\ chain[1] = ChainHead
            /\ Elems(cycle) \subseteq live /\ Elems(chain) \subseteq live
            /\ ReceiverHolds \subseteq live /\ cycle[Len(cycle)] \in Elems(cycle)
        BY <2>2, OpenFacts DEF NoLeak
      <3>2. rpc = "linkfirst" => rreg = cycle_head_
        BY DEF ListInv, ReceiverView
      <3>3. rpc = "retire" => {cycle_tail_} \ {NULL} \subseteq live
        BY <2>2, <3>1 DEF ListInv, Ends
      <3> QED BY <3>1, <3>2, <3>3 DEF ReceiverDerefs, ReceiverHolds, ChainHead
    <2>3. DestructorDerefs \subseteq live
      <3>1. ASSUME phase = "main", head_ # NULL PROVE head_ \in live
        <4>1. chain \in Seq(Node) /\ chain # <<>> /\ chain[1] = head_
          BY <3>1 DEF TypeOK, ListInv, Ends, ChainHead, Closing
        <4>2. head_ \in Elems(chain)
          BY <4>1, ElemsTail DEF ListInv, WellLinked, Linked
        <4> QED BY <3>1, <4>2 DEF NoLeak
      <3>2. ASSUME phase = "cycle", cycle_head_ # NULL PROVE cycle_head_ \in live
        <4>1. cycle \in Seq(Node) /\ cycle # <<>> /\ cycle[1] = cycle_head_
          BY <3>2 DEF TypeOK, ListInv, Ends
        <4>2. cycle_head_ \in Elems(cycle)
          BY <4>1, ElemsTail DEF ListInv, WellLinked, Linked
        <4> QED BY <3>2, <4>2 DEF NoLeak
      <3> QED BY <3>1, <3>2 DEF DestructorDerefs
    <2> QED BY <2>1, <2>2, <2>3 DEF NoUseAfterFree
  <1> QED BY <1>1, InitInv, NextInv, PTL DEF Spec

\* The command being filled in is nobody else's.
THEOREM CmdExclusion == Spec => []ExclusiveCmd
  <1>1. IInv => ExclusiveCmd
    <2> SUFFICES ASSUME IInv, spc \in {"check", "fill", "readhead", "linkfirst"}
                 PROVE  data \notin ReceiverHolds \cup ReceiverDerefs
                                      \cup Elems(chain) \cup Elems(cycle)
      BY DEF ExclusiveCmd
    <2> USE DEF IInv
    <2>1. /\ SenderHolds = {data} /\ phase = "open"
          /\ data \notin Elems(chain) /\ data \notin Elems(cycle)
          /\ data \notin ReceiverHolds /\ data \in Node
      BY DEF SenderHolds, ListInv, Ownership, Disjoint, Closing
    <2>2. /\ cycle_head_ \in Elems(cycle) /\ ChainHead \in Elems(chain)
          /\ cycle[Len(cycle)] \in Elems(cycle)
      BY <2>1, OpenFacts
    <2>3. rpc = "linkfirst" => rreg = cycle_head_
      BY DEF ListInv, ReceiverView
    <2>4. rpc = "retire" => cycle_tail_ = NULL \/ cycle_tail_ \in Elems(cycle)
      BY <2>1, <2>2 DEF ListInv, Ends
    <2>5. data \notin ReceiverDerefs
      BY <2>1, <2>2, <2>3, <2>4, NodeAssumption DEF ReceiverDerefs, ReceiverHolds, ChainHead
    <2> QED BY <2>1, <2>5
  <1> QED BY <1>1, InitInv, NextInv, PTL DEF Spec

------------------------------------------------------------------------------
(* The list implements the channel.                                        *)

\* Appending commutes with dropping the first element.
LEMMA TailAppend ==
  ASSUME NEW s \in Seq(Node), s # <<>>, NEW x \in Node
  PROVE  Tail(Append(s, x)) = Append(Tail(s), x)
  OBVIOUS

\* The refinement mapping in terms of the list's state.
LEMMA Mapping ==
  ASSUME IInv
  PROVE  /\ SenderHolds = {} => ChHeld = NULL
         /\ SenderHolds # {} => ChHeld = data /\ data \in Node /\ SenderHolds = {data}
         /\ ReceiverHolds = {} => ChRetiring = NULL
         /\ ReceiverHolds # {} => ChRetiring = head_ /\ head_ \in Node /\ ReceiverHolds = {head_}
         /\ phase = "open" => ChQueue = Tail(chain) /\ ChCurrent = chain[1] /\ ChIdle = Elems(cycle)
         /\ phase # "open" => ChQueue = <<>> /\ ChCurrent = NULL /\ ChIdle = {}
  BY DEF IInv, ListInv, Ownership, Ends, SenderHolds, ReceiverHolds, ChHeld, ChRetiring,
         ChQueue, ChCurrent, ChIdle

\* A step that moves no command between holders is a stuttering step of the channel.
LEMMA Stutter ==
  ASSUME IInv, IInv',
         SenderHolds' = SenderHolds, SenderHolds # {} => data' = data,
         ReceiverHolds' = ReceiverHolds, ReceiverHolds # {} => head_' = head_,
         UNCHANGED <<phase, chain, cycle>>
  PROVE  UNCHANGED Channel!cvars
  <1>1. ChCurrent' = ChCurrent
    BY DEF ChCurrent, IInv, ListInv, Ends
  <1> QED BY <1>1 DEF Channel!cvars, ChHeld, ChRetiring, ChQueue, ChIdle, Elems

\* Every step of the sender is a step of the channel or a stuttering step.
LEMMA SenderStep ==
  ASSUME IInv, IInv', Sender
  PROVE  [Channel!CNext]_Channel!cvars
  <1> USE DEF listVars, nodeVars, sVars, rVars, auxVars
  <1>0. phase = "open" /\ phase' = "open" /\ rpc' = rpc /\ head_' = head_
        /\ ReceiverHolds' = ReceiverHolds /\ ChRetiring' = ChRetiring
    BY DEF Sender, GetCycleTest, GetCycleAdvance, GetCycleUnlink, GetCycleCheck, NewCmd,
           InsertLink, InsertFirst, InsertReadHead, InsertLinkFirst, ReceiverHolds, ChRetiring
  <1>c. ChCurrent = chain[1] /\ ChCurrent' = chain'[1]
    BY <1>0 DEF ChCurrent, IInv, ListInv, Ends
  <1>1. CASE GetCycleTest
    BY <1>0, <1>1, Stutter DEF GetCycleTest, SenderHolds
  <1>2. CASE GetCycleAdvance
    <2>1. /\ SenderHolds = {} /\ SenderHolds' = {data} /\ data' = data
          /\ data = cycle[1] /\ cycle[1] \in Elems(cycle) /\ data \in Node
          /\ cycle' = Tail(cycle) /\ chain' = chain
          /\ cycle \in Seq(Node) /\ cycle # <<>>
      BY <1>0, <1>2, OpenFacts DEF GetCycleAdvance, SenderHolds, IInv, ListInv, SenderView
    <2>2. Elems(cycle') = Elems(cycle) \ {data}
      BY <2>1, ElemsTail DEF IInv, ListInv, WellLinked, Linked
    <2>3. /\ ChHeld = NULL /\ ChHeld' = data /\ ChIdle = Elems(cycle)
          /\ ChIdle' = Elems(cycle) \ {data} /\ ChQueue' = ChQueue /\ ChCurrent' = ChCurrent
      BY <1>0, <1>c, <2>1, <2>2 DEF ChHeld, ChIdle, ChQueue
    <2>4. Channel!Reuse(data)
      BY <1>0, <2>1, <2>3 DEF Channel!Reuse
    <2> QED BY <2>1, <2>4 DEF Channel!CNext
  <1>3. CASE GetCycleUnlink
    BY <1>0, <1>3, Stutter DEF GetCycleUnlink, SenderHolds
  <1>4. CASE GetCycleCheck /\ ~ is_free[data]
    BY <1>0, <1>4, Stutter DEF GetCycleCheck, SenderHolds
  <1>5. CASE GetCycleCheck /\ is_free[data]
    <2>1. /\ SenderHolds = {data} /\ SenderHolds' = {} /\ data \in Node
          /\ UNCHANGED <<chain, cycle>>
      BY <1>5 DEF GetCycleCheck, SenderHolds, IInv, ListInv, Ownership
    <2>2. /\ ChHeld = data /\ ChHeld' = NULL /\ ChIdle' = ChIdle
          /\ ChQueue' = ChQueue /\ ChCurrent' = ChCurrent
      BY <1>0, <1>c, <2>1 DEF ChHeld, ChIdle, ChQueue, Elems
    <2>3. Channel!Discard
      BY <1>0, <2>1, <2>2, NodeAssumption DEF Channel!Discard
    <2> QED BY <2>3 DEF Channel!CNext
  <1>6. CASE NewCmd
    <2>1. /\ SenderHolds = {} /\ SenderHolds' = {data'}
          /\ data' \in Node /\ data' \notin live
          /\ UNCHANGED <<chain, cycle>>
      BY <1>6 DEF NewCmd, SenderHolds
    <2>2. /\ data' \notin Elems(chain) /\ data' \notin Elems(cycle)
          /\ data' \notin ReceiverHolds
      BY <1>0, <2>1 DEF IInv, NoLeak
    <2>3. /\ ChHeld = NULL /\ ChHeld' = data' /\ ChIdle' = ChIdle /\ ChIdle = Elems(cycle)
          /\ ChQueue' = ChQueue /\ ChCurrent' = ChCurrent
          /\ ChQueue = Tail(chain) /\ ChCurrent = chain[1]
      BY <1>0, <1>c, <2>1 DEF ChHeld, ChIdle, ChQueue, Elems
    <2>4. data' # ChCurrent /\ data' # ChRetiring /\ data' # ChHeld
      BY <1>0, <2>1, <2>2, <2>3, OpenFacts, Mapping, NodeAssumption
    <2>5. \A j \in 1..Len(ChQueue) : ChQueue[j] # data'
      <3>1. chain \in Seq(Node) /\ chain # <<>>
        BY <1>0, OpenFacts
      <3>2. /\ \A i \in 1..Len(Tail(chain)) : Tail(chain)[i] = chain[i + 1]
            /\ Len(chain) \in Nat /\ Len(Tail(chain)) = Len(chain) - 1
        BY <3>1, TailFacts
      <3>3. \A i \in 1..Len(Tail(chain)) : i + 1 \in 1..Len(chain)
        BY <3>2
      <3> QED BY <2>2, <2>3, <3>2, <3>3 DEF Elems
    <2>6. Channel!Create(data')
      BY <1>0, <2>2, <2>3, <2>4, <2>5 DEF Channel!Create, Channel!Unborn, Channel!InQueue
    <2> QED BY <2>1, <2>6 DEF Channel!CNext
  <1>7. CASE InsertLink \/ InsertLinkFirst
    <2>1. /\ SenderHolds = {data} /\ SenderHolds' = {} /\ data \in Node
          /\ chain' = Append(chain, data) /\ cycle' = cycle
          /\ chain \in Seq(Node) /\ chain # <<>>
      BY <1>0, <1>7, OpenFacts
      DEF InsertLink, InsertLinkFirst, SenderHolds, IInv, ListInv, Ownership
    <2>2. Tail(chain') = Append(Tail(chain), data) /\ chain'[1] = chain[1]
      <3>1. Len(chain) \in Nat /\ 1 \in 1..Len(chain)
        BY <1>0, OpenFacts
      <3>2. chain'[1] = chain[1]
        BY <2>1, <3>1, AppendFacts
      <3> QED BY <2>1, <3>2, TailAppend
    <2>3. /\ ChHeld = data /\ ChHeld' = NULL /\ ChIdle' = ChIdle
          /\ ChQueue' = Append(ChQueue, ChHeld) /\ ChCurrent' = ChCurrent
      BY <1>0, <1>c, <2>1, <2>2 DEF ChHeld, ChIdle, ChQueue, Elems
    <2>4. Channel!Send
      BY <1>0, <2>1, <2>3, NodeAssumption DEF Channel!Send
    <2> QED BY <2>4 DEF Channel!CNext
  <1>8. CASE InsertFirst \/ InsertReadHead
    BY <1>0, <1>8, Stutter DEF InsertFirst, InsertReadHead, SenderHolds
  <1> QED BY <1>1, <1>2, <1>3, <1>4, <1>5, <1>6, <1>7, <1>8 DEF Sender

\* Every step of the receiver is a step of the channel or a stuttering step.
LEMMA ReceiverStep ==
  ASSUME IInv, IInv', Receiver
  PROVE  [Channel!CNext]_Channel!cvars
  <1> USE DEF listVars, nodeVars, sVars, rVars, auxVars
  <1>0. phase = "open" /\ phase' = "open" /\ SenderHolds' = SenderHolds
        /\ ChHeld' = ChHeld /\ data' = data
    BY DEF Receiver, GetDataTest, GetDataRead, GetDataUnlink, GetDataDelete, GetDataRecycle,
           GetDataRecycleFirst, GetDataReadCycle, GetDataLinkFirst, GetDataAdvance,
           ProcessDone, SenderHolds, ChHeld
  <1>c. ChCurrent = chain[1] /\ ChCurrent' = chain'[1]
    BY <1>0 DEF ChCurrent, IInv, ListInv, Ends
  <1>1. CASE GetDataTest \/ GetDataRead \/ GetDataRecycleFirst \/ GetDataReadCycle
             \/ ProcessDone
    BY <1>0, <1>1, Stutter
    DEF GetDataTest, GetDataRead, GetDataRecycleFirst, GetDataReadCycle, ProcessDone,
        ReceiverHolds
  <1>2. CASE GetDataAdvance
    BY <1>0, <1>2, Stutter DEF GetDataAdvance, ReceiverHolds
  <1>3. CASE GetDataUnlink
    <2>1. /\ ReceiverHolds = {} /\ ReceiverHolds' = {head_} /\ head_' = head_
          /\ chain[1] = head_ /\ Len(chain) > 1 /\ Len(chain) \in Nat
          /\ chain' = Tail(chain) /\ cycle' = cycle
          /\ chain \in Seq(Node) /\ chain # <<>>
      BY <1>0, <1>3, OpenFacts
      DEF GetDataUnlink, ReceiverHolds, ChainHead, IInv, ListInv, ReceiverView
    <2>2. Tail(chain) # <<>> /\ Tail(chain)[1] = Head(Tail(chain))
      <3>1. Tail(chain) \in Seq(Node) /\ Len(Tail(chain)) # 0
        BY <2>1, TailFacts
      <3>2. Tail(chain) # <<>>
        BY <3>1, EmptyIffNoLen
      <3> QED BY <3>2
    <2>3. /\ ChRetiring = NULL /\ ChRetiring' = ChCurrent /\ ChIdle' = ChIdle
          /\ ChQueue # <<>> /\ ChCurrent' = Head(ChQueue) /\ ChQueue' = Tail(ChQueue)
      BY <1>0, <1>c, <2>1, <2>2 DEF ChRetiring, ChIdle, ChQueue, Elems
    <2>4. Channel!Receive
      BY <1>0, <2>3 DEF Channel!Receive
    <2> QED BY <2>4 DEF Channel!CNext
  <1>4. CASE GetDataDelete
    <2>1. /\ ReceiverHolds = {head_} /\ ReceiverHolds' = {} /\ head_ \in Node
          /\ UNCHANGED <<chain, cycle>>
      BY <1>4 DEF GetDataDelete, ReceiverHolds, IInv, ListInv, Ownership
    <2>2. /\ ChRetiring = head_ /\ ChRetiring' = NULL /\ ChIdle' = ChIdle
          /\ ChQueue' = ChQueue /\ ChCurrent' = ChCurrent
      BY <1>0, <1>c, <2>1 DEF ChRetiring, ChIdle, ChQueue, Elems
    <2>3. Channel!Retire
      BY <1>0, <2>1, <2>2, NodeAssumption DEF Channel!Retire
    <2> QED BY <2>3 DEF Channel!CNext
  <1>5. CASE GetDataRecycle \/ GetDataLinkFirst
    <2>1. /\ ReceiverHolds = {head_} /\ ReceiverHolds' = {} /\ head_ \in Node
          /\ chain' = chain /\ cycle' = Append(cycle, head_) /\ cycle \in Seq(Node)
      BY <1>0, <1>5, OpenFacts
      DEF GetDataRecycle, GetDataLinkFirst, ReceiverHolds, IInv, ListInv, Ownership
    <2>2. Elems(cycle') = Elems(cycle) \cup {head_}
      BY <2>1, ElemsAppend
    <2>3. /\ ChRetiring = head_ /\ ChRetiring' = NULL /\ ChIdle' = ChIdle \cup {ChRetiring}
          /\ ChQueue' = ChQueue /\ ChCurrent' = ChCurrent
      BY <1>0, <1>c, <2>1, <2>2 DEF ChRetiring, ChIdle, ChQueue
    <2>4. Channel!Retire
      BY <1>0, <2>1, <2>3, NodeAssumption DEF Channel!Retire
    <2> QED BY <2>4 DEF Channel!CNext
  <1> QED BY <1>1, <1>2, <1>3, <1>4, <1>5 DEF Receiver

\* The destructor tears the channel down in one step of the channel.
LEMMA DestructorStep ==
  ASSUME IInv, IInv', Destructor
  PROVE  [Channel!CNext]_Channel!cvars
  <1> USE DEF listVars, nodeVars, sVars, rVars, auxVars
  <1>1. CASE Destroy
    <2>1. /\ SenderHolds = {} /\ SenderHolds' = {} /\ ReceiverHolds = {} /\ ReceiverHolds' = {}
          /\ phase' # "open"
      BY <1>1 DEF Destroy, SenderHolds, ReceiverHolds
    <2>2. Channel!Teardown
      BY <2>1 DEF Channel!Teardown, ChHeld, ChRetiring, ChQueue, ChCurrent, ChIdle
    <2> QED BY <2>2 DEF Channel!CNext
  <1>2. CASE DestroyMain \/ DestroyCycle
    <2>1. /\ phase # "open" /\ phase' # "open" /\ spc' = spc /\ rpc' = rpc
      BY <1>2 DEF DestroyMain, DestroyCycle
    <2>2. /\ SenderHolds = {} /\ SenderHolds' = {} /\ ReceiverHolds = {} /\ ReceiverHolds' = {}
      BY <2>1 DEF IInv, ListInv, Closing, SenderHolds, ReceiverHolds
    <2> QED BY <2>1, <2>2 DEF Channel!cvars, ChHeld, ChRetiring, ChQueue, ChCurrent, ChIdle
  <1> QED BY <1>1, <1>2 DEF Destructor

\* CycleList implements CmdChannel: commands arrive in the order they were sent,
\* each once, and each has one holder at a time.
THEOREM Refinement == Spec => ImplementsChannel
  <1>1. Init => Channel!CInit
    <2> SUFFICES ASSUME Init PROVE Channel!CInit
      OBVIOUS
    <2>1. Tail(<<Head0>>) = <<>> /\ <<Head0>>[1] = Head0
      OBVIOUS
    <2>2. Elems(<<Cycle0>>) = {Cycle0}
      BY DEF Elems
    <2> QED BY <2>1, <2>2 DEF Init, Channel!CInit, ChHeld, ChRetiring, ChQueue, ChCurrent,
                              ChIdle, ChainHead, SenderHolds, ReceiverHolds
  <1>2. IInv /\ IInv' /\ [Next]_vars => [Channel!CNext]_Channel!cvars
    <2> SUFFICES ASSUME IInv, IInv', [Next]_vars PROVE [Channel!CNext]_Channel!cvars
      OBVIOUS
    <2>1. CASE UNCHANGED vars
      BY <2>1, Stutter DEF vars, listVars, sVars, rVars, auxVars, SenderHolds, ReceiverHolds
    <2> QED BY <2>1, SenderStep, ReceiverStep, DestructorStep DEF Next
  <1>3. Spec => []IInv
    BY InitInv, NextInv, PTL DEF Spec
  <1> QED BY <1>1, <1>2, <1>3, PTL DEF Spec, ImplementsChannel, Channel!CSpec

------------------------------------------------------------------------------
(* Transfer commands, which are recycled by the list they travel on, for    *)
(* any set of them and buffers of any length.                              *)

Content == Seq(Nat \X Nat)
CmdState == [data : Content, len : Nat]

TCTypes ==
  /\ tcCmd \in [TcCmds -> CmdState]
  /\ tcNew \subseteq TcCmds /\ tcIdle \subseteq TcCmds
  /\ tcQueue \in Seq(TcCmds \X Nat) /\ tcSent \in Seq(Content) /\ tcGot \in Seq(Nat \X Content)
  /\ tcFault \in {"none", "null", "over"}

\* A transfer before the k-th had bytes.
Before(sent, k) == \E j \in 1..(k - 1) : sent[j] # << >>

\* What a command has that carries the k-th transfer: its bytes; or, when there
\* are none, NULL and the length of an earlier use.
Carries(cmd, sent, k) ==
  /\ k \in 1..Len(sent)
  /\ sent[k] # << >> => cmd.data = sent[k] /\ cmd.len = Len(sent[k])
  /\ sent[k] = << >> => cmd.data = << >> /\ (cmd.len # 0 => Before(sent, k))

\* What a command has that is not on its way.
Rests(cmd, sent) == cmd.data = << >> /\ (cmd.len # 0 => Before(sent, Len(sent) + 1))

\* A command is on its way once, or at rest.
TCOnce ==
  /\ \A i \in 1..Len(tcQueue) : tcQueue[i][1] \notin tcNew \cup tcIdle
  /\ \A i, j \in 1..Len(tcQueue) : tcQueue[i][1] = tcQueue[j][1] => i = j
TCWay == \A i \in 1..Len(tcQueue) : Carries(tcCmd[tcQueue[i][1]], tcSent, tcQueue[i][2])
TCRest == \A c \in tcNew \cup tcIdle : Rests(tcCmd[c], tcSent)
TCGot == \A i \in 1..Len(tcGot) : tcGot[i][1] \in 1..Len(tcSent) /\ tcGot[i][2] = tcSent[tcGot[i][1]]
TCFault == tcFault # "none" => /\ tcFault = "null" /\ tcQueue # << >>
                               /\ tcSent[tcQueue[1][2]] = << >> /\ Before(tcSent, tcQueue[1][2])

TCInv == TCTypes /\ TCOnce /\ TCWay /\ TCRest /\ TCGot /\ TCFault

LEMMA BytesEffect ==
  ASSUME NEW k \in Nat, NEW n \in Nat
  PROVE  Bytes(k, n) \in Content /\ Len(Bytes(k, n)) = n
<1>1. \A i \in 1..n : <<k, i>> \in Nat \X Nat
  OBVIOUS
<1> QED
  BY <1>1 DEF Bytes, Content

\* TCPTransfer, UNIXTransfer.
LEMMA TransferStep ==
  ASSUME TCInv, TcAssumption, NEW c \in TcCmds, NEW n \in 0..TcMaxLen, TCTransfer(c, n)
  PROVE  TCInv'
<1>1. PICK k \in Nat : k = Len(tcSent) + 1 /\ k > 0
  BY DEF TCInv, TCTypes
<1>2. PICK b \in Content : b = Bytes(k, n)
  BY BytesEffect, TcAssumption
<1>3. PICK q \in TcCmds \X Nat : q = <<c, k>>
  OBVIOUS
<1>4. /\ TCTypes /\ TCOnce /\ TCWay /\ TCRest /\ TCGot /\ TCFault /\ tcFault = "none"
      /\ c \in tcNew \cup tcIdle
      /\ tcNew' = tcNew \ {c} /\ tcIdle' = tcIdle \ {c}
      /\ tcCmd' = [tcCmd EXCEPT ![c] = Fill(tcCmd[c], b)]
      /\ tcQueue' = Append(tcQueue, q) /\ tcSent' = Append(tcSent, b)
      /\ UNCHANGED <<tcGot, tcFault>>
  BY <1>1, <1>2, <1>3 DEF TCInv, TCTransfer
<1>5. /\ tcSent \in Seq(Content) /\ Len(tcSent) = k - 1 /\ tcSent' \in Seq(Content) /\ Len(tcSent') = k
      /\ tcSent'[k] = b /\ \A j \in 1..(k - 1) : tcSent'[j] = tcSent[j]
  <2>1. tcSent \in Seq(Content) /\ Len(tcSent) = k - 1
    BY <1>1, <1>4 DEF TCTypes
  <2> QED
    BY <1>1, <1>4, <2>1, AppendProperties
<1>6. PICK l \in Nat : l = Len(tcQueue) /\ tcQueue \in Seq(TcCmds \X Nat)
  BY <1>4 DEF TCTypes
<1>7. /\ tcQueue' \in Seq(TcCmds \X Nat) /\ Len(tcQueue') = l + 1
      /\ tcQueue'[l + 1] = q /\ \A i \in 1..l : tcQueue'[i] = tcQueue[i] /\ tcQueue[i] \in TcCmds \X Nat
  BY <1>4, <1>6, AppendProperties
<1>8. q[1] = c /\ q[2] = k
  BY <1>3
<1>9. \A i \in 1..l : tcQueue[i][1] \in TcCmds /\ tcQueue[i][1] # c
  BY <1>4, <1>6, <1>7 DEF TCOnce
<1>10. /\ tcCmd' \in [TcCmds -> CmdState] /\ tcCmd'[c] = Fill(tcCmd[c], b)
       /\ \A x \in TcCmds : x # c => tcCmd'[x] = tcCmd[x]
  <2>1. tcCmd \in [TcCmds -> CmdState] /\ Fill(tcCmd[c], b) \in CmdState
    BY <1>4 DEF TCTypes, Fill, CmdState, Content
  <2> QED
    BY <1>4, <2>1
<1>11. \A j \in 1..k : Before(tcSent, j) => Before(tcSent', j)
  BY <1>1, <1>5 DEF Before
<1>12. TCTypes'
  BY <1>4, <1>5, <1>7, <1>10 DEF TCTypes
<1>13. TCOnce'
  <2>1. ASSUME NEW i \in 1..(l + 1) PROVE tcQueue'[i][1] \notin tcNew' \cup tcIdle'
    <3>1. CASE i = l + 1
      BY <1>4, <1>7, <1>8, <3>1
    <3>2. CASE i \in 1..l
      BY <1>4, <1>6, <1>7, <3>2 DEF TCOnce
    <3> QED
      BY <3>1, <3>2
  <2>2. ASSUME NEW i \in 1..(l + 1), NEW j \in 1..(l + 1), tcQueue'[i][1] = tcQueue'[j][1] PROVE i = j
    <3>1. CASE i \in 1..l /\ j \in 1..l
      BY <1>4, <1>6, <1>7, <2>2, <3>1 DEF TCOnce
    <3>2. CASE i = l + 1 /\ j \in 1..l
      <4>1. tcQueue'[i][1] = c /\ tcQueue'[j][1] # c
        BY <1>7, <1>8, <1>9, <3>2
      <4> QED
        BY <2>2, <4>1
    <3>3. CASE i \in 1..l /\ j = l + 1
      <4>1. tcQueue'[j][1] = c /\ tcQueue'[i][1] # c
        BY <1>7, <1>8, <1>9, <3>3
      <4> QED
        BY <2>2, <4>1
    <3> QED
      BY <3>1, <3>2, <3>3
  <2> QED
    BY <1>7, <2>1, <2>2 DEF TCOnce
<1>14. TCWay'
  <2>1. ASSUME NEW i \in 1..(l + 1) PROVE Carries(tcCmd'[tcQueue'[i][1]], tcSent', tcQueue'[i][2])
    <3>1. CASE i = l + 1
      <4>1. tcQueue'[i][1] = c /\ tcQueue'[i][2] = k
        BY <1>7, <1>8, <3>1
      <4>2. Rests(tcCmd[c], tcSent)
        BY <1>4 DEF TCRest
      <4>3. CASE b = << >>
        <5>1. tcCmd'[c] = tcCmd[c]
          BY <1>10, <4>3 DEF Fill
        <5>2. tcCmd[c].len # 0 => Before(tcSent', k)
          BY <1>1, <1>11, <4>2 DEF Rests
        <5> QED
          BY <1>1, <1>5, <4>1, <4>2, <4>3, <5>1, <5>2 DEF Rests, Carries
      <4>4. CASE b # << >>
        BY <1>1, <1>5, <1>10, <4>1, <4>4 DEF Fill, Carries
      <4> QED
        BY <4>3, <4>4
    <3>2. CASE i \in 1..l
      <4>1. tcQueue'[i] = tcQueue[i] /\ tcCmd'[tcQueue[i][1]] = tcCmd[tcQueue[i][1]]
        BY <1>7, <1>9, <1>10, <3>2
      <4>2. Carries(tcCmd[tcQueue[i][1]], tcSent, tcQueue[i][2])
        BY <1>4, <1>6, <3>2 DEF TCWay
      <4>3. tcQueue[i][2] \in 1..(k - 1) /\ tcQueue[i][2] \in 1..k
        BY <1>1, <1>5, <4>2 DEF Carries
      <4>4. /\ tcSent'[tcQueue[i][2]] = tcSent[tcQueue[i][2]]
            /\ Before(tcSent, tcQueue[i][2]) => Before(tcSent', tcQueue[i][2])
        BY <1>5, <1>11, <4>3
      <4> QED
        BY <1>5, <4>1, <4>2, <4>3, <4>4 DEF Carries
    <3> QED
      BY <3>1, <3>2
  <2> QED
    BY <1>7, <2>1 DEF TCWay
<1>15. TCRest'
  <2>1. ASSUME NEW x \in tcNew' \cup tcIdle' PROVE Rests(tcCmd'[x], tcSent')
    <3>1. x \in tcNew \cup tcIdle /\ x # c /\ x \in TcCmds
      BY <1>4, <2>1 DEF TCTypes
    <3>2. Rests(tcCmd[x], tcSent) /\ tcCmd'[x] = tcCmd[x]
      BY <1>4, <1>10, <3>1 DEF TCRest
    <3>3. Before(tcSent, k) => Before(tcSent', k + 1)
      BY <1>1, <1>5 DEF Before
    <3> QED
      BY <1>1, <1>5, <3>2, <3>3 DEF Rests
  <2> QED
    BY <2>1 DEF TCRest
<1>16. TCGot'
  <2>1. ASSUME NEW i \in 1..Len(tcGot)
        PROVE  tcGot[i][1] \in 1..k /\ tcGot[i][2] = tcSent'[tcGot[i][1]]
    <3>1. tcGot[i][1] \in 1..(k - 1) /\ tcGot[i][2] = tcSent[tcGot[i][1]]
      BY <1>4, <1>5, <2>1 DEF TCGot
    <3>2. tcSent'[tcGot[i][1]] = tcSent[tcGot[i][1]]
      BY <1>5, <3>1
    <3> QED
      BY <1>1, <3>1, <3>2
  <2> QED
    BY <1>4, <1>5, <2>1 DEF TCGot
<1>17. TCFault'
  BY <1>4 DEF TCFault
<1> QED
  BY <1>12, <1>13, <1>14, <1>15, <1>16, <1>17 DEF TCInv

\* Process() of a command.
LEMMA ProcessStep ==
  ASSUME TCInv, NEW created \in BOOLEAN, TCProcess(created)
  PROVE  TCInv'
<1>1. PICK q \in TcCmds \X Nat : q = tcQueue[1] /\ q = Head(tcQueue) /\ tcQueue # << >>
  BY DEF TCInv, TCTypes, TCProcess
<1>2. PICK c \in TcCmds, k \in Nat : c = q[1] /\ k = q[2] /\ q = <<c, k>>
  OBVIOUS
<1>3. PICK d \in CmdState : d = tcCmd[c]
  BY DEF TCInv, TCTypes
<1>4. TCTypes /\ TCOnce /\ TCWay /\ TCRest /\ TCGot /\ tcFault = "none"
  BY DEF TCInv, TCProcess
<1>5. PICK l \in Nat : l = Len(tcQueue) /\ l > 0 /\ tcQueue \in Seq(TcCmds \X Nat)
  BY <1>1, <1>4, EmptySeq DEF TCTypes
<1>6. Carries(d, tcSent, k) /\ d.data \in Content /\ d.len \in Nat /\ tcSent \in Seq(Content)
  <2>1. 1 \in 1..Len(tcQueue)
    BY <1>5
  <2>2. Carries(tcCmd[tcQueue[1][1]], tcSent, tcQueue[1][2])
    BY <1>4, <2>1 DEF TCWay
  <2> QED
    BY <1>1, <1>2, <1>3, <1>4, <2>2 DEF CmdState, TCTypes
<1>7. k \in 1..Len(tcSent) /\ tcSent[k] \in Content /\ d.data = tcSent[k] /\ Len(d.data) \in Nat
      /\ (d.data # << >> => d.len = Len(d.data)) /\ (d.data = << >> /\ d.len # 0 => Before(tcSent, k))
  BY <1>6 DEF Carries, Content
<1>8. CASE created /\ d.len > Len(d.data)
  <2>1. d.data = << >> /\ d.len # 0
    BY <1>6, <1>7, <1>8
  <2>2. tcFault' = "null" /\ UNCHANGED <<tcCmd, tcIdle, tcQueue, tcGot, tcNew, tcSent>>
    BY <1>1, <1>2, <1>3, <1>8, <2>1 DEF TCProcess
  <2>3. TCTypes' /\ TCOnce' /\ TCWay' /\ TCRest' /\ TCGot'
    BY <1>4, <2>2 DEF TCTypes, TCOnce, TCWay, TCRest, TCGot
  <2>4. TCFault'
    BY <1>1, <1>2, <1>7, <2>1, <2>2 DEF TCFault
  <2> QED
    BY <2>3, <2>4 DEF TCInv
<1>9. CASE ~(created /\ d.len > Len(d.data))
  <2> DEFINE g == <<k, SubSeq(d.data, 1, d.len)>>
  <2>1. /\ tcFault' = "none" /\ tcGot' = IF created THEN Append(tcGot, g) ELSE tcGot
        /\ tcCmd' = [tcCmd EXCEPT ![c].data = << >>]
        /\ tcIdle' = tcIdle \cup {c} /\ tcQueue' = Tail(tcQueue) /\ UNCHANGED <<tcNew, tcSent>>
    BY <1>1, <1>2, <1>3, <1>9 DEF TCProcess
  <2>2. created => g = <<k, tcSent[k]>>
    <3>1. SUFFICES ASSUME created PROVE SubSeq(d.data, 1, d.len) = d.data
      BY <1>7
    <3>2. d.len = Len(d.data)
      BY <1>6, <1>7, <1>9, <3>1, EmptySeq DEF Content
    <3> QED
      BY <1>6, <3>2, SubSeqFull DEF Content
  <2> HIDE DEF g
  <2>3. /\ tcQueue' \in Seq(TcCmds \X Nat) /\ Len(tcQueue') = l - 1
        /\ \A i \in 1..(l - 1) : tcQueue'[i] = tcQueue[i + 1]
    BY <1>1, <1>5, <2>1, HeadTailProperties
  <2>4. /\ tcCmd' \in [TcCmds -> CmdState] /\ tcCmd'[c].data = << >> /\ tcCmd'[c].len = d.len
        /\ \A x \in TcCmds : x # c => tcCmd'[x] = tcCmd[x]
    <3>1. tcCmd \in [TcCmds -> CmdState] /\ << >> \in Content
      BY <1>4 DEF TCTypes, Content
    <3> QED
      BY <1>3, <2>1, <3>1 DEF CmdState
  <2>5. \A i \in 1..(l - 1) : i + 1 \in 1..l /\ tcQueue[i + 1] \in TcCmds \X Nat /\ tcQueue[i + 1][1] \in TcCmds
                              /\ tcQueue[i + 1][1] # c
    <3>1. \A i \in 1..(l - 1) : i + 1 \in 1..l /\ tcQueue[i + 1] \in TcCmds \X Nat
      BY <1>5
    <3>2. tcQueue[1][1] = c /\ 1 \in 1..l
      BY <1>1, <1>2, <1>5
    <3>3. \A i, j \in 1..l : tcQueue[i][1] = tcQueue[j][1] => i = j
      BY <1>4, <1>5 DEF TCOnce
    <3> QED
      BY <1>5, <3>1, <3>2, <3>3
  <2>6. TCGot' /\ tcGot' \in Seq(Nat \X Content)
    <3>1. tcGot \in Seq(Nat \X Content)
      BY <1>4 DEF TCTypes
    <3>2. CASE created
      <4>1. g \in Nat \X Content /\ g[1] = k /\ g[2] = tcSent[k]
        BY <1>7, <2>2, <3>2
      <4>2. /\ tcGot' \in Seq(Nat \X Content) /\ Len(tcGot') = Len(tcGot) + 1 /\ Len(tcGot) \in Nat
            /\ tcGot'[Len(tcGot) + 1] = g /\ \A i \in 1..Len(tcGot) : tcGot'[i] = tcGot[i]
        BY <2>1, <3>1, <3>2, <4>1, AppendProperties
      <4> QED
        BY <1>4, <1>7, <2>1, <4>1, <4>2 DEF TCGot
    <3>3. CASE ~created
      BY <1>4, <2>1, <3>1, <3>3 DEF TCGot
    <3> QED
      BY <3>2, <3>3
  <2>7. TCTypes'
    BY <1>4, <2>1, <2>3, <2>4, <2>6 DEF TCTypes
  <2>8. TCOnce'
    <3>1. ASSUME NEW i \in 1..(l - 1) PROVE tcQueue'[i][1] \notin tcNew' \cup tcIdle'
      BY <1>4, <1>5, <2>1, <2>3, <2>5 DEF TCOnce
    <3>2. ASSUME NEW i \in 1..(l - 1), NEW j \in 1..(l - 1), tcQueue'[i][1] = tcQueue'[j][1] PROVE i = j
      <4>1. tcQueue[i + 1][1] = tcQueue[j + 1][1]
        BY <2>3, <3>2
      <4>2. PICK a \in 1..l, b \in 1..l : a = i + 1 /\ b = j + 1
        BY <2>5
      <4>3. a = b
        BY <1>4, <1>5, <4>1, <4>2 DEF TCOnce
      <4> QED
        BY <4>2, <4>3
    <3> QED
      BY <2>3, <3>1, <3>2 DEF TCOnce
  <2>9. TCWay'
    <3>1. ASSUME NEW i \in 1..(l - 1) PROVE Carries(tcCmd'[tcQueue'[i][1]], tcSent', tcQueue'[i][2])
      <4>1. tcQueue'[i] = tcQueue[i + 1] /\ tcCmd'[tcQueue[i + 1][1]] = tcCmd[tcQueue[i + 1][1]]
        BY <2>3, <2>4, <2>5
      <4>2. Carries(tcCmd[tcQueue[i + 1][1]], tcSent, tcQueue[i + 1][2])
        BY <1>4, <1>5, <2>5 DEF TCWay
      <4> QED
        BY <2>1, <4>1, <4>2
    <3> QED
      BY <2>3, <3>1 DEF TCWay
  <2>10. TCRest'
    <3>1. ASSUME NEW x \in tcNew' \cup tcIdle' PROVE Rests(tcCmd'[x], tcSent')
      <4>1. CASE x = c
        <5>1. d.len # 0 => Before(tcSent, Len(tcSent) + 1)
          <6>1. Len(tcSent) \in Nat
            BY <1>6
          <6> QED
            BY <1>7, <6>1, EmptySeq DEF Before, Content
        <5> QED
          BY <2>1, <2>4, <4>1, <5>1 DEF Rests
      <4>2. CASE x # c
        <5>1. x \in tcNew \cup tcIdle /\ x \in TcCmds
          BY <1>4, <2>1, <3>1, <4>2 DEF TCTypes
        <5> QED
          BY <1>4, <2>1, <2>4, <4>2, <5>1 DEF TCRest
      <4> QED
        BY <4>1, <4>2
    <3> QED
      BY <3>1 DEF TCRest
  <2>11. TCFault'
    BY <2>1 DEF TCFault
  <2> QED
    BY <2>6, <2>7, <2>8, <2>9, <2>10, <2>11 DEF TCInv
<1> QED
  BY <1>8, <1>9

\* For any number of command objects and transfers and buffers of any length,
\* however objects are recycled: the process that takes over a connection gets
\* the bytes its predecessor had left, and the only way to fail is an empty
\* buffer sent after one that was not (TCPTransfer, UNIXTransfer and Process()).
THEOREM TransferCarries == TCInit /\ [][TCNext]_tcVars => []TCCarried
<1>1. TCInit => TCInv
  <2>1. SUFFICES ASSUME TCInit PROVE TCInv
    OBVIOUS
  <2>2. << >> \in Content /\ Len(<< >>) = 0 /\ 1..0 = {}
    BY DEF Content
  <2>3. [data |-> << >>, len |-> 0] \in CmdState
    BY <2>2 DEF CmdState
  <2>4. TCTypes
    BY <2>1, <2>2, <2>3 DEF TCInit, TCTypes
  <2>5. TCOnce /\ TCWay /\ TCGot
    <3>1. Len(tcQueue) = 0 /\ Len(tcGot) = 0 /\ 1..0 = {}
      BY <2>1 DEF TCInit
    <3> QED
      BY <3>1 DEF TCOnce, TCWay, TCGot
  <2>6. TCRest
    BY <2>1 DEF TCInit, TCRest, Rests
  <2>7. TCFault
    BY <2>1 DEF TCInit, TCFault
  <2> QED
    BY <2>4, <2>5, <2>6, <2>7 DEF TCInv
<1>2. TCInv /\ [TCNext]_tcVars => TCInv'
  <2>1. SUFFICES ASSUME TCInv, [TCNext]_tcVars PROVE TCInv'
    OBVIOUS
  <2>2. CASE TCNext
    BY <2>1, <2>2, TransferStep, ProcessStep, TcAssumption DEF TCNext
  <2>3. CASE UNCHANGED tcVars
    BY <2>1, <2>3 DEF tcVars, TCInv, TCTypes, TCOnce, TCWay, TCRest, TCGot, TCFault
  <2> QED
    BY <2>1, <2>2, <2>3
<1>3. TCInv => TCCarried
  <2>1. SUFFICES ASSUME TCInv PROVE TCCarried
    OBVIOUS
  <2>2. tcGot \in Seq(Nat \X Content) /\ tcQueue \in Seq(TcCmds \X Nat) /\ TCGot /\ TCFault
    BY <2>1 DEF TCInv, TCTypes
  <2>3. DOMAIN tcGot = 1..Len(tcGot)
    BY <2>2
  <2>4. tcQueue # << >> => Head(tcQueue) = tcQueue[1]
    BY <2>2
  <2> QED
    BY <2>2, <2>3, <2>4 DEF TCCarried, TCGot, TCFault, Before
<1> QED
  BY <1>1, <1>2, <1>3, PTL

------------------------------------------------------------------------------
(* The two intrusive lists of container.h, for any nodes and any shifts.   *)

\* A set of numbers has a least one.
LEMMA LeastNumber ==
  ASSUME NEW T \in SUBSET Nat, T # {}
  PROVE  \E n \in T : \A i \in T : n <= i
<1> DEFINE R == OpToRel(<, Nat)
<1>1. IsWellFoundedOn(R, Nat)
  BY NatLessThanWellFounded
<1>2. \A x, y \in Nat : x < y => <<x, y>> \in R
  BY DEF OpToRel
<1> HIDE DEF R
<1>3. PICK n \in T : \A y \in T : ~(<<y, n>> \in R)
  BY <1>1, WFMin
<1>4. ASSUME NEW i \in T PROVE n <= i
  <2>1. n \in Nat /\ i \in Nat /\ ~(i < n)
    BY <1>2, <1>3, <1>4
  <2> QED
    BY <2>1
<1> QED
  BY <1>4

\* A walk that is known step by step is the one Walk takes.
LEMMA WalkIs ==
  ASSUME NEW to, NEW from, NEW k \in Nat, NEW f, f = [i \in 0..k |-> IF i = 0 THEN from ELSE to[f[i - 1]]]
  PROVE  Walk(to, from, k) = f[k]
<1> DEFINE at[i \in 0..k] == IF i = 0 THEN from ELSE to[at[i - 1]]
<1>1. at = [i \in 0..k |-> IF i = 0 THEN from ELSE to[at[i - 1]]]
  OBVIOUS
<1>2. Walk(to, from, k) = at[k]
  BY DEF Walk
<1> HIDE DEF at
<1> DEFINE T == {i \in 0..k : at[i] # f[i]}
<1>3. SUFFICES ASSUME T # {} PROVE FALSE
  <2>1. k \in 0..k
    OBVIOUS
  <2> QED
    BY <1>2, <1>3, <2>1
<1>4. T \in SUBSET Nat
  OBVIOUS
<1>5. PICK i \in T : \A j \in T : i <= j
  BY <1>3, <1>4, LeastNumber
<1>6. i # 0
  BY <1>1, <1>5
<1>7. i \in 0..k /\ i - 1 \in 0..k /\ ~(i <= i - 1)
  BY <1>5, <1>6
<1>8. at[i - 1] = f[i - 1]
  BY <1>5, <1>7
<1>9. at[i] = f[i]
  BY <1>1, <1>6, <1>7, <1>8
<1> QED
  BY <1>5, <1>9

\* Division with a remainder, and that there is one remainder only.
LEMMA ModDef ==
  ASSUME NEW a \in Nat, NEW n \in Nat \ {0}
  PROVE  a % n \in 0..(n - 1) /\ a \div n \in Nat /\ a = n * (a \div n) + (a % n)
  OBVIOUS

LEMMA ModUnique ==
  ASSUME NEW n \in Nat \ {0}, NEW q \in Int, NEW p \in Int, NEW r \in 0..(n - 1), NEW s \in 0..(n - 1),
         n * q + r = n * p + s
  PROVE  r = s
<1>1. CASE q = p
  <2>1. n * q = n * p /\ n * q \in Int
    BY <1>1
  <2> QED
    BY <2>1
<1>2. ASSUME NEW x \in Int, NEW y \in Int, x >= y + 1 PROVE n * x >= n * y + n
  <2>1. PICK z \in Nat : x = y + 1 + z
    <3>1. x - y - 1 \in Nat /\ x = y + 1 + (x - y - 1)
      BY <1>2
    <3> QED
      BY <3>1
  <2>2. n * x = n * y + n + n * z
    BY <2>1
  <2>3. n * z >= 0 /\ n * z \in Int /\ n * y \in Int
    BY <2>1
  <2> QED
    BY <2>2, <2>3
<1>3. n * q \in Int /\ n * p \in Int
  OBVIOUS
<1>4. CASE q >= p + 1
  BY <1>2, <1>3, <1>4
<1>5. CASE p >= q + 1
  BY <1>2, <1>3, <1>5
<1> QED
  BY <1>1, <1>4, <1>5

\* Adding to a remainder.
LEMMA ModAdd ==
  ASSUME NEW a \in Nat, NEW b \in Nat, NEW n \in Nat \ {0}
  PROVE  ((a % n) + b) % n = (a + b) % n
<1> DEFINE q == a \div n
           r == a % n
           p == (r + b) \div n
           s == (r + b) % n
           u == (a + b) \div n
           t == (a + b) % n
<1>1. r \in 0..(n - 1) /\ q \in Nat /\ a = n * q + r
  BY ModDef
<1>2. r + b \in Nat /\ a + b \in Nat
  BY <1>1
<1>3. s \in 0..(n - 1) /\ p \in Nat /\ r + b = n * p + s
  BY <1>2, ModDef
<1>4. t \in 0..(n - 1) /\ u \in Nat /\ a + b = n * u + t
  BY <1>2, ModDef
<1> HIDE DEF q, r, p, s, u, t
<1>5. n * (q + p) + s = n * u + t
  <2>1. n * (q + p) = n * q + n * p
    BY <1>1, <1>3
  <2>2. n * q \in Int /\ n * p \in Int /\ n * u \in Int
    BY <1>1, <1>3, <1>4
  <2> QED
    BY <1>1, <1>3, <1>4, <2>1, <2>2
<1>6. s = t
  <2>1. q + p \in Int /\ u \in Int
    BY <1>1, <1>3, <1>4
  <2> QED
    BY <1>3, <1>4, <1>5, <2>1, ModUnique
<1> QED
  BY <1>6 DEF s, t, r

\* A remainder that is its own.
LEMMA ModSmall == ASSUME NEW n \in Nat \ {0}, NEW a \in Nat, a < n PROVE a % n = a /\ (a + n) % n = a /\ n % n = 0
<1>1. a % n = a
  OBVIOUS
<1>2. n % n = 0
  OBVIOUS
<1>3. ((n % n) + a) % n = (n + a) % n
  BY ModAdd
<1> QED
  BY <1>1, <1>2, <1>3

------------------------------------------------------------------------------
(* Sequences of nodes *)

LsOrNull == LsNode \cup {LsNull}

\* The places after and before i on a ring of n.
Nx(i, n) == IF i = n THEN 1 ELSE i + 1
Pv(i, n) == IF i = 1 THEN n ELSE i - 1

\* A sequence of nodes, none of them twice.
Once(s) == /\ s \in Seq(LsNode)
           /\ \A i, j \in 1..Len(s) : s[i] = s[j] => i = j

Off(s, x) == \A i \in 1..Len(s) : s[i] # x

LEMMA OffMember == ASSUME NEW s \in Seq(LsNode), NEW x PROVE Member(s, x) <=> ~Off(s, x)
  BY DEF Member, Off

LEMMA OnceEmpty == Once(<< >>) /\ Len(<< >>) = 0 /\ \A x : Off(<< >>, x)
<1>1. << >> \in Seq(LsNode) /\ Len(<< >>) = 0 /\ 1..0 = {}
  OBVIOUS
<1> QED
  BY <1>1 DEF Once, Off

LEMMA OnceAppend ==
  ASSUME NEW s, Once(s), NEW n \in LsNode, Off(s, n)
  PROVE  /\ Once(Append(s, n)) /\ Len(Append(s, n)) = Len(s) + 1 /\ Len(s) \in Nat
         /\ \A i \in 1..Len(s) : Append(s, n)[i] = s[i]
         /\ Append(s, n)[Len(s) + 1] = n
         /\ \A x : Off(Append(s, n), x) <=> (Off(s, x) /\ x # n)
<1>1. s \in Seq(LsNode) /\ Len(s) \in Nat
  BY DEF Once
<1>2. /\ Append(s, n) \in Seq(LsNode) /\ Len(Append(s, n)) = Len(s) + 1
      /\ \A i \in 1..Len(s) : Append(s, n)[i] = s[i]
      /\ Append(s, n)[Len(s) + 1] = n
  BY <1>1, AppendProperties
<1>3. \A i \in 1..(Len(s) + 1) : i \in 1..Len(s) \/ i = Len(s) + 1
  BY <1>1
<1>4. \A i, j \in 1..(Len(s) + 1) : Append(s, n)[i] = Append(s, n)[j] => i = j
  BY <1>1, <1>2, <1>3 DEF Once, Off
<1>5. \A x : Off(Append(s, n), x) <=> (Off(s, x) /\ x # n)
  <2>1. Len(s) + 1 \in 1..(Len(s) + 1) /\ \A i \in 1..Len(s) : i \in 1..(Len(s) + 1)
    BY <1>1
  <2> QED
    BY <1>2, <1>3, <2>1 DEF Off
<1> QED
  BY <1>1, <1>2, <1>4, <1>5 DEF Once

\* The place in s of the entry at i of what is left without place a.
Kept(i, a) == IF i < a THEN i ELSE i + 1

LEMMA OnceWithout ==
  ASSUME NEW s, Once(s), NEW a \in 1..Len(s)
  PROVE  /\ Once(LsWithout(s, s[a])) /\ Len(LsWithout(s, s[a])) = Len(s) - 1 /\ Len(s) \in Nat
         /\ \A i \in 1..(Len(s) - 1) : LsWithout(s, s[a])[i] = s[Kept(i, a)] /\ Kept(i, a) \in 1..Len(s)
         /\ \A x : Off(LsWithout(s, s[a]), x) <=> (Off(s, x) \/ x = s[a])
<1> DEFINE m == Len(s)
           u == LsWithout(s, s[a])
<1>1. s \in Seq(LsNode) /\ m \in Nat /\ DOMAIN s = 1..m
  BY DEF Once
<1>2. Member(s, s[a]) /\ (CHOOSE i \in DOMAIN s : s[i] = s[a]) = a
  BY <1>1 DEF Once, Member
<1>3. u = [i \in 1..(m - 1) |-> s[Kept(i, a)]]
  BY <1>2 DEF LsWithout, Kept
<1>4. \A i \in 1..(m - 1) : Kept(i, a) \in 1..m /\ Kept(i, a) # a
  BY <1>1 DEF Kept
<1> HIDE DEF u, m
<1>5. m - 1 \in Nat
  BY <1>1 DEF m
<1>6. u \in Seq(LsNode) /\ Len(u) = m - 1 /\ \A i \in 1..(m - 1) : u[i] = s[Kept(i, a)]
  <2>1. \A i \in 1..m : s[i] \in LsNode
    BY <1>1 DEF m
  <2>2. \A i \in 1..(m - 1) : s[Kept(i, a)] \in LsNode
    BY <1>4, <2>1
  <2> QED
    BY <1>3, <1>5, <2>2
<1>7. \A i, j \in 1..(m - 1) : Kept(i, a) = Kept(j, a) => i = j
  BY <1>1 DEF Kept, m
<1>8. Once(u)
  BY <1>4, <1>6, <1>7 DEF Once, m
<1>9. \A j \in 1..m : j # a => \E i \in 1..(m - 1) : Kept(i, a) = j
  <2>1. ASSUME NEW j \in 1..m, j # a PROVE \E i \in 1..(m - 1) : Kept(i, a) = j
    <3>1. CASE j < a
      <4>1. j \in 1..(m - 1) /\ Kept(j, a) = j
        BY <1>1, <3>1 DEF Kept, m
      <4> QED
        BY <4>1
    <3>2. CASE ~(j < a)
      <4>1. j - 1 \in 1..(m - 1) /\ Kept(j - 1, a) = j
        BY <1>1, <2>1, <3>2 DEF Kept, m
      <4> QED
        BY <4>1
    <3> QED
      BY <3>1, <3>2
  <2> QED
    BY <2>1
<1>10. ASSUME NEW x PROVE Off(u, x) <=> (Off(s, x) \/ x = s[a])
  <2>1. Off(u, x) <=> \A i \in 1..(m - 1) : s[Kept(i, a)] # x
    BY <1>6 DEF Off
  <2>2. Off(s, x) <=> \A j \in 1..m : s[j] # x
    BY DEF Off, m
  <2>3. (\A i \in 1..(m - 1) : s[Kept(i, a)] # x) => \A j \in 1..m : j # a => s[j] # x
    BY <1>9
  <2>4. ASSUME x = s[a] PROVE \A i \in 1..(m - 1) : s[Kept(i, a)] # x
    BY <1>4, <2>4 DEF Once, m
  <2>5. (\A j \in 1..m : s[j] # x) => \A i \in 1..(m - 1) : s[Kept(i, a)] # x
    BY <1>4
  <2> QED
    BY <2>1, <2>2, <2>3, <2>4, <2>5
<1> QED
  BY <1>1, <1>4, <1>6, <1>8, <1>10 DEF u, m

LEMMA WithoutOff ==
  ASSUME NEW s, Once(s), NEW x, Off(s, x)
  PROVE  LsWithout(s, x) = s
  BY OffMember DEF LsWithout, Once

\* The head of a sequence is what Tail leaves out.
LEMMA TailIsWithout ==
  ASSUME NEW s, Once(s), s # << >>
  PROVE  Tail(s) = LsWithout(s, s[1]) /\ 1 \in 1..Len(s)
<1>1. s \in Seq(LsNode) /\ Len(s) \in Nat /\ Len(s) # 0
  BY DEF Once
<1>2. 1 \in 1..Len(s)
  BY <1>1
<1> DEFINE w == LsWithout(s, s[1])
<1>3. w \in Seq(LsNode) /\ Len(w) = Len(s) - 1 /\ \A i \in 1..(Len(s) - 1) : w[i] = s[Kept(i, 1)]
  BY <1>2, OnceWithout DEF Once
<1> HIDE DEF w
<1>4. Tail(s) \in Seq(LsNode) /\ Len(Tail(s)) = Len(s) - 1 /\ \A i \in 1..(Len(s) - 1) : Tail(s)[i] = s[i + 1]
  BY <1>1
<1>5. \A i \in 1..(Len(s) - 1) : Kept(i, 1) = i + 1
  BY <1>1 DEF Kept
<1>6. Tail(s) = w
  BY <1>3, <1>4, <1>5, SeqEqual
<1> QED
  BY <1>2, <1>6 DEF w

------------------------------------------------------------------------------
(* DoublyList *)

DlType == [head : LsOrNull, count : Nat, next : [LsNode -> LsOrNull], prev : [LsNode -> LsOrNull]]

\* The list d is the ring s.
RingOK(d, s) ==
  /\ d \in DlType /\ Once(s)
  /\ d.count = Len(s)
  /\ d.head = IF Len(s) = 0 THEN LsNull ELSE s[1]
  /\ \A i \in 1..Len(s) : d.next[s[i]] = s[Nx(i, Len(s))] /\ d.prev[s[Nx(i, Len(s))]] = s[i]
  /\ \A x \in LsNode : Off(s, x) => d.next[x] = LsNull /\ d.prev[x] = LsNull

\* The place after the last is the first.
LEMMA NxMod ==
  ASSUME NEW n \in Nat, NEW i \in 1..n
  PROVE  /\ (i % n) + 1 = Nx(i, n) /\ Nx(i, n) \in 1..n /\ Pv(i, n) \in 1..n
         /\ Nx(Pv(i, n), n) = i /\ Pv(Nx(i, n), n) = i
<1>1. n \in Nat \ {0} /\ i \in Nat /\ (i < n \/ i = n)
  OBVIOUS
<1>2. (i % n) + 1 = Nx(i, n)
  <2>1. CASE i < n
    BY <1>1, <2>1, ModSmall DEF Nx
  <2>2. CASE i = n
    <3>1. 0 \in Nat /\ 0 < n
      BY <1>1
    <3>2. n % n = 0
      BY <1>1, <3>1, ModSmall
    <3> QED
      BY <2>2, <3>2 DEF Nx
  <2> QED
    BY <1>1, <2>1, <2>2
<1>3. Nx(i, n) \in 1..n /\ Pv(i, n) \in 1..n /\ Nx(Pv(i, n), n) = i /\ Pv(Nx(i, n), n) = i
  BY DEF Nx, Pv
<1> QED
  BY <1>2, <1>3

\* RingOK is what the run checks, and more.
LEMMA RingIsRing ==
  ASSUME RingOK(dl, ring)
  PROVE  DLRing
<1>1. ring \in Seq(LsNode) /\ Len(ring) \in Nat
  BY DEF RingOK, Once
<1>2. \A i \in 1..Len(ring) : (i % Len(ring)) + 1 = Nx(i, Len(ring))
  BY <1>1, NxMod
<1>3. \A x \in LsNode : ~Member(ring, x) => Off(ring, x)
  BY <1>1, OffMember
<1> QED
  BY <1>2, <1>3 DEF DLRing, RingOK

LEMMA InsertRingOK ==
  ASSUME LsAssumption, NEW d, NEW s, RingOK(d, s), NEW n \in LsNode, Off(s, n)
  PROVE  RingOK(InsertRing(d, n), Append(s, n))
<1> DEFINE e == InsertRing(d, n)
           t == Append(s, n)
           m == Len(s)
<1>1. /\ d \in DlType /\ Once(s) /\ m \in Nat /\ d.count = m
      /\ \A i \in 1..m : s[i] \in LsNode
      /\ \A i, j \in 1..m : s[i] = s[j] => i = j
  BY DEF RingOK, Once
<1>2. /\ Once(t) /\ Len(t) = m + 1
      /\ \A i \in 1..m : t[i] = s[i]
      /\ t[m + 1] = n
      /\ \A x : Off(t, x) <=> (Off(s, x) /\ x # n)
  BY <1>1, OnceAppend
<1>3. \A i \in 1..m : s[i] # n
  BY DEF Off
<1>4. CASE m = 0
  <2>1. d.head = LsNull /\ \A x : Off(s, x)
    BY <1>4 DEF RingOK, Off
  <2>2. e = [d EXCEPT !.count = @ + 1, !.head = n, !.prev[n] = n, !.next[n] = n]
    BY <2>1 DEF InsertRing
  <2>3. /\ e \in DlType /\ e.count = 1 /\ e.head = n /\ e.next[n] = n /\ e.prev[n] = n
        /\ \A x \in LsNode : x # n => e.next[x] = d.next[x] /\ e.prev[x] = d.prev[x]
    <3>1. d.next \in [LsNode -> LsOrNull] /\ d.prev \in [LsNode -> LsOrNull]
      BY <1>1 DEF DlType
    <3>2. e.count = 1 /\ e.head = n /\ e.next = [d.next EXCEPT ![n] = n] /\ e.prev = [d.prev EXCEPT ![n] = n]
      BY <1>1, <1>4, <2>2 DEF DlType
    <3>3. e = [head |-> n, count |-> 1, next |-> [d.next EXCEPT ![n] = n], prev |-> [d.prev EXCEPT ![n] = n]]
      <4>1. e = [d EXCEPT !.count = @ + 1, !.head = n, !.prev = [@ EXCEPT ![n] = n], !.next = [@ EXCEPT ![n] = n]]
        BY <2>2
      <4>2. e = [head |-> n, count |-> d.count + 1, next |-> [d.next EXCEPT ![n] = n], prev |-> [d.prev EXCEPT ![n] = n]]
        BY <1>1, <4>1 DEF DlType
      <4>3. d.count + 1 = 1
        BY <1>1, <1>4
      <4> QED
        BY <4>2, <4>3
    <3>4. [d.next EXCEPT ![n] = n] \in [LsNode -> LsOrNull] /\ [d.prev EXCEPT ![n] = n] \in [LsNode -> LsOrNull]
      BY <3>1 DEF LsOrNull
    <3>5. e \in DlType
      BY <3>3, <3>4 DEF DlType, LsOrNull
    <3> QED
      BY <3>1, <3>2, <3>5
  <2> HIDE DEF e, t
  <2>4. \A x \in LsNode : Off(t, x) => e.next[x] = LsNull /\ e.prev[x] = LsNull
    BY <1>2, <2>1, <2>3 DEF RingOK
  <2>5. Len(t) = 1 /\ t[1] = n /\ \A i \in 1..1 : i = 1 /\ Nx(i, 1) = 1
    BY <1>2, <1>4 DEF Nx
  <2> QED
    BY <1>2, <2>3, <2>4, <2>5 DEF RingOK, e, t
<1>5. CASE m # 0
  <2>1. 1 \in 1..m /\ m \in 1..m /\ Nx(m, m) = 1
    BY <1>1, <1>5 DEF Nx
  <2>2. /\ d.head = s[1] /\ d.prev[s[1]] = s[m] /\ s[1] \in LsNode /\ s[m] \in LsNode /\ s[1] # LsNull
    BY <1>1, <1>5, <2>1 DEF RingOK, LsAssumption
  <2>3. e = [d EXCEPT !.count = @ + 1,
                      !.next = [@ EXCEPT ![s[m]] = n, ![n] = s[1]],
                      !.prev = [@ EXCEPT ![n] = s[m], ![s[1]] = n]]
    BY <2>2 DEF InsertRing
  <2>4. /\ e.count = m + 1 /\ e.head = s[1]
        /\ e.next = [d.next EXCEPT ![s[m]] = n, ![n] = s[1]]
        /\ e.prev = [d.prev EXCEPT ![n] = s[m], ![s[1]] = n]
        /\ e \in DlType
    <3>1. d.next \in [LsNode -> LsOrNull] /\ d.prev \in [LsNode -> LsOrNull]
      BY <1>1 DEF DlType
    <3>2. e = [head |-> s[1], count |-> m + 1,
               next |-> [d.next EXCEPT ![s[m]] = n, ![n] = s[1]],
               prev |-> [d.prev EXCEPT ![n] = s[m], ![s[1]] = n]]
      BY <1>1, <2>2, <2>3 DEF DlType
    <3>3. [d.next EXCEPT ![s[m]] = n, ![n] = s[1]] \in [LsNode -> LsOrNull]
      BY <2>2, <3>1 DEF LsOrNull
    <3>4. [d.prev EXCEPT ![n] = s[m], ![s[1]] = n] \in [LsNode -> LsOrNull]
      BY <2>2, <3>1 DEF LsOrNull
    <3>5. s[1] \in LsOrNull /\ m + 1 \in Nat
      BY <1>1, <2>2 DEF LsOrNull
    <3> QED
      BY <3>2, <3>3, <3>4, <3>5 DEF DlType
  <2>5. /\ d.next \in [LsNode -> LsOrNull] /\ d.prev \in [LsNode -> LsOrNull]
    BY <1>1 DEF DlType
  <2>6. /\ e.next[n] = s[1] /\ e.next[s[m]] = n
        /\ \A x \in LsNode : x # n /\ x # s[m] => e.next[x] = d.next[x]
        /\ e.prev[n] = s[m] /\ e.prev[s[1]] = n
        /\ \A x \in LsNode : x # n /\ x # s[1] => e.prev[x] = d.prev[x]
    BY <1>3, <2>1, <2>2, <2>4, <2>5
  <2> HIDE DEF e, t, m
  <2>7. ASSUME NEW i \in 1..(m + 1)
        PROVE  e.next[t[i]] = t[Nx(i, m + 1)] /\ e.prev[t[Nx(i, m + 1)]] = t[i]
    <3>1. CASE i = m + 1
      <4>1. Nx(i, m + 1) = 1
        BY <3>1 DEF Nx
      <4> QED
        BY <1>2, <2>1, <2>6, <3>1, <4>1
    <3>2. CASE i = m
      <4>1. Nx(i, m + 1) = m + 1
        BY <1>1, <3>2 DEF Nx
      <4> QED
        BY <1>2, <2>1, <2>6, <3>2, <4>1
    <3>3. CASE i < m
      <4>1. Nx(i, m + 1) = i + 1 /\ Nx(i, m) = i + 1 /\ i \in 1..m /\ i + 1 \in 1..m /\ i # m /\ i + 1 # 1
        BY <1>1, <3>3 DEF Nx
      <4>2. d.next[s[i]] = s[i + 1] /\ d.prev[s[i + 1]] = s[i]
        BY <4>1 DEF RingOK, m
      <4>3. s[i] # s[m] /\ s[i + 1] # s[1] /\ s[i] # n /\ s[i + 1] # n /\ s[i] \in LsNode /\ s[i + 1] \in LsNode
        BY <1>1, <1>3, <2>1, <4>1
      <4> QED
        BY <1>2, <2>6, <4>1, <4>2, <4>3
    <3> QED
      BY <1>1, <3>1, <3>2, <3>3
  <2>8. \A x \in LsNode : Off(t, x) => e.next[x] = LsNull /\ e.prev[x] = LsNull
    <3>1. \A x : Off(t, x) => Off(s, x) /\ x # n /\ x # s[1] /\ x # s[m]
      BY <1>2, <2>1 DEF Off, m
    <3> QED
      BY <2>6, <3>1 DEF RingOK
  <2>9. e.head = t[1] /\ Len(t) # 0
    BY <1>1, <1>2, <2>1, <2>4
  <2> QED
    BY <1>2, <2>4, <2>7, <2>8, <2>9 DEF RingOK, e, t
<1> QED
  BY <1>4, <1>5

\* What is left of a ring without place a, and who is next there.
LEMMA KeptNx ==
  ASSUME NEW m \in Nat, m >= 2, NEW a \in 1..m, NEW i \in 1..(m - 1)
  PROVE  /\ Kept(i, a) = Pv(a, m) => Kept(Nx(i, m - 1), a) = Nx(a, m)
         /\ Kept(i, a) # Pv(a, m) => /\ Kept(Nx(i, m - 1), a) = Nx(Kept(i, a), m)
                                     /\ Kept(Nx(i, m - 1), a) # Nx(a, m)
         /\ Nx(i, m - 1) \in 1..(m - 1)
  BY DEF Kept, Nx, Pv

LEMMA RemoveRingOK ==
  ASSUME LsAssumption, NEW d, NEW s, RingOK(d, s), NEW n \in LsNode
  PROVE  RingOK(RemoveRing(d, n), LsWithout(s, n))
<1> DEFINE e == RemoveRing(d, n)
           t == LsWithout(s, n)
           m == Len(s)
<1>1. /\ d \in DlType /\ Once(s) /\ m \in Nat /\ d.count = m
      /\ \A i \in 1..m : s[i] \in LsNode /\ s[i] # LsNull
      /\ \A i, j \in 1..m : s[i] = s[j] => i = j
  BY DEF RingOK, Once, LsAssumption
<1>2. CASE Off(s, n)
  <2>1. t = s /\ e = d
    BY <1>1, <1>2, WithoutOff DEF RemoveRing, RingOK
  <2> QED
    BY <2>1
<1>3. ASSUME NEW a \in 1..m, n = s[a] PROVE RingOK(e, t)
  <2>1. /\ Nx(a, m) \in 1..m /\ Pv(a, m) \in 1..m /\ Nx(Pv(a, m), m) = a
    BY <1>1, NxMod
  <2>2. d.next[n] = s[Nx(a, m)] /\ d.prev[n] = s[Pv(a, m)]
    BY <1>3, <2>1 DEF RingOK
  <2>3. d.next[n] # LsNull /\ d.prev[n] # LsNull /\ d.next[n] \in LsNode /\ d.prev[n] \in LsNode
    BY <1>1, <2>1, <2>2
  <2>4. /\ Once(t) /\ Len(t) = m - 1
        /\ \A i \in 1..(m - 1) : t[i] = s[Kept(i, a)] /\ Kept(i, a) \in 1..m
        /\ \A x : Off(t, x) <=> (Off(s, x) \/ x = n)
    <3>1. Once(s) /\ a \in 1..Len(s) /\ t = LsWithout(s, s[a])
      BY <1>1, <1>3
    <3>2. /\ Once(LsWithout(s, s[a])) /\ Len(LsWithout(s, s[a])) = Len(s) - 1
          /\ \A i \in 1..(Len(s) - 1) : LsWithout(s, s[a])[i] = s[Kept(i, a)] /\ Kept(i, a) \in 1..Len(s)
          /\ \A x : Off(LsWithout(s, s[a]), x) <=> (Off(s, x) \/ x = s[a])
      BY <3>1, OnceWithout
    <3> HIDE DEF t
    <3> QED
      BY <1>3, <3>1, <3>2
  <2>5. d.next \in [LsNode -> LsOrNull] /\ d.prev \in [LsNode -> LsOrNull] /\ d.head = s[1]
    BY <1>1, <1>3 DEF DlType, RingOK
  <2>6. CASE m = 1
    <3>1. a = 1 /\ Nx(a, m) = 1
      BY <1>1, <2>6 DEF Nx
    <3>2. d.next[n] = n
      BY <1>3, <2>2, <3>1
    <3>3. e = [d EXCEPT !.count = @ - 1, !.next[n] = LsNull, !.prev[n] = LsNull, !.head = LsNull]
      BY <2>3, <3>2 DEF RemoveRing
    <3>4. /\ e \in DlType /\ e.count = 0 /\ e.head = LsNull /\ e.next[n] = LsNull /\ e.prev[n] = LsNull
          /\ \A x \in LsNode : x # n => e.next[x] = d.next[x] /\ e.prev[x] = d.prev[x]
      <4>1. e = [head |-> LsNull, count |-> 0,
                 next |-> [d.next EXCEPT ![n] = LsNull], prev |-> [d.prev EXCEPT ![n] = LsNull]]
        <5>1. e = [d EXCEPT !.count = @ - 1, !.next = [@ EXCEPT ![n] = LsNull],
                            !.prev = [@ EXCEPT ![n] = LsNull], !.head = LsNull]
          BY <3>3
        <5>2. e = [head |-> LsNull, count |-> d.count - 1,
                   next |-> [d.next EXCEPT ![n] = LsNull], prev |-> [d.prev EXCEPT ![n] = LsNull]]
          BY <1>1, <5>1 DEF DlType
        <5>3. d.count - 1 = 0
          BY <1>1, <2>6
        <5> QED
          BY <5>2, <5>3
      <4>2. [d.next EXCEPT ![n] = LsNull] \in [LsNode -> LsOrNull] /\ [d.prev EXCEPT ![n] = LsNull] \in [LsNode -> LsOrNull]
        BY <2>5 DEF LsOrNull
      <4>3. e \in DlType
        BY <4>1, <4>2 DEF DlType, LsOrNull
      <4> QED
        BY <2>5, <4>1, <4>3
    <3>5. \A x \in LsNode : x # n => Off(s, x)
      BY <1>1, <1>3, <2>6, <3>1 DEF Off
    <3>6. \A x \in LsNode : e.next[x] = LsNull /\ e.prev[x] = LsNull
      BY <3>4, <3>5 DEF RingOK
    <3>7. Len(t) = 0 /\ 1..0 = {}
      BY <2>4, <2>6
    <3> HIDE DEF e, t
    <3> QED
      BY <2>4, <3>4, <3>6, <3>7 DEF RingOK
  <2>7. CASE m # 1
    <3>1. m >= 2 /\ Nx(a, m) # a /\ Pv(a, m) # a /\ m - 1 \in Nat
      <4>1. m \in Nat /\ a \in 1..m
        BY <1>1
      <4> HIDE DEF m
      <4> QED
        BY <2>7, <4>1 DEF Nx, Pv
    <3> DEFINE p == s[Pv(a, m)]
               q == s[Nx(a, m)]
    <3>2. p # n /\ q # n /\ p \in LsNode /\ q \in LsNode
      BY <1>1, <1>3, <2>1, <3>1
    <3>3. e = [d EXCEPT !.count = @ - 1,
                        !.head = IF @ = n THEN q ELSE @,
                        !.next = [@ EXCEPT ![p] = q, ![n] = LsNull],
                        !.prev = [@ EXCEPT ![q] = p, ![n] = LsNull]]
      BY <2>2, <2>3, <3>2 DEF RemoveRing
    <3> HIDE DEF p, q
    <3>4. /\ e.count = m - 1 /\ e.head = (IF s[1] = n THEN q ELSE s[1])
          /\ e.next = [d.next EXCEPT ![p] = q, ![n] = LsNull]
          /\ e.prev = [d.prev EXCEPT ![q] = p, ![n] = LsNull]
      BY <1>1, <2>5, <3>3 DEF DlType
    <3>5. e \in DlType
      <4>1. [d.next EXCEPT ![p] = q, ![n] = LsNull] \in [LsNode -> LsOrNull]
        BY <2>5, <3>2 DEF LsOrNull
      <4>2. [d.prev EXCEPT ![q] = p, ![n] = LsNull] \in [LsNode -> LsOrNull]
        BY <2>5, <3>2 DEF LsOrNull
      <4>3. s[1] \in LsOrNull /\ q \in LsOrNull /\ m - 1 \in Nat
        BY <1>1, <3>1, <3>2 DEF LsOrNull
      <4>4. PICK hd \in LsOrNull : hd = IF s[1] = n THEN q ELSE s[1]
        BY <4>3
      <4>5. PICK nx \in [LsNode -> LsOrNull] : nx = [d.next EXCEPT ![p] = q, ![n] = LsNull]
        BY <4>1
      <4>6. PICK pv \in [LsNode -> LsOrNull] : pv = [d.prev EXCEPT ![q] = p, ![n] = LsNull]
        BY <4>2
      <4>7. e = [d EXCEPT !.count = m - 1, !.head = hd, !.next = nx, !.prev = pv]
        BY <1>1, <2>5, <3>3, <4>4, <4>5, <4>6 DEF DlType
      <4> HIDE DEF e, m
      <4> QED
        BY <1>1, <4>3, <4>7 DEF DlType
    <3>6. /\ e.next[n] = LsNull /\ e.next[p] = q
          /\ \A x \in LsNode : x # n /\ x # p => e.next[x] = d.next[x]
          /\ e.prev[n] = LsNull /\ e.prev[q] = p
          /\ \A x \in LsNode : x # n /\ x # q => e.prev[x] = d.prev[x]
      BY <2>5, <3>2, <3>4
    <3> HIDE DEF e, t, m
    <3>7. ASSUME NEW i \in 1..(m - 1)
          PROVE  e.next[t[i]] = t[Nx(i, m - 1)] /\ e.prev[t[Nx(i, m - 1)]] = t[i]
      <4> DEFINE k == Kept(i, a)
                 l == Kept(Nx(i, m - 1), a)
      <4>1. Nx(i, m - 1) \in 1..(m - 1)
        BY <1>1, <1>3, <3>1, KeptNx
      <4>2. t[i] = s[k] /\ t[Nx(i, m - 1)] = s[l] /\ k \in 1..m /\ l \in 1..m
        BY <2>4, <4>1
      <4>3. k # a /\ l # a
        BY <1>1, <1>3, <4>1 DEF Kept
      <4>4. /\ k = Pv(a, m) => l = Nx(a, m)
            /\ k # Pv(a, m) => l = Nx(k, m) /\ l # Nx(a, m)
        BY <1>1, <1>3, <3>1, KeptNx
      <4> HIDE DEF k, l
      <4>5. s[k] # n /\ s[l] # n /\ s[k] \in LsNode /\ s[l] \in LsNode
        BY <1>1, <1>3, <4>2, <4>3
      <4>6. CASE k = Pv(a, m)
        BY <3>6, <4>2, <4>4, <4>6 DEF p, q
      <4>7. CASE k # Pv(a, m)
        <5>1. s[k] # p /\ s[l] # q
          BY <1>1, <2>1, <4>2, <4>4, <4>7 DEF p, q
        <5>2. d.next[s[k]] = s[l] /\ d.prev[s[l]] = s[k]
          BY <4>2, <4>4, <4>7 DEF RingOK, m
        <5> QED
          BY <3>6, <4>2, <4>5, <5>1, <5>2
      <4> QED
        BY <4>6, <4>7
    <3>8. \A x \in LsNode : Off(t, x) => e.next[x] = LsNull /\ e.prev[x] = LsNull
      <4>1. \A x : Off(s, x) => x # p /\ x # q
        BY <2>1 DEF Off, p, q, m
      <4> QED
        BY <2>4, <3>6, <4>1 DEF RingOK
    <3>9. e.head = t[1] /\ Len(t) # 0
      <4>1. 1 \in 1..(m - 1) /\ 1 \in 1..m
        BY <1>1, <3>1
      <4>2. CASE a = 1
        <5>1. Kept(1, a) = Nx(a, m)
          BY <3>1, <4>2 DEF Kept, Nx
        <5> QED
          BY <1>3, <2>4, <3>1, <3>4, <4>1, <4>2, <5>1 DEF q
      <4>3. CASE a # 1
        <5>1. Kept(1, a) = 1 /\ s[1] # n
          BY <1>1, <1>3, <4>1, <4>3 DEF Kept
        <5> QED
          BY <2>4, <3>1, <3>4, <4>1, <5>1
      <4> QED
        BY <4>2, <4>3
    <3> QED
      BY <2>4, <3>4, <3>5, <3>7, <3>8, <3>9 DEF RingOK
  <2> QED
    BY <2>6, <2>7
<1> QED
  BY <1>2, <1>3 DEF Off

\* Multiples of n do not count, and a shift is one to one.
LEMMA ModMultiple ==
  ASSUME NEW n \in Nat \ {0}, NEW a \in 0..(n - 1), NEW q \in Nat
  PROVE  (a + n * q) % n = a
<1>1. a + n * q \in Nat
  <2>1. n * q \in Nat
    OBVIOUS
  <2> QED
    BY <2>1
<1> DEFINE r == (a + n * q) % n
           p == (a + n * q) \div n
<1>2. r \in 0..(n - 1) /\ p \in Nat /\ a + n * q = n * p + r
  BY <1>1, ModDef
<1> HIDE DEF r, p
<1>3. n * q + a = n * p + r
  <2>1. n * q \in Int /\ n * p \in Int
    BY <1>2
  <2> QED
    BY <1>2, <2>1
<1>4. a = r
  BY <1>2, <1>3, ModUnique
<1> QED
  BY <1>4 DEF r

LEMMA ModShift ==
  ASSUME NEW n \in Nat \ {0}, NEW a \in 0..(n - 1), NEW b \in 0..(n - 1), NEW k \in Nat, (a + k) % n = (b + k) % n
  PROVE  a = b
<1> DEFINE r == (a + k) % n
           p == (a + k) \div n
           q == (b + k) \div n
<1>1. a + k \in Nat /\ b + k \in Nat
  OBVIOUS
<1>2. r \in 0..(n - 1) /\ p \in Nat /\ a + k = n * p + r
  BY <1>1, ModDef
<1>3. q \in Nat /\ b + k = n * q + r
  BY <1>1, ModDef
<1> HIDE DEF r, p, q
<1>4. n * q + a = n * p + b
  <2>1. n * q \in Int /\ n * p \in Int
    BY <1>2, <1>3
  <2> QED
    BY <1>2, <1>3, <2>1
<1>5. q \in Int /\ p \in Int
  BY <1>2, <1>3
<1> QED
  BY <1>4, <1>5, ModUnique

\* The place that is shifted to place j.
LEMMA ModUnshift ==
  ASSUME NEW n \in Nat \ {0}, NEW b \in 0..(n - 1), NEW k \in Nat
  PROVE  \E a \in 0..(n - 1) : (a + k) % n = b
<1> DEFINE r == k % n
           q == k \div n
<1>1. r \in 0..(n - 1) /\ q \in Nat /\ k = n * q + r
  BY ModDef
<1> HIDE DEF r, q
<1> DEFINE c == b + n - r
           a == c % n
<1>2. c \in Nat
  BY <1>1
<1> HIDE DEF c
<1>3. a \in 0..(n - 1)
  BY <1>2, ModDef
<1>4. (a + k) % n = (c + k) % n
  BY <1>2, ModAdd
<1>5. c + k = b + n * (q + 1)
  <2>1. n * (q + 1) = n * q + n /\ n * q \in Int
    BY <1>1
  <2> QED
    BY <1>1, <2>1 DEF c
<1>6. (b + n * (q + 1)) % n = b
  <2>1. q + 1 \in Nat
    BY <1>1
  <2> QED
    BY <2>1, ModMultiple
<1> QED
  BY <1>3, <1>4, <1>5, <1>6

\* The place of the ring that is at i after a shift by k.
From(i, k, n) == ((i - 1 + k) % n) + 1

LEMMA FromPlaces ==
  ASSUME NEW n \in Nat \ {0}, NEW k \in Nat
  PROVE  /\ \A i \in 1..n : From(i, k, n) \in 1..n /\ From(Nx(i, n), k, n) = Nx(From(i, k, n), n)
         /\ \A i, j \in 1..n : From(i, k, n) = From(j, k, n) => i = j
         /\ \A j \in 1..n : \E i \in 1..n : From(i, k, n) = j
<1>1. ASSUME NEW i \in 1..n PROVE From(i, k, n) \in 1..n /\ From(Nx(i, n), k, n) = Nx(From(i, k, n), n)
  <2>1. i - 1 + k \in Nat /\ i + k \in Nat /\ i - 1 + k + 1 = i + k /\ i \in Nat
    OBVIOUS
  <2>2. (i - 1 + k) % n \in 0..(n - 1)
    BY <2>1, ModDef
  <2>3. From(i, k, n) \in 1..n
    BY <2>2 DEF From
  <2>4. From(Nx(i, n), k, n) = ((i + k) % n) + 1
    <3>1. Nx(i, n) - 1 = i % n
      <4>1. (i % n) + 1 = Nx(i, n)
        BY NxMod
      <4>2. i % n \in 0..(n - 1)
        BY <2>1, ModDef
      <4> QED
        BY <4>1, <4>2
    <3>2. ((i % n) + k) % n = (i + k) % n
      BY <2>1, ModAdd
    <3> QED
      BY <3>1, <3>2 DEF From
  <2>5. Nx(From(i, k, n), n) = (From(i, k, n) % n) + 1
    BY <2>3, NxMod
  <2>6. (((i - 1 + k) % n) + 1) % n = (i + k) % n
    <3>1. PICK c \in Nat : c = i - 1 + k /\ c + 1 = i + k
      BY <2>1
    <3>2. ((c % n) + 1) % n = (c + 1) % n
      BY ModAdd
    <3> QED
      BY <3>1, <3>2
  <2> QED
    BY <2>3, <2>4, <2>5, <2>6 DEF From
<1>2. ASSUME NEW i \in 1..n, NEW j \in 1..n, From(i, k, n) = From(j, k, n) PROVE i = j
  <2>1. i - 1 \in 0..(n - 1) /\ j - 1 \in 0..(n - 1) /\ i - 1 + k \in Nat /\ j - 1 + k \in Nat
    OBVIOUS
  <2>2. (i - 1 + k) % n \in 0..(n - 1) /\ (j - 1 + k) % n \in 0..(n - 1)
    BY <2>1, ModDef
  <2>3. (i - 1 + k) % n = (j - 1 + k) % n
    BY <1>2, <2>2 DEF From
  <2>4. i - 1 = j - 1
    BY <2>1, <2>3, ModShift
  <2> QED
    BY <2>4
<1>3. ASSUME NEW j \in 1..n PROVE \E i \in 1..n : From(i, k, n) = j
  <2>1. j - 1 \in 0..(n - 1)
    OBVIOUS
  <2>2. PICK a \in 0..(n - 1) : (a + k) % n = j - 1
    BY <2>1, ModUnshift
  <2>3. a + 1 \in 1..n /\ (a + 1) - 1 = a
    OBVIOUS
  <2>4. From(a + 1, k, n) = j
    BY <2>2, <2>3 DEF From
  <2> QED
    BY <2>3, <2>4
<1> QED
  BY <1>1, <1>2, <1>3

\* A ring read from another place is the same ring.
LEMMA RotatedOK ==
  ASSUME NEW d, NEW s, RingOK(d, s), s # << >>, NEW k \in Nat
  PROVE  RingOK([d EXCEPT !.head = s[(k % Len(s)) + 1]], Rotated(s, k))
<1> DEFINE n == Len(s)
           t == Rotated(s, k)
           e == [d EXCEPT !.head = s[(k % n) + 1]]
<1>1. /\ d \in DlType /\ s \in Seq(LsNode) /\ n \in Nat \ {0} /\ DOMAIN s = 1..n /\ d.count = n
      /\ \A i \in 1..n : s[i] \in LsNode
      /\ \A i, j \in 1..n : s[i] = s[j] => i = j
  BY DEF RingOK, Once
<1>2. t = [i \in 1..n |-> s[From(i, k, n)]]
  BY <1>1 DEF Rotated, From
<1>3. /\ \A i \in 1..n : From(i, k, n) \in 1..n /\ From(Nx(i, n), k, n) = Nx(From(i, k, n), n)
      /\ \A i, j \in 1..n : From(i, k, n) = From(j, k, n) => i = j
      /\ \A j \in 1..n : \E i \in 1..n : From(i, k, n) = j
  BY <1>1, FromPlaces
<1>4. t \in Seq(LsNode) /\ Len(t) = n /\ \A i \in 1..n : t[i] = s[From(i, k, n)]
  BY <1>1, <1>2, <1>3
<1> HIDE DEF t
<1>5. Once(t)
  BY <1>1, <1>3, <1>4 DEF Once
<1>6. \A x : Off(t, x) <=> Off(s, x)
  <2>1. \A x : Off(t, x) <=> \A i \in 1..n : s[From(i, k, n)] # x
    BY <1>4 DEF Off
  <2>2. \A x : Off(s, x) <=> \A i \in 1..n : s[i] # x
    BY DEF Off
  <2> QED
    BY <1>3, <2>1, <2>2
<1>7. (k % n) + 1 = From(1, k, n) /\ 1 \in 1..n
  BY <1>1 DEF From
<1>8. s[(k % n) + 1] \in LsNode /\ s[(k % n) + 1] = t[1]
  BY <1>1, <1>3, <1>4, <1>7
<1>9. e \in DlType /\ e.head = t[1] /\ e.count = n /\ e.next = d.next /\ e.prev = d.prev
  BY <1>1, <1>8 DEF DlType, LsOrNull
<1>10. ASSUME NEW i \in 1..n PROVE e.next[t[i]] = t[Nx(i, n)] /\ e.prev[t[Nx(i, n)]] = t[i]
  <2>1. Nx(i, n) \in 1..n
    BY <1>1, NxMod
  <2>2. t[i] = s[From(i, k, n)] /\ t[Nx(i, n)] = s[Nx(From(i, k, n), n)] /\ From(i, k, n) \in 1..n
    BY <1>3, <1>4, <2>1
  <2> QED
    BY <1>9, <2>2 DEF RingOK
<1> HIDE DEF e
<1> QED
  BY <1>1, <1>4, <1>5, <1>6, <1>9, <1>10 DEF RingOK, t, e

\* head_ after k steps along next, and along prev.
LEMMA WalkNext ==
  ASSUME NEW d, NEW s, RingOK(d, s), s # << >>, NEW k \in Nat
  PROVE  Walk(d.next, d.head, k) = s[(k % Len(s)) + 1]
<1> DEFINE n == Len(s)
           f == [i \in 0..k |-> s[(i % n) + 1]]
<1>1. n \in Nat \ {0} /\ d.head = s[1]
  BY DEF RingOK, Once
<1>2. f[0] = d.head
  <2>1. 0 % n = 0
    BY <1>1
  <2> QED
    BY <1>1, <2>1
<1>3. ASSUME NEW i \in 0..k, i # 0 PROVE f[i] = d.next[f[i - 1]]
  <2>1. i - 1 \in 0..k /\ i - 1 \in Nat /\ (i - 1) + 1 = i
    BY <1>3
  <2>2. (i - 1) % n \in 0..(n - 1)
    BY <1>1, <2>1, ModDef
  <2>3. ((i - 1) % n) + 1 \in 1..n
    BY <1>1, <2>2
  <2>4. d.next[s[((i - 1) % n) + 1]] = s[Nx(((i - 1) % n) + 1, n)]
    BY <2>3 DEF RingOK
  <2>5. Nx(((i - 1) % n) + 1, n) = ((((i - 1) % n) + 1) % n) + 1
    BY <1>1, <2>3, NxMod
  <2>6. (((i - 1) % n) + 1) % n = i % n
    BY <1>1, <2>1, ModAdd
  <2> QED
    BY <2>1, <2>4, <2>5, <2>6
<1>4. f = [i \in 0..k |-> IF i = 0 THEN d.head ELSE d.next[f[i - 1]]]
  BY <1>2, <1>3
<1>5. f[k] = s[(k % n) + 1]
  OBVIOUS
<1> HIDE DEF f
<1>6. Walk(d.next, d.head, k) = f[k]
  BY <1>4, WalkIs
<1> QED
  BY <1>5, <1>6

LEMMA WalkPrev ==
  ASSUME NEW d, NEW s, RingOK(d, s), s # << >>, NEW k \in Nat
  PROVE  Walk(d.prev, d.head, k) = s[(((Len(s) - 1) * k) % Len(s)) + 1]
<1> DEFINE n == Len(s)
           f == [i \in 0..k |-> s[(((n - 1) * i) % n) + 1]]
<1>1. n \in Nat \ {0} /\ d.head = s[1]
  BY DEF RingOK, Once
<1>2. f[0] = d.head
  <2>1. (n - 1) * 0 = 0 /\ 0 % n = 0
    BY <1>1
  <2> QED
    BY <1>1, <2>1
<1>3. ASSUME NEW i \in 0..k, i # 0 PROVE f[i] = d.prev[f[i - 1]]
  <2>1. PICK a \in Nat : a = (n - 1) * (i - 1) /\ (n - 1) * i = a + (n - 1)
    <3>1. n - 1 \in Nat /\ i - 1 \in Nat /\ i \in Nat
      BY <1>1, <1>3
    <3>2. (n - 1) * (i - 1) \in Nat
      BY <3>1
    <3>3. (n - 1) * i = (n - 1) * (i - 1) + (n - 1)
      BY <3>1
    <3> QED
      BY <3>2, <3>3
  <2>2. a + (n - 1) \in Nat /\ a + (n - 1) + 1 = a + n /\ i - 1 \in 0..k
    BY <1>1, <1>3
  <2> DEFINE b == ((a + (n - 1)) % n) + 1
  <2>3. b \in 1..n
    <3>1. (a + (n - 1)) % n \in 0..(n - 1)
      BY <1>1, <2>2, ModDef
    <3> QED
      BY <1>1, <3>1
  <2>4. Nx(b, n) = (a % n) + 1
    <3>1. Nx(b, n) = (b % n) + 1
      BY <1>1, <2>3, NxMod
    <3>2. b % n = (a + n) % n
      <4>1. (((a + (n - 1)) % n) + 1) % n = (a + (n - 1) + 1) % n
        BY <1>1, <2>2, ModAdd
      <4> QED
        BY <2>2, <4>1
    <3>3. (a + n) % n = ((a % n) + n) % n
      BY <1>1, ModAdd
    <3>4. ((a % n) + n) % n = a % n
      <4>1. a % n \in 0..(n - 1)
        BY <1>1, ModDef
      <4>2. a % n \in Nat /\ a % n < n
        BY <1>1, <4>1
      <4> QED
        BY <1>1, <4>2, ModSmall
    <3> QED
      BY <3>1, <3>2, <3>3, <3>4
  <2>5. d.prev[s[Nx(b, n)]] = s[b]
    BY <2>3 DEF RingOK
  <2>6. f[i] = s[b] /\ f[i - 1] = s[(a % n) + 1]
    BY <2>1, <2>2
  <2> QED
    BY <2>4, <2>5, <2>6
<1>4. f = [i \in 0..k |-> IF i = 0 THEN d.head ELSE d.prev[f[i - 1]]]
  BY <1>2, <1>3
<1>5. f[k] = s[(((n - 1) * k) % n) + 1]
  OBVIOUS
<1> HIDE DEF f
<1>6. Walk(d.prev, d.head, k) = f[k]
  BY <1>4, WalkIs
<1> QED
  BY <1>5, <1>6

------------------------------------------------------------------------------
(* BidirectionalList *)

BlType == [head : LsOrNull, tail : LsOrNull, next : [LsNode -> LsOrNull], prev : [LsNode -> LsOrNull],
           is_add : [LsNode -> BOOLEAN]]

\* The list b is the line s.
LineOK(b, s) ==
  /\ b \in BlType /\ Once(s)
  /\ b.head = IF Len(s) = 0 THEN LsNull ELSE s[1]
  /\ b.tail = IF Len(s) = 0 THEN LsNull ELSE s[Len(s)]
  /\ \A i \in 1..Len(s) : /\ b.next[s[i]] = IF i = Len(s) THEN LsNull ELSE s[i + 1]
                          /\ b.prev[s[i]] = IF i = 1 THEN LsNull ELSE s[i - 1]
  /\ \A x \in LsNode : b.is_add[x] <=> ~Off(s, x)
  /\ \A x \in LsNode : Off(s, x) => b.next[x] = LsNull /\ b.prev[x] = LsNull

LEMMA LineIsLine ==
  ASSUME LineOK(bl, line)
  PROVE  BLLine
<1>1. line \in Seq(LsNode)
  BY DEF LineOK, Once
<1>2. \A x \in LsNode : Member(line, x) <=> ~Off(line, x)
  BY <1>1, OffMember
<1> QED
  BY <1>2 DEF BLLine, LineOK

LEMMA AddLineOK ==
  ASSUME LsAssumption, NEW b, NEW s, LineOK(b, s), NEW n \in LsNode
  PROVE  LineOK(AddLine(b, n), IF Off(s, n) THEN Append(s, n) ELSE s)
<1> DEFINE e == AddLine(b, n)
           t == Append(s, n)
           m == Len(s)
<1>1. /\ b \in BlType /\ Once(s) /\ m \in Nat
      /\ \A i \in 1..m : s[i] \in LsNode
      /\ \A i, j \in 1..m : s[i] = s[j] => i = j
      /\ b.is_add[n] <=> ~Off(s, n)
  BY DEF LineOK, Once
<1>2. CASE ~Off(s, n)
  BY <1>1, <1>2 DEF AddLine
<1>3. CASE Off(s, n)
  <2>1. /\ Once(t) /\ Len(t) = m + 1
        /\ \A i \in 1..m : t[i] = s[i]
        /\ t[m + 1] = n
        /\ \A x : Off(t, x) <=> (Off(s, x) /\ x # n)
    BY <1>1, <1>3, OnceAppend
  <2>2. /\ b.next \in [LsNode -> LsOrNull] /\ b.prev \in [LsNode -> LsOrNull] /\ b.is_add \in [LsNode -> BOOLEAN]
        /\ b.head \in LsOrNull /\ b.tail \in LsOrNull /\ b.next[n] = LsNull /\ b.prev[n] = LsNull
    BY <1>1, <1>3 DEF BlType, LineOK
  <2>3. \A i \in 1..m : s[i] # n
    BY <1>3 DEF Off
  <2>4. [b.is_add EXCEPT ![n] = TRUE] \in [LsNode -> BOOLEAN]
    BY <2>2
  <2>5. CASE m = 0
    <3>1. b.head = LsNull
      BY <2>5 DEF LineOK
    <3>2. e = [b EXCEPT !.is_add[n] = TRUE, !.head = n, !.tail = n]
      BY <1>1, <1>3, <3>1 DEF AddLine
    <3>3. e = [head |-> n, tail |-> n, next |-> b.next, prev |-> b.prev, is_add |-> [b.is_add EXCEPT ![n] = TRUE]]
      BY <1>1, <3>2 DEF BlType
    <3>4. e \in BlType
      BY <2>2, <2>4, <3>3 DEF BlType, LsOrNull
    <3>5. Len(t) = 1 /\ t[1] = n /\ \A i \in 1..1 : i = 1
      BY <2>1, <2>5
    <3>6. \A x \in LsNode : e.is_add[x] <=> ~Off(t, x)
      <4>1. \A x \in LsNode : e.is_add[x] = (IF x = n THEN TRUE ELSE b.is_add[x])
        <5>1. e.is_add = [b.is_add EXCEPT ![n] = TRUE]
          BY <3>3
        <5> HIDE DEF e
        <5> QED
          BY <2>2, <5>1
      <4> QED
        BY <2>1, <4>1 DEF LineOK
    <3>7. \A x \in LsNode : Off(t, x) => e.next[x] = LsNull /\ e.prev[x] = LsNull
      BY <2>1, <3>3 DEF LineOK
    <3>8. e.head = n /\ e.tail = n /\ e.next[n] = LsNull /\ e.prev[n] = LsNull
      BY <2>2, <3>3
    <3> HIDE DEF e, t
    <3>9. LineOK(e, t)
      <4>1. e.head = t[1] /\ e.tail = t[Len(t)] /\ Len(t) # 0
        BY <3>5, <3>8
      <4>2. \A i \in 1..Len(t) : /\ e.next[t[i]] = IF i = Len(t) THEN LsNull ELSE t[i + 1]
                                 /\ e.prev[t[i]] = IF i = 1 THEN LsNull ELSE t[i - 1]
        BY <3>5, <3>8
      <4> QED
        BY <2>1, <3>4, <3>6, <3>7, <4>1, <4>2 DEF LineOK
    <3> QED
      BY <1>3, <3>9 DEF e, t
  <2>6. CASE m # 0
    <3>1. m \in 1..m /\ 1 \in 1..m
      BY <1>1, <2>6
    <3>2. b.head = s[1] /\ b.tail = s[m] /\ s[1] \in LsNode /\ s[m] \in LsNode /\ b.head # LsNull
      BY <1>1, <2>6, <3>1 DEF LineOK, LsAssumption
    <3>3. e = [b EXCEPT !.is_add[n] = TRUE, !.prev[n] = s[m], !.next[s[m]] = n, !.tail = n]
      BY <1>1, <1>3, <3>2 DEF AddLine
    <3>4. e = [head |-> s[1], tail |-> n, next |-> [b.next EXCEPT ![s[m]] = n],
               prev |-> [b.prev EXCEPT ![n] = s[m]], is_add |-> [b.is_add EXCEPT ![n] = TRUE]]
      <4>1. e = [b EXCEPT !.is_add = [@ EXCEPT ![n] = TRUE], !.prev = [@ EXCEPT ![n] = s[m]],
                          !.next = [@ EXCEPT ![s[m]] = n], !.tail = n]
        BY <3>3
      <4> QED
        BY <1>1, <3>2, <4>1 DEF BlType
    <3>5. e \in BlType
      <4>1. [b.next EXCEPT ![s[m]] = n] \in [LsNode -> LsOrNull] /\ [b.prev EXCEPT ![n] = s[m]] \in [LsNode -> LsOrNull]
        BY <2>2, <3>2 DEF LsOrNull
      <4> QED
        BY <2>4, <3>2, <3>4, <4>1 DEF BlType, LsOrNull
    <3>6. \A x \in LsNode : e.is_add[x] <=> ~Off(t, x)
      <4>1. \A x \in LsNode : e.is_add[x] = (IF x = n THEN TRUE ELSE b.is_add[x])
        <5>1. e.is_add = [b.is_add EXCEPT ![n] = TRUE]
          BY <3>4
        <5> HIDE DEF e
        <5> QED
          BY <2>2, <5>1
      <4> QED
        BY <2>1, <4>1 DEF LineOK
    <3>7. /\ e.next[s[m]] = n /\ e.prev[n] = s[m] /\ e.next[n] = LsNull
          /\ \A x \in LsNode : x # s[m] => e.next[x] = b.next[x]
          /\ \A x \in LsNode : x # n => e.prev[x] = b.prev[x]
          /\ e.head = s[1] /\ e.tail = n
      BY <2>2, <2>3, <3>1, <3>2, <3>4
    <3> HIDE DEF e, t, m
    <3>8. \A x \in LsNode : Off(t, x) => e.next[x] = LsNull /\ e.prev[x] = LsNull
      <4>1. \A x : Off(t, x) => Off(s, x) /\ x # n /\ x # s[m]
        BY <2>1, <3>1 DEF Off, m
      <4> QED
        BY <3>7, <4>1 DEF LineOK
    <3>9. ASSUME NEW i \in 1..(m + 1)
          PROVE  /\ e.next[t[i]] = IF i = m + 1 THEN LsNull ELSE t[i + 1]
                 /\ e.prev[t[i]] = IF i = 1 THEN LsNull ELSE t[i - 1]
      <4>1. CASE i = m + 1
        <5>1. i # 1 /\ i - 1 = m /\ t[m] = s[m] /\ t[i] = n
          BY <1>1, <2>1, <2>6, <3>1, <4>1
        <5> QED
          BY <3>7, <4>1, <5>1
      <4>2. CASE i \in 1..m
        <5>1. t[i] = s[i] /\ s[i] # n /\ s[i] \in LsNode /\ i # m + 1
          BY <1>1, <2>1, <2>3, <4>2 DEF m
        <5>2. b.next[s[i]] = (IF i = m THEN LsNull ELSE s[i + 1]) /\ b.prev[s[i]] = IF i = 1 THEN LsNull ELSE s[i - 1]
          BY <4>2 DEF LineOK, m
        <5>3. e.prev[t[i]] = IF i = 1 THEN LsNull ELSE t[i - 1]
          <6>1. i # 1 => i - 1 \in 1..m
            BY <1>1, <4>2
          <6> QED
            BY <2>1, <3>7, <5>1, <5>2, <6>1
        <5>4. e.next[t[i]] = t[i + 1]
          <6>1. CASE i = m
            BY <2>1, <3>7, <5>1, <6>1
          <6>2. CASE i # m
            <7>1. i + 1 \in 1..m /\ s[i] # s[m]
              BY <1>1, <3>1, <4>2, <6>2
            <7> QED
              BY <2>1, <3>7, <5>1, <5>2, <6>2, <7>1
          <6> QED
            BY <6>1, <6>2
        <5> QED
          BY <5>1, <5>3, <5>4
      <4> QED
        BY <1>1, <4>1, <4>2
    <3>10. e.head = t[1] /\ e.tail = t[m + 1] /\ Len(t) # 0
      BY <1>1, <2>1, <3>1, <3>7
    <3>11. LineOK(e, t)
      BY <2>1, <3>5, <3>6, <3>8, <3>9, <3>10 DEF LineOK
    <3> QED
      BY <1>3, <3>11 DEF e, t
  <2> QED
    BY <2>5, <2>6
<1> QED
  BY <1>2, <1>3

\* What RemoveLine leaves of a line of m nodes when the node at place a goes.
Removed(b, e, s, a) ==
  LET m == Len(s) IN
  /\ e \in BlType
  /\ e.head = IF a = 1 THEN IF m = 1 THEN LsNull ELSE s[2] ELSE s[1]
  /\ e.tail = IF a = m THEN IF m = 1 THEN LsNull ELSE s[m - 1] ELSE s[m]
  /\ \A x \in LsNode : e.is_add[x] = (IF x = s[a] THEN FALSE ELSE b.is_add[x])
  /\ e.next[s[a]] = LsNull /\ e.prev[s[a]] = LsNull
  /\ a # 1 => e.next[s[a - 1]] = IF a = m THEN LsNull ELSE s[a + 1]
  /\ a # m => e.prev[s[a + 1]] = IF a = 1 THEN LsNull ELSE s[a - 1]
  /\ \A x \in LsNode : x # s[a] /\ (a # 1 => x # s[a - 1]) => e.next[x] = b.next[x]
  /\ \A x \in LsNode : x # s[a] /\ (a # m => x # s[a + 1]) => e.prev[x] = b.prev[x]

LEMMA RemoveLineSets ==
  ASSUME LsAssumption, NEW b, NEW s, LineOK(b, s), NEW a \in 1..Len(s)
  PROVE  Removed(b, RemoveLine(b, s[a]), s, a)
<1> DEFINE m == Len(s)
           n == s[a]
           e == RemoveLine(b, n)
           add == [b.is_add EXCEPT ![n] = FALSE]
<1>1. /\ b \in BlType /\ m \in Nat \ {0} /\ a \in 1..m
      /\ \A i \in 1..m : s[i] \in LsNode /\ s[i] # LsNull
      /\ \A i, j \in 1..m : s[i] = s[j] => i = j
  BY DEF LineOK, Once, LsAssumption
<1>2. /\ b.next \in [LsNode -> LsOrNull] /\ b.prev \in [LsNode -> LsOrNull] /\ b.is_add \in [LsNode -> BOOLEAN]
      /\ b.head \in LsOrNull /\ b.tail \in LsOrNull
  BY <1>1 DEF BlType
<1>3. /\ b.next[n] = (IF a = m THEN LsNull ELSE s[a + 1]) /\ b.prev[n] = (IF a = 1 THEN LsNull ELSE s[a - 1])
      /\ n \in LsNode /\ b.head = s[1] /\ b.tail = s[m]
  BY <1>1 DEF LineOK
<1>4. b.is_add[n]
  <2>1. ~Off(s, n)
    BY DEF Off
  <2> QED
    BY <1>3, <2>1 DEF LineOK
<1>5. add \in [LsNode -> BOOLEAN] /\ \A x \in LsNode : add[x] = (IF x = n THEN FALSE ELSE b.is_add[x])
  BY <1>2, <1>3
<1>6. /\ a # 1 => a - 1 \in 1..m /\ s[a - 1] # n /\ s[a - 1] \in LsNode /\ s[a - 1] # LsNull
      /\ a # m => a + 1 \in 1..m /\ s[a + 1] # n /\ s[a + 1] \in LsNode /\ s[a + 1] # LsNull
  <2>1. /\ a # 1 => a - 1 \in 1..m /\ a - 1 # a
        /\ a # m => a + 1 \in 1..m /\ a + 1 # a
    BY <1>1
  <2> QED
    BY <1>1, <2>1
<1>7. 1 \in 1..m /\ m \in 1..m /\ s[1] \in LsOrNull /\ s[m] \in LsOrNull
  BY <1>1 DEF LsOrNull
<1> DEFINE out == [b EXCEPT !.is_add = [@ EXCEPT ![n] = FALSE]]
<1>8. out = [head |-> b.head, tail |-> b.tail, next |-> b.next, prev |-> b.prev, is_add |-> add]
  <2>1. out = [b EXCEPT !.is_add = add]
    OBVIOUS
  <2> HIDE DEF add, out, n
  <2> QED
    BY <1>1, <2>1 DEF BlType
<1> HIDE DEF add
<1>9. CASE a # 1 /\ a # m
  <2>1. m # 1
    BY <1>1, <1>9
  <2> DEFINE p == s[a - 1]
             q == s[a + 1]
  <2>2. b.next[n] = q /\ b.prev[n] = p /\ q # LsNull /\ p # LsNull /\ p \in LsNode /\ q \in LsNode /\ p # n /\ q # n
    BY <1>3, <1>6, <1>9
  <2>3. e = [out EXCEPT !.next = [@ EXCEPT ![p] = q, ![n] = LsNull], !.prev = [@ EXCEPT ![q] = p, ![n] = LsNull]]
    BY <1>4, <2>2 DEF RemoveLine
  <2> HIDE DEF p, q, out, n, e
  <2>4. e = [head |-> b.head, tail |-> b.tail, next |-> [b.next EXCEPT ![p] = q, ![n] = LsNull],
             prev |-> [b.prev EXCEPT ![q] = p, ![n] = LsNull], is_add |-> add]
    BY <1>8, <2>3
  <2>5. e \in BlType
    <3>1. [b.next EXCEPT ![p] = q, ![n] = LsNull] \in [LsNode -> LsOrNull]
      BY <1>2, <1>3, <2>2 DEF LsOrNull
    <3>2. [b.prev EXCEPT ![q] = p, ![n] = LsNull] \in [LsNode -> LsOrNull]
      BY <1>2, <1>3, <2>2 DEF LsOrNull
    <3> QED
      BY <1>2, <1>5, <2>4, <3>1, <3>2 DEF BlType
  <2>6. /\ e.head = s[1] /\ e.tail = s[m] /\ e.next[n] = LsNull /\ e.prev[n] = LsNull /\ e.next[p] = q /\ e.prev[q] = p
        /\ \A x \in LsNode : x # n /\ x # p => e.next[x] = b.next[x]
        /\ \A x \in LsNode : x # n /\ x # q => e.prev[x] = b.prev[x]
        /\ e.is_add = add
    BY <1>2, <1>3, <2>2, <2>4
  <2> QED
    BY <1>5, <1>9, <2>5, <2>6 DEF Removed, p, q, n, e
<1>10. CASE m = 1
  <2>1. a = 1 /\ a = m
    BY <1>1, <1>10
  <2>2. b.next[n] = LsNull /\ b.prev[n] = LsNull
    BY <1>3, <2>1
  <2>3. e = [out EXCEPT !.head = LsNull, !.tail = LsNull]
    BY <1>4, <2>2 DEF RemoveLine
  <2> HIDE DEF out, n, e
  <2>4. e = [head |-> LsNull, tail |-> LsNull, next |-> b.next, prev |-> b.prev, is_add |-> add]
    BY <1>8, <2>3
  <2>5. e \in BlType
    BY <1>2, <1>5, <2>4 DEF BlType, LsOrNull
  <2>6. /\ e.head = LsNull /\ e.tail = LsNull /\ e.next = b.next /\ e.prev = b.prev /\ e.is_add = add
    BY <2>4
  <2>7. e.next[n] = LsNull /\ e.prev[n] = LsNull
    BY <2>2, <2>6
  <2> QED
    BY <1>5, <1>10, <2>1, <2>5, <2>6, <2>7 DEF Removed, n, e
<1>11. CASE a = 1 /\ m # 1
  <2> DEFINE q == s[a + 1]
  <2>1. a # m /\ a + 1 = 2
    BY <1>11
  <2>2. b.next[n] = q /\ b.prev[n] = LsNull /\ q # LsNull /\ q \in LsNode /\ q # n
    BY <1>3, <1>6, <1>11, <2>1
  <2>3. e = [out EXCEPT !.prev = [@ EXCEPT ![q] = LsNull], !.head = q, !.next = [@ EXCEPT ![n] = LsNull]]
    BY <1>4, <2>2 DEF RemoveLine
  <2> HIDE DEF q, out, n, e
  <2>4. e = [head |-> q, tail |-> b.tail, next |-> [b.next EXCEPT ![n] = LsNull],
             prev |-> [b.prev EXCEPT ![q] = LsNull], is_add |-> add]
    BY <1>8, <2>3
  <2>5. e \in BlType
    <3>1. [b.next EXCEPT ![n] = LsNull] \in [LsNode -> LsOrNull] /\ [b.prev EXCEPT ![q] = LsNull] \in [LsNode -> LsOrNull]
      BY <1>2, <1>3, <2>2 DEF LsOrNull
    <3> QED
      BY <1>2, <1>5, <2>2, <2>4, <3>1 DEF BlType, LsOrNull
  <2>6. /\ e.head = q /\ e.tail = s[m] /\ e.next[n] = LsNull /\ e.prev[n] = LsNull /\ e.prev[q] = LsNull
        /\ \A x \in LsNode : x # n => e.next[x] = b.next[x]
        /\ \A x \in LsNode : x # n /\ x # q => e.prev[x] = b.prev[x]
        /\ e.is_add = add
    BY <1>2, <1>3, <2>2, <2>4
  <2> QED
    BY <1>5, <1>11, <2>1, <2>5, <2>6 DEF Removed, q, n, e
<1>12. CASE a = m /\ m # 1
  <2> DEFINE p == s[a - 1]
  <2>1. a # 1
    BY <1>12
  <2>2. b.next[n] = LsNull /\ b.prev[n] = p /\ p # LsNull /\ p \in LsNode /\ p # n
    BY <1>3, <1>6, <1>12, <2>1
  <2>3. e = [out EXCEPT !.next = [@ EXCEPT ![p] = LsNull], !.tail = p, !.prev = [@ EXCEPT ![n] = LsNull]]
    BY <1>4, <2>2 DEF RemoveLine
  <2> HIDE DEF p, out, n, e
  <2>4. e = [head |-> b.head, tail |-> p, next |-> [b.next EXCEPT ![p] = LsNull],
             prev |-> [b.prev EXCEPT ![n] = LsNull], is_add |-> add]
    BY <1>8, <2>3
  <2>5. e \in BlType
    <3>1. [b.next EXCEPT ![p] = LsNull] \in [LsNode -> LsOrNull] /\ [b.prev EXCEPT ![n] = LsNull] \in [LsNode -> LsOrNull]
      BY <1>2, <1>3, <2>2 DEF LsOrNull
    <3> QED
      BY <1>2, <1>5, <2>2, <2>4, <3>1 DEF BlType, LsOrNull
  <2>6. /\ e.head = s[1] /\ e.tail = p /\ e.next[n] = LsNull /\ e.prev[n] = LsNull /\ e.next[p] = LsNull
        /\ \A x \in LsNode : x # n /\ x # p => e.next[x] = b.next[x]
        /\ \A x \in LsNode : x # n => e.prev[x] = b.prev[x]
        /\ e.is_add = add
    BY <1>2, <1>3, <2>2, <2>4
  <2> QED
    BY <1>5, <1>12, <2>1, <2>5, <2>6 DEF Removed, p, n, e
<1> QED
  BY <1>9, <1>10, <1>11, <1>12

LEMMA RemoveLineOK ==
  ASSUME LsAssumption, NEW b, NEW s, LineOK(b, s), NEW n \in LsNode
  PROVE  LineOK(RemoveLine(b, n), LsWithout(s, n)) /\ Off(LsWithout(s, n), n)
<1> DEFINE e == RemoveLine(b, n)
           t == LsWithout(s, n)
           m == Len(s)
<1>1. /\ b \in BlType /\ Once(s) /\ m \in Nat
      /\ \A i \in 1..m : s[i] \in LsNode
      /\ \A i, j \in 1..m : s[i] = s[j] => i = j
      /\ b.is_add[n] <=> ~Off(s, n)
  BY DEF LineOK, Once
<1>2. CASE Off(s, n)
  <2>1. t = s /\ e = b
    BY <1>1, <1>2, WithoutOff DEF RemoveLine
  <2> QED
    BY <1>2, <2>1
<1>3. ASSUME NEW a \in 1..m, n = s[a] PROVE LineOK(e, t) /\ Off(t, n)
  <2>1. Removed(b, e, s, a)
    BY <1>3, RemoveLineSets
  <2>2. /\ Once(t) /\ Len(t) = m - 1
        /\ \A i \in 1..(m - 1) : t[i] = s[Kept(i, a)] /\ Kept(i, a) \in 1..m
        /\ \A x : Off(t, x) <=> (Off(s, x) \/ x = n)
    <3>1. Once(s) /\ a \in 1..Len(s) /\ t = LsWithout(s, s[a])
      BY <1>1, <1>3
    <3>2. /\ Once(LsWithout(s, s[a])) /\ Len(LsWithout(s, s[a])) = Len(s) - 1
          /\ \A i \in 1..(Len(s) - 1) : LsWithout(s, s[a])[i] = s[Kept(i, a)] /\ Kept(i, a) \in 1..Len(s)
          /\ \A x : Off(LsWithout(s, s[a]), x) <=> (Off(s, x) \/ x = s[a])
      BY <3>1, OnceWithout
    <3> HIDE DEF t
    <3> QED
      BY <1>3, <3>1, <3>2
  <2> HIDE DEF e, t
  <2>3. \A x \in LsNode : e.is_add[x] <=> ~Off(t, x)
    <3>1. \A x \in LsNode : e.is_add[x] = (IF x = n THEN FALSE ELSE b.is_add[x])
      BY <1>3, <2>1 DEF Removed
    <3>2. \A x \in LsNode : b.is_add[x] <=> ~Off(s, x)
      BY DEF LineOK
    <3> QED
      BY <2>2, <3>1, <3>2
  <2>4. /\ a # 1 => a - 1 \in 1..m
        /\ a # m => a + 1 \in 1..m
    BY <1>1
  <2>5. \A x \in LsNode : Off(t, x) => e.next[x] = LsNull /\ e.prev[x] = LsNull
    <3>1. \A x : Off(s, x) => /\ x # s[a] /\ (a # 1 => x # s[a - 1]) /\ (a # m => x # s[a + 1])
      BY <2>4 DEF Off
    <3>2. SUFFICES ASSUME NEW x \in LsNode, Off(t, x) PROVE e.next[x] = LsNull /\ e.prev[x] = LsNull
      OBVIOUS
    <3>3. CASE x = n
      BY <1>3, <2>1, <3>3 DEF Removed
    <3>4. CASE x # n
      <4>1. Off(s, x)
        BY <2>2, <3>2, <3>4
      <4>2. b.next[x] = LsNull /\ b.prev[x] = LsNull
        BY <4>1 DEF LineOK
      <4>3. x # s[a] /\ (a # 1 => x # s[a - 1]) /\ (a # m => x # s[a + 1])
        BY <3>1, <4>1
      <4>4. e.next[x] = b.next[x]
        BY <2>1, <4>3 DEF Removed
      <4>5. e.prev[x] = b.prev[x]
        BY <2>1, <4>3 DEF Removed
      <4> QED
        BY <4>2, <4>4, <4>5
    <3> QED
      BY <3>3, <3>4
  <2>6. ASSUME NEW i \in 1..(m - 1)
        PROVE  /\ e.next[t[i]] = IF i = m - 1 THEN LsNull ELSE t[i + 1]
               /\ e.prev[t[i]] = IF i = 1 THEN LsNull ELSE t[i - 1]
    <3> DEFINE k == Kept(i, a)
    <3>1. t[i] = s[k] /\ k \in 1..m /\ s[k] \in LsNode
      BY <1>1, <2>2
    <3>2. k # a
      BY <1>1 DEF Kept
    <3>3. s[k] # s[a]
      BY <1>1, <3>1, <3>2
    <3>4. b.next[s[k]] = (IF k = m THEN LsNull ELSE s[k + 1]) /\ b.prev[s[k]] = IF k = 1 THEN LsNull ELSE s[k - 1]
      BY <3>1 DEF LineOK
    <3>5. e.next[t[i]] = IF i = m - 1 THEN LsNull ELSE t[i + 1]
      <4>1. i # m - 1 => t[i + 1] = s[Kept(i + 1, a)]
        BY <1>1, <2>2
      <4>2. CASE k = a - 1
        <5>1. /\ a # 1 /\ (i = m - 1 <=> a = m) /\ Kept(i + 1, a) = a + 1
          BY <1>1, <4>2 DEF Kept
        <5>2. e.next[s[a - 1]] = IF a = m THEN LsNull ELSE s[a + 1]
          BY <2>1, <5>1 DEF Removed
        <5> QED
          BY <3>1, <4>1, <4>2, <5>1, <5>2
      <4>3. CASE k # a - 1
        <5>1. (i = m - 1 <=> k = m) /\ Kept(i + 1, a) = k + 1
          BY <1>1, <4>3 DEF Kept
        <5>2. a # 1 => s[k] # s[a - 1]
          BY <1>1, <2>4, <3>1, <4>3
        <5>3. e.next[s[k]] = b.next[s[k]]
          BY <2>1, <3>1, <3>3, <5>2 DEF Removed
        <5> QED
          BY <3>1, <3>4, <4>1, <5>1, <5>3
      <4> QED
        BY <4>2, <4>3
    <3>6. e.prev[t[i]] = IF i = 1 THEN LsNull ELSE t[i - 1]
      <4>1. i # 1 => t[i - 1] = s[Kept(i - 1, a)]
        BY <1>1, <2>2
      <4>2. CASE k = a + 1
        <5>1. /\ a # m /\ (i = 1 <=> a = 1) /\ Kept(i - 1, a) = a - 1
          BY <1>1, <3>1, <4>2 DEF Kept
        <5>2. e.prev[s[a + 1]] = IF a = 1 THEN LsNull ELSE s[a - 1]
          BY <2>1, <5>1 DEF Removed
        <5> QED
          BY <3>1, <4>1, <4>2, <5>1, <5>2
      <4>3. CASE k # a + 1
        <5>1. (i = 1 <=> k = 1) /\ Kept(i - 1, a) = k - 1
          BY <1>1, <4>3 DEF Kept
        <5>2. a # m => s[k] # s[a + 1]
          BY <1>1, <2>4, <3>1, <4>3
        <5>3. e.prev[s[k]] = b.prev[s[k]]
          BY <2>1, <3>1, <3>3, <5>2 DEF Removed
        <5> QED
          BY <3>1, <3>4, <4>1, <5>1, <5>3
      <4> QED
        BY <4>2, <4>3
    <3> QED
      BY <3>5, <3>6
  <2>7. /\ e.head = IF m = 1 THEN LsNull ELSE t[1]
        /\ e.tail = IF m = 1 THEN LsNull ELSE t[m - 1]
    <3>1. CASE m = 1
      <4>1. a = 1 /\ a = m
        BY <1>1, <3>1
      <4> QED
        BY <2>1, <3>1, <4>1 DEF Removed
    <3>2. CASE m # 1
      <4>1. 1 \in 1..(m - 1) /\ m - 1 \in 1..(m - 1)
        <5>1. m \in Nat /\ a \in 1..m
          BY <1>1
        <5> HIDE DEF m
        <5> QED
          BY <3>2, <5>1
      <4>2. /\ Kept(1, a) = (IF a = 1 THEN 2 ELSE 1)
            /\ Kept(m - 1, a) = (IF a = m THEN m - 1 ELSE m)
        BY <1>1, <3>2 DEF Kept
      <4> QED
        BY <2>1, <2>2, <3>2, <4>1, <4>2 DEF Removed
    <3> QED
      BY <3>1, <3>2
  <2>8. m - 1 = 0 <=> m = 1
    BY <1>1
  <2>9. LineOK(e, t)
    BY <2>1, <2>2, <2>3, <2>5, <2>6, <2>7, <2>8 DEF LineOK, Removed
  <2> QED
    BY <2>2, <2>9
<1> QED
  BY <1>2, <1>3 DEF Off

------------------------------------------------------------------------------
(* The theorem *)

\* The inductive invariant.
LsInv == RingOK(dl, ring) /\ LineOK(bl, line)

LEMMA ShiftKeeps ==
  ASSUME LsInv, NEW k \in Nat, NextShift(k) \/ PrevShift(k)
  PROVE  RingOK(dl', ring')
<1>1. RingOK(dl, ring) /\ ring # << >> /\ Len(ring) \in Nat \ {0}
  BY DEF LsInv, NextShift, PrevShift, RingOK, Once
<1>2. CASE NextShift(k)
  <2>1. dl' = [dl EXCEPT !.head = Walk(dl.next, dl.head, k)] /\ ring' = Rotated(ring, k)
    BY <1>2 DEF NextShift
  <2>2. dl' = [dl EXCEPT !.head = ring[(k % Len(ring)) + 1]]
    BY <1>1, <2>1, WalkNext
  <2> QED
    BY <1>1, <2>1, <2>2, RotatedOK
<1>3. CASE PrevShift(k)
  <2>1. dl' = [dl EXCEPT !.head = Walk(dl.prev, dl.head, k)] /\ ring' = Rotated(ring, (Len(ring) - 1) * k)
    BY <1>3 DEF PrevShift
  <2>2. PICK c \in Nat : c = (Len(ring) - 1) * k
    <3>1. Len(ring) - 1 \in Nat
      BY <1>1
    <3> QED
      BY <3>1
  <2>3. dl' = [dl EXCEPT !.head = ring[(c % Len(ring)) + 1]]
    BY <1>1, <2>1, <2>2, WalkPrev
  <2> QED
    BY <1>1, <2>1, <2>2, <2>3, RotatedOK
<1> QED
  BY <1>2, <1>3

LEMMA LSStep == ASSUME LsInv, [LSNext]_lsVars, LsAssumption PROVE LsInv'
<1>1. /\ RingOK(dl, ring) /\ LineOK(bl, line) /\ Once(ring) /\ Once(line)
      /\ ring \in Seq(LsNode) /\ line \in Seq(LsNode)
  BY DEF LsInv, RingOK, LineOK, Once
<1>2. ASSUME NEW n \in LsNode, DLInsert(n) PROVE LsInv'
  <2>1. Off(ring, n) /\ dl' = InsertRing(dl, n) /\ ring' = Append(ring, n) /\ bl' = bl /\ line' = line
    BY <1>1, <1>2, OffMember DEF DLInsert
  <2>2. RingOK(dl', ring')
    BY <1>1, <2>1, InsertRingOK
  <2> QED
    BY <1>1, <2>1, <2>2 DEF LsInv
<1>3. ASSUME NEW n \in LsNode, DLRemove(n) PROVE LsInv'
  <2>1. dl' = RemoveRing(dl, n) /\ bl' = bl /\ line' = line
    BY <1>3 DEF DLRemove
  <2>2. ring' = LsWithout(ring, n)
    BY <1>1, <1>3, TailIsWithout DEF DLRemove
  <2>3. RingOK(dl', ring')
    BY <1>1, <2>1, <2>2, RemoveRingOK
  <2> QED
    BY <1>1, <2>1, <2>3 DEF LsInv
<1>4. ASSUME NEW n \in LsNode, BLAdd(n) PROVE LsInv'
  <2>1. dl' = dl /\ ring' = ring /\ bl' = AddLine(bl, n) /\ line' = IF Off(line, n) THEN Append(line, n) ELSE line
    BY <1>1, <1>4, OffMember DEF BLAdd
  <2>2. LineOK(bl', line')
    BY <1>1, <2>1, AddLineOK
  <2> QED
    BY <1>1, <2>1, <2>2 DEF LsInv
<1>5. ASSUME NEW n \in LsNode, BLRemove(n) PROVE LsInv'
  <2>1. dl' = dl /\ ring' = ring /\ bl' = RemoveLine(bl, n) /\ line' = LsWithout(line, n)
    BY <1>5 DEF BLRemove
  <2>2. LineOK(bl', line')
    BY <1>1, <2>1, RemoveLineOK
  <2> QED
    BY <1>1, <2>1, <2>2 DEF LsInv
<1>6. ASSUME NEW n \in LsNode, Readd(n) PROVE LsInv'
  <2>1. dl' = dl /\ ring' = ring /\ bl' = AddLine(RemoveLine(bl, n), n) /\ line' = Append(LsWithout(line, n), n)
    BY <1>6 DEF Readd
  <2>2. LineOK(RemoveLine(bl, n), LsWithout(line, n)) /\ Off(LsWithout(line, n), n)
    BY <1>1, RemoveLineOK
  <2>3. LineOK(bl', line')
    BY <2>1, <2>2, AddLineOK
  <2> QED
    BY <1>1, <2>1, <2>3 DEF LsInv
<1>7. ASSUME NEW k \in 1..LsMaxShift, NextShift(k) \/ PrevShift(k) PROVE LsInv'
  <2>1. k \in Nat /\ bl' = bl /\ line' = line
    BY <1>7 DEF NextShift, PrevShift, LsAssumption
  <2>2. RingOK(dl', ring')
    BY <1>7, <2>1, ShiftKeeps
  <2> QED
    BY <1>1, <2>1, <2>2 DEF LsInv
<1>8. CASE DLDestroy
  <2>1. dl' = RemoveRing(dl, dl.head) /\ ring' = Tail(ring) /\ dl.head # LsNull /\ bl' = bl /\ line' = line
    BY <1>8 DEF DLDestroy
  <2>2. ring # << >> /\ dl.head = ring[1]
    BY <1>1, <2>1 DEF RingOK
  <2>3. ring' = LsWithout(ring, dl.head) /\ dl.head \in LsNode
    BY <1>1, <2>1, <2>2, TailIsWithout
  <2>4. RingOK(dl', ring')
    BY <1>1, <2>1, <2>3, RemoveRingOK
  <2> QED
    BY <1>1, <2>1, <2>4 DEF LsInv
<1>9. CASE UNCHANGED lsVars
  BY <1>1, <1>9 DEF lsVars, LsInv
<1> QED
  BY <1>2, <1>3, <1>4, <1>5, <1>6, <1>7, <1>8, <1>9 DEF LSNext

\* For any nodes and any sequence of calls: next, prev, head_, tail_, count_ and
\* is_add of the two intrusive lists are those of the ring and of the line that
\* the calls describe, and a node that is on neither has no neighbours.
THEOREM ListsCorrect == LSInit /\ [][LSNext]_lsVars => []ListsOK
<1>1. LSInit => LsInv
  <2>1. SUFFICES ASSUME LSInit PROVE LsInv
    OBVIOUS
  <2>2. Unlinked \in [LsNode -> LsOrNull] /\ \A x \in LsNode : Unlinked[x] = LsNull
    BY DEF Unlinked, LsOrNull
  <2>3. LsNull \in LsOrNull /\ [n \in LsNode |-> FALSE] \in [LsNode -> BOOLEAN]
    BY DEF LsOrNull
  <2>4. Once(<< >>) /\ Len(<< >>) = 0 /\ (\A x : Off(<< >>, x)) /\ 1..0 = {}
    BY OnceEmpty
  <2>5. dl \in DlType /\ bl \in BlType
    BY <2>1, <2>2, <2>3 DEF LSInit, DlType, BlType
  <2>6. RingOK(dl, ring)
    BY <2>1, <2>2, <2>4, <2>5 DEF LSInit, RingOK
  <2>7. LineOK(bl, line)
    BY <2>1, <2>2, <2>4, <2>5 DEF LSInit, LineOK
  <2> QED
    BY <2>6, <2>7 DEF LsInv
<1>2. LsInv /\ [LSNext]_lsVars => LsInv'
  BY LSStep, LsAssumption
<1>3. LsInv => ListsOK
  BY RingIsRing, LineIsLine DEF LsInv, ListsOK
<1> QED
  BY <1>1, <1>2, <1>3, PTL
==============================================================================
