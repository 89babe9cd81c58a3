-------------------------- MODULE NetWorker_proofs ---------------------------
(***************************************************************************)
(* Proofs about NetWorker, for every number of workers, channels, signals  *)
(* and every capacity of the sockets; about Cpus, which binds the workers  *)
(* to processors, for every number of them; and about TimersManager, which *)
(* every worker has, for every number of timers, period and clock.         *)
(***************************************************************************)
EXTENDS NetWorker, Cpus, TimersManager, FiniteSetTheorems, SequenceTheorems, WellFoundedInduction, TLAPS

\* Worker 0, where Stop() starts, exists.
LEMMA WorkerZero == 0 \in Worker /\ Worker \subseteq Nat
  BY WorkerAssumption DEF Worker

\* Appending to a queue keeps its elements and adds the new one.
LEMMA ElemsAppend ==
  ASSUME NEW S, NEW s \in Seq(S), NEW e \in S
  PROVE  Elems(Append(s, e)) = Elems(s) \cup {e}
<1>1. Len(Append(s, e)) = Len(s) + 1 /\ Len(s) \in Nat
  OBVIOUS
<1>2. /\ \A i \in 1..Len(s) : Append(s, e)[i] = s[i]
      /\ Append(s, e)[Len(s) + 1] = e
  OBVIOUS
<1> QED
  BY <1>1, <1>2 DEF Elems

\* Taking the head of a queue leaves every other element in it.
LEMMA ElemsTail ==
  ASSUME NEW S, NEW s \in Seq(S), s # <<>>
  PROVE  Elems(s) = {Head(s)} \cup Elems(Tail(s))
<1>1. Len(Tail(s)) = Len(s) - 1 /\ Len(s) \in Nat \ {0} /\ Head(s) = s[1]
  OBVIOUS
<1>2. \A i \in 1..(Len(s) - 1) : Tail(s)[i] = s[i + 1]
  OBVIOUS
<1>3. \A i \in 2..Len(s) : i - 1 \in 1..(Len(s) - 1) /\ Tail(s)[i - 1] = s[i]
  BY <1>1, <1>2
<1>4. Elems(s) \subseteq {Head(s)} \cup Elems(Tail(s))
  <2> SUFFICES ASSUME NEW i \in 1..Len(s), i # 1
               PROVE  s[i] \in Elems(Tail(s))
    BY <1>1 DEF Elems
  <2> QED
    BY <1>1, <1>3 DEF Elems
<1>5. {Head(s)} \cup Elems(Tail(s)) \subseteq Elems(s)
  <2>1. \A i \in 1..(Len(s) - 1) : i + 1 \in 1..Len(s)
    BY <1>1
  <2> QED
    BY <2>1, <1>1, <1>2 DEF Elems
<1> QED
  BY <1>4, <1>5


\* A remainder is smaller than its divisor.
LEMMA ModRange ==
  ASSUME NEW k \in Nat, NEW n \in Nat \ {0}
  PROVE  (k % n) + 1 \in 1..n
  OBVIOUS

\* The index Accept computes is one of other_'s, since an acceptor that is
\* ready has workers to deal connections out to.
LEMMA OtherIndex ==
  ASSUME NEW w \in Worker, other[w] # <<>>, NEW k \in Nat
  PROVE  (k % Len(other[w])) + 1 \in 1..Len(other[w])
<1>1. Len(other[w]) \in Nat \ {0}
  BY WorkerAssumption
<1> QED
  BY <1>1, ModRange

\* Every step keeps the types: a SendCmd is on a channel of the worker, so
\* the datagram posted names a channel, and a handler stops at the last worker.
LEMMA TypeStep ==
  ASSUME TypeOK, SendInv, [Next]_vars
  PROVE  TypeOK'
<1>1. ASSUME NEW w \in Worker, Initialize(w)  PROVE TypeOK'
  <2>1. LoopType'
    BY <1>1 DEF TypeOK, LoopType, Status, Pc, Callback, Event, Initialize, loopVars,
       Goto
  <2>2. UNCHANGED <<out, ret, acc, sent, infos, sock, queue, lost, closes, asked, hpc, hat, mpc, mat>>
    BY <1>1 DEF Initialize, loopVars, sendVars, chanVars, sigVars, mainVars
  <2>3. (SendType /\ ChanType /\ StopType)'
    BY <2>2 DEF TypeOK, SendType, ChanType, StopType
  <2> QED
    BY <2>1, <2>3 DEF TypeOK
<1>2. ASSUME NEW w \in Worker, PulseTimeout(w)  PROVE TypeOK'
  <2>1. LoopType'
    BY <1>2 DEF TypeOK, LoopType, Status, Pc, Callback, Event, PulseTimeout, loopVars,
       Goto
  <2>2. UNCHANGED <<out, ret, acc, sent, infos, sock, queue, lost, closes, asked, hpc, hat, mpc, mat>>
    BY <1>2 DEF PulseTimeout, loopVars, sendVars, chanVars, sigVars, mainVars
  <2>3. (SendType /\ ChanType /\ StopType)'
    BY <2>2 DEF TypeOK, SendType, ChanType, StopType
  <2> QED
    BY <2>1, <2>3 DEF TypeOK
<1>3. ASSUME NEW w \in Worker, RecvInfo(w)  PROVE TypeOK'
  <2>1. LoopType'
    BY <1>3 DEF TypeOK, LoopType, Status, Pc, Callback, Event, RecvInfo, Goto
  <2>2. ChanType'
    <3>1. CASE sock[w] # <<>>
      <4>1. Head(sock[w]) \in Chan \cup {Wake} /\ Tail(sock[w]) \in Seq(Chan \cup {Wake})
        BY <3>1 DEF TypeOK, ChanType
      <4>2. Append(infos[w], Head(sock[w])) \in Seq(Chan \cup {Wake})
        BY <4>1 DEF TypeOK, ChanType
      <4> QED
        BY <1>3, <3>1, <4>1, <4>2 DEF TypeOK, ChanType, RecvInfo
    <3>2. CASE sock[w] = <<>>
      BY <1>3, <3>2 DEF TypeOK, ChanType, RecvInfo
    <3> QED
      BY <3>1, <3>2
  <2>3. UNCHANGED <<out, ret, acc, sent, closes, asked, hpc, hat, mpc, mat>>
    BY <1>3 DEF RecvInfo, sendVars, sigVars, mainVars
  <2>4. (SendType /\ StopType)'
    BY <2>3 DEF TypeOK, SendType, StopType
  <2> QED
    BY <2>1, <2>2, <2>4 DEF TypeOK
<1>4. ASSUME NEW w \in Worker, Accept(w)  PROVE TypeOK'
  <2>1. LoopType'
    BY <1>4 DEF TypeOK, LoopType, Status, Pc, Callback, Event, Accept, Goto
  <2>2. SendType'
    <3>1. CASE UNCHANGED <<out, ret, acc, sent>>
      BY <3>1 DEF TypeOK, SendType
    <3>2. CASE /\ out' = [out EXCEPT ![w] = other[w][(acc[w] % Len(other[w])) + 1]]
               /\ ret' = [ret EXCEPT ![w] = "events"]
               /\ acc' = [acc EXCEPT ![w] = @ + 1]
               /\ sent' = sent + 1
      <4>1. other[w][(acc[w] % Len(other[w])) + 1] \in Chan
        <5>1. other[w] # <<>> /\ other[w] \in Seq(Chan) /\ acc[w] \in Nat
          BY <1>4, WorkerAssumption DEF TypeOK, SendType, Accept, SendInv, SendAt
        <5> QED
          BY <5>1, OtherIndex
      <4> QED
        BY <3>2, <4>1 DEF TypeOK, SendType
    <3> QED
      BY <1>4, <3>1, <3>2 DEF Accept
  <2>3. UNCHANGED <<infos, sock, queue, lost, closes, asked, hpc, hat, mpc, mat>>
    BY <1>4 DEF Accept, chanVars, sigVars, mainVars
  <2>4. (ChanType /\ StopType)'
    BY <2>3 DEF TypeOK, ChanType, StopType
  <2> QED
    BY <2>1, <2>2, <2>4 DEF TypeOK
<1>5. ASSUME NEW w \in Worker, OnEvent(w)  PROVE TypeOK'
  <2>1. LoopType'
    BY <1>5 DEF TypeOK, LoopType, Status, Pc, Callback, Event, OnEvent, Goto
  <2>2. UNCHANGED <<out, ret, acc, sent, infos, sock, queue, lost, closes, asked, hpc, hat, mpc, mat>>
    BY <1>5 DEF OnEvent, sendVars, chanVars, sigVars, mainVars
  <2>3. (SendType /\ ChanType /\ StopType)'
    BY <2>2 DEF TypeOK, SendType, ChanType, StopType
  <2> QED
    BY <2>1, <2>3 DEF TypeOK
<1>6. ASSUME NEW w \in Worker, Pulse(w)  PROVE TypeOK'
  <2>1. LoopType'
    BY <1>6 DEF TypeOK, LoopType, Status, Pc, Callback, Event, Pulse, Goto
  <2>2. UNCHANGED <<out, ret, acc, sent, infos, sock, queue, lost, closes, asked, hpc, hat, mpc, mat>>
    BY <1>6 DEF Pulse, sendVars, chanVars, sigVars, mainVars
  <2>3. (SendType /\ ChanType /\ StopType)'
    BY <2>2 DEF TypeOK, SendType, ChanType, StopType
  <2> QED
    BY <2>1, <2>3 DEF TypeOK
<1>7. ASSUME NEW w \in Worker, PulseEintr(w)  PROVE TypeOK'
  <2>1. LoopType'
    BY <1>7 DEF TypeOK, LoopType, Status, Pc, Callback, Event, PulseEintr, Goto
  <2>2. UNCHANGED <<out, ret, acc, sent, infos, sock, queue, lost, closes, asked, hpc, hat, mpc, mat>>
    BY <1>7 DEF PulseEintr, sendVars, chanVars, sigVars, mainVars
  <2>3. (SendType /\ ChanType /\ StopType)'
    BY <2>2 DEF TypeOK, SendType, ChanType, StopType
  <2> QED
    BY <2>1, <2>3 DEF TypeOK
<1>8. ASSUME NEW w \in Worker, EventsDone(w)  PROVE TypeOK'
  <2>1. LoopType'
    BY <1>8 DEF TypeOK, LoopType, Status, Pc, Callback, Event, EventsDone, loopVars,
       Goto
  <2>2. UNCHANGED <<out, ret, acc, sent, infos, sock, queue, lost, closes, asked, hpc, hat, mpc, mat>>
    BY <1>8 DEF EventsDone, loopVars, sendVars, chanVars, sigVars, mainVars
  <2>3. (SendType /\ ChanType /\ StopType)'
    BY <2>2 DEF TypeOK, SendType, ChanType, StopType
  <2> QED
    BY <2>1, <2>3 DEF TypeOK
<1>9. ASSUME NEW w \in Worker, SendCmd(w)  PROVE TypeOK'
  <2>1. LoopType'
    BY <1>9 DEF TypeOK, LoopType, Status, Pc, Callback, Event, SendCmd, loopVars, Goto
  <2>2. SendType'
    BY <1>9 DEF TypeOK, SendType, Callback, SendCmd, loopVars
  <2>3. UNCHANGED <<infos, sock, queue, lost, closes, asked, hpc, hat, mpc, mat>>
    BY <1>9 DEF SendCmd, loopVars, chanVars, sigVars, mainVars
  <2>4. (ChanType /\ StopType)'
    BY <2>3 DEF TypeOK, ChanType, StopType
  <2> QED
    BY <2>1, <2>2, <2>4 DEF TypeOK
<1>10. ASSUME NEW w \in Worker, SendInsert(w)  PROVE TypeOK'
  <2>1. LoopType'
    BY <1>10 DEF TypeOK, LoopType, Status, Pc, Callback, Event, SendInsert, loopVars,
       Goto
  <2>2. ChanType'
    BY <1>10 DEF TypeOK, ChanType, SendInsert, loopVars, SendInv, SendAt
  <2>3. UNCHANGED <<out, ret, acc, sent, closes, asked, hpc, hat, mpc, mat>>
    BY <1>10 DEF SendInsert, loopVars, sendVars, sigVars, mainVars
  <2>4. (SendType /\ StopType)'
    BY <2>3 DEF TypeOK, SendType, StopType
  <2> QED
    BY <2>1, <2>2, <2>4 DEF TypeOK
<1>11. ASSUME NEW w \in Worker, SendPost(w)  PROVE TypeOK'
  <2>1. LoopType'
    BY <1>11 DEF TypeOK, LoopType, Status, Pc, Callback, Event, SendPost, loopVars,
       Goto, SendInv, SendAt
  <2>2. SendType'
    BY <1>11 DEF TypeOK, SendType, Callback, SendPost, loopVars
  <2>3. ChanType'
    <3>1. out[w] \in Chan /\ dst[out[w]] \in Worker
      BY <1>11, WorkerAssumption DEF SendInv, SendAt, SendPost
    <3>2. Append(sock[dst[out[w]]], out[w]) \in Seq(Chan \cup {Wake})
      BY <3>1 DEF TypeOK, ChanType
    <3>3. sock' \in [Worker -> Seq(Chan \cup {Wake})]
      BY <1>11, <3>1, <3>2 DEF TypeOK, ChanType, SendPost, Deliver
    <3>4. lost' \in [Chan -> BOOLEAN]
      BY <1>11, <3>1 DEF TypeOK, ChanType, SendPost
    <3> QED
      BY <1>11, <3>3, <3>4 DEF TypeOK, ChanType, SendPost, loopVars
  <2>4. UNCHANGED <<closes, asked, hpc, hat, mpc, mat>>
    BY <1>11 DEF SendPost, loopVars, sigVars, mainVars
  <2>5. (StopType)'
    BY <2>4 DEF TypeOK, StopType
  <2> QED
    BY <2>1, <2>2, <2>3, <2>5 DEF TypeOK
<1>12. ASSUME NEW w \in Worker, ProcessCmd(w)  PROVE TypeOK'
  <2>1. LoopType'
    BY <1>12 DEF TypeOK, LoopType, Status, Pc, Callback, Event, ProcessCmd, Goto
  <2>2. ChanType'
    <3>1. /\ Head(infos[w]) \in Chan \cup {Wake}
          /\ Tail(infos[w]) \in Seq(Chan \cup {Wake})
      BY <1>12 DEF TypeOK, ChanType, ProcessCmd
    <3>2. infos' \in [Worker -> Seq(Chan \cup {Wake})]
      BY <1>12, <3>1 DEF TypeOK, ChanType, ProcessCmd
    <3>3. queue' \in [Chan -> Nat]
      BY <1>12, <3>1 DEF TypeOK, ChanType, ProcessCmd
    <3>4. lost' \in [Chan -> BOOLEAN]
      BY <1>12, <3>1 DEF TypeOK, ChanType, ProcessCmd
    <3> QED
      BY <1>12, <3>2, <3>3, <3>4 DEF TypeOK, ChanType, ProcessCmd
  <2>3. UNCHANGED <<out, ret, acc, sent, closes, asked, hpc, hat, mpc, mat>>
    BY <1>12 DEF ProcessCmd, sendVars, sigVars, mainVars
  <2>4. (SendType /\ StopType)'
    BY <2>3 DEF TypeOK, SendType, StopType
  <2> QED
    BY <2>1, <2>2, <2>4 DEF TypeOK
<1>13. ASSUME NEW w \in Worker, CmdsDone(w)  PROVE TypeOK'
  <2>1. LoopType'
    BY <1>13 DEF TypeOK, LoopType, Status, Pc, Callback, Event, CmdsDone, loopVars, Goto
  <2>2. UNCHANGED <<out, ret, acc, sent, infos, sock, queue, lost, closes, asked, hpc, hat, mpc, mat>>
    BY <1>13 DEF CmdsDone, loopVars, sendVars, chanVars, sigVars, mainVars
  <2>3. (SendType /\ ChanType /\ StopType)'
    BY <2>2 DEF TypeOK, SendType, ChanType, StopType
  <2> QED
    BY <2>1, <2>3 DEF TypeOK
<1>14. ASSUME NEW w \in Worker, CallbackDone(w)  PROVE TypeOK'
  <2>1. LoopType'
    BY <1>14 DEF TypeOK, LoopType, Status, Pc, Callback, Event, CallbackDone, loopVars,
       Goto
  <2>2. UNCHANGED <<out, ret, acc, sent, infos, sock, queue, lost, closes, asked, hpc, hat, mpc, mat>>
    BY <1>14 DEF CallbackDone, loopVars, sendVars, chanVars, sigVars, mainVars
  <2>3. (SendType /\ ChanType /\ StopType)'
    BY <2>2 DEF TypeOK, SendType, ChanType, StopType
  <2> QED
    BY <2>1, <2>3 DEF TypeOK
<1>15. ASSUME NEW w \in Worker, CheckClose(w)  PROVE TypeOK'
  <2>1. LoopType'
    BY <1>15 DEF TypeOK, LoopType, Status, Pc, Callback, Event, CheckClose, Goto
  <2>2. StopType'
    BY <1>15 DEF TypeOK, StopType, CheckClose, sigVars, mainVars
  <2>3. UNCHANGED <<out, ret, acc, sent, infos, sock, queue, lost>>
    BY <1>15 DEF CheckClose, sendVars, chanVars, sigVars, mainVars
  <2>4. (SendType /\ ChanType)'
    BY <2>3 DEF TypeOK, SendType, ChanType
  <2> QED
    BY <2>1, <2>2, <2>4 DEF TypeOK
<1>16. ASSUME NEW w \in Worker, CloseDone(w)  PROVE TypeOK'
  <2>1. LoopType'
    BY <1>16 DEF TypeOK, LoopType, Status, Pc, Callback, Event, CloseDone, loopVars,
       Goto
  <2>2. UNCHANGED <<out, ret, acc, sent, infos, sock, queue, lost, closes, asked, hpc, hat, mpc, mat>>
    BY <1>16 DEF CloseDone, loopVars, sendVars, chanVars, sigVars, mainVars
  <2>3. (SendType /\ ChanType /\ StopType)'
    BY <2>2 DEF TypeOK, SendType, ChanType, StopType
  <2> QED
    BY <2>1, <2>3 DEF TypeOK
<1>17. ASSUME NEW w \in Worker, CheckClear(w)  PROVE TypeOK'
  <2>1. LoopType'
    BY <1>17 DEF TypeOK, LoopType, Status, Pc, Callback, Event, CheckClear, Goto
  <2>2. UNCHANGED <<out, ret, acc, sent, infos, sock, queue, lost, closes, asked, hpc, hat, mpc, mat>>
    BY <1>17 DEF CheckClear, sendVars, chanVars, sigVars, mainVars
  <2>3. (SendType /\ ChanType /\ StopType)'
    BY <2>2 DEF TypeOK, SendType, ChanType, StopType
  <2> QED
    BY <2>1, <2>3 DEF TypeOK
<1>18. ASSUME NEW w \in Worker, ClearFalse(w)  PROVE TypeOK'
  <2>1. LoopType'
    BY <1>18 DEF TypeOK, LoopType, Status, Pc, Callback, Event, ClearFalse, loopVars,
       Goto
  <2>2. UNCHANGED <<out, ret, acc, sent, infos, sock, queue, lost, closes, asked, hpc, hat, mpc, mat>>
    BY <1>18 DEF ClearFalse, loopVars, sendVars, chanVars, sigVars, mainVars
  <2>3. (SendType /\ ChanType /\ StopType)'
    BY <2>2 DEF TypeOK, SendType, ChanType, StopType
  <2> QED
    BY <2>1, <2>3 DEF TypeOK
<1>19. ASSUME NEW w \in Worker, ClearTrue(w)  PROVE TypeOK'
  <2>1. LoopType'
    BY <1>19 DEF TypeOK, LoopType, Status, Pc, Callback, Event, ClearTrue, loopVars,
       Goto
  <2>2. UNCHANGED <<out, ret, acc, sent, infos, sock, queue, lost, closes, asked, hpc, hat, mpc, mat>>
    BY <1>19 DEF ClearTrue, loopVars, sendVars, chanVars, sigVars, mainVars
  <2>3. (SendType /\ ChanType /\ StopType)'
    BY <2>2 DEF TypeOK, SendType, ChanType, StopType
  <2> QED
    BY <2>1, <2>3 DEF TypeOK
<1>20. ASSUME NEW s \in Sig, Signal(s)  PROVE TypeOK'
  <2>1. StopType'
    BY <1>20 DEF TypeOK, StopType, Signal, mainVars
  <2>2. UNCHANGED <<status, pc, sleep, ev, out, ret, acc, sent, infos, sock, queue, lost>>
    BY <1>20 DEF Signal, loopVars, sendVars, chanVars, mainVars
  <2>3. (LoopType /\ SendType /\ ChanType)'
    BY <2>2 DEF TypeOK, LoopType, SendType, ChanType
  <2> QED
    BY <2>1, <2>3 DEF TypeOK
<1>21. ASSUME NEW s \in Sig, CloseStore(s)  PROVE TypeOK'
  <2>1. LoopType'
    BY <1>21 DEF TypeOK, LoopType, Status, Pc, Callback, Event, CloseStore, loopVars,
       StopType
  <2>2. StopType'
    BY <1>21 DEF TypeOK, StopType, CloseStore, mainVars
  <2>3. UNCHANGED <<out, ret, acc, sent, infos, sock, queue, lost>>
    BY <1>21 DEF CloseStore, loopVars, sendVars, chanVars, mainVars
  <2>4. (SendType /\ ChanType)'
    BY <2>3 DEF TypeOK, SendType, ChanType
  <2> QED
    BY <2>1, <2>2, <2>4 DEF TypeOK
<1>22. ASSUME NEW s \in Sig, ClosePost(s)  PROVE TypeOK'
  <2>1. ChanType'
    BY <1>22 DEF TypeOK, ChanType, ClosePost, loopVars, Deliver, CanPost, StopType
  <2>2. StopType'
    BY <1>22, WorkerZero DEF TypeOK, StopType, ClosePost, mainVars
  <2>3. UNCHANGED <<status, pc, sleep, ev, out, ret, acc, sent>>
    BY <1>22 DEF ClosePost, loopVars, sendVars, mainVars
  <2>4. (LoopType /\ SendType)'
    BY <2>3 DEF TypeOK, LoopType, SendType
  <2> QED
    BY <2>1, <2>2, <2>4 DEF TypeOK
<1>23. ASSUME Join  PROVE TypeOK'
  <2>1. StopType'
    <3>1. mat \in 1..N /\ (mat' = mat \/ (mat \in 0..(N - 1) /\ mat' = mat + 1))
      BY <1>23 DEF TypeOK, StopType, Join, Worker
    <3>2. mat' \in 1..N
      BY <3>1, WorkerAssumption
    <3> QED
      BY <1>23, <3>2 DEF TypeOK, StopType, Join, sigVars
  <2>2. UNCHANGED <<status, pc, sleep, ev, out, ret, acc, sent, infos, sock, queue, lost>>
    BY <1>23 DEF Join, loopVars, sendVars, chanVars, sigVars
  <2>3. (LoopType /\ SendType /\ ChanType)'
    BY <2>2 DEF TypeOK, LoopType, SendType, ChanType
  <2> QED
    BY <2>1, <2>3 DEF TypeOK
<1>24. ASSUME UNCHANGED vars  PROVE TypeOK'
  <2>1. LoopType' /\ SendType'
    BY <1>24 DEF TypeOK, LoopType, SendType, vars, loopVars, sendVars
  <2>2. ChanType'
    BY <1>24 DEF TypeOK, ChanType, vars, loopVars, chanVars
  <2>3. StopType'
    BY <1>24 DEF TypeOK, StopType, vars, sigVars, mainVars
  <2> QED
    BY <2>1, <2>2, <2>3 DEF TypeOK
<1> QED
  BY <1>1, <1>2, <1>3, <1>4, <1>5, <1>6, <1>7, <1>8, <1>9, <1>10, <1>11, <1>12, <1>13,
     <1>14, <1>15, <1>16, <1>17, <1>18, <1>19, <1>20, <1>21, <1>22, <1>23,
     <1>24 DEF Next, Thread, Handler

\* Every step keeps a worker that sends on a channel of its own.
LEMMA SendStep ==
  ASSUME TypeOK, SendInv, [Next]_vars
  PROVE  SendInv'
<1> SUFFICES ASSUME NEW v \in Worker PROVE SendAt(v)'
  BY DEF SendInv
<1>0. SendAt(v)
  BY DEF SendInv
<1>1. ASSUME NEW w \in Worker, Initialize(w)  PROVE SendAt(v)'
  BY <1>0, <1>1 DEF TypeOK, SendAt, LoopType, SendType, Initialize, loopVars, sendVars,
     Goto
<1>2. ASSUME NEW w \in Worker, PulseTimeout(w)  PROVE SendAt(v)'
  BY <1>0, <1>2 DEF TypeOK, SendAt, LoopType, SendType, PulseTimeout, loopVars,
     sendVars, Goto
<1>3. ASSUME NEW w \in Worker, RecvInfo(w)  PROVE SendAt(v)'
  BY <1>0, <1>3 DEF TypeOK, SendAt, LoopType, SendType, RecvInfo, sendVars, Goto
<1>4. ASSUME NEW w \in Worker, Accept(w)  PROVE SendAt(v)'
  <2> DEFINE i == (acc[w] % Len(other[w])) + 1
  <2>1. other[w] # <<>> /\ other[w] \in Seq(Chan) /\ acc[w] \in Nat
    BY <1>4, WorkerAssumption DEF TypeOK, SendType, Accept, SendInv, SendAt
  <2>2. i \in 1..Len(other[w])
    BY <2>1, OtherIndex
  <2>3. other[w][i] \in Chan /\ src[other[w][i]] = w
    BY <2>1, <2>2, OtherAssumption
  <2> QED
    BY <1>0, <1>4, <2>3 DEF TypeOK, SendAt, LoopType, SendType, Accept, Goto
<1>5. ASSUME NEW w \in Worker, OnEvent(w)  PROVE SendAt(v)'
  BY <1>0, <1>5 DEF TypeOK, SendAt, LoopType, SendType, OnEvent, sendVars, Goto
<1>6. ASSUME NEW w \in Worker, Pulse(w)  PROVE SendAt(v)'
  BY <1>0, <1>6 DEF TypeOK, SendAt, LoopType, SendType, Pulse, sendVars, Goto
<1>7. ASSUME NEW w \in Worker, PulseEintr(w)  PROVE SendAt(v)'
  BY <1>0, <1>7 DEF TypeOK, SendAt, LoopType, SendType, PulseEintr, sendVars, Goto
<1>8. ASSUME NEW w \in Worker, EventsDone(w)  PROVE SendAt(v)'
  BY <1>0, <1>8 DEF TypeOK, SendAt, LoopType, SendType, EventsDone, loopVars, sendVars,
     Goto
<1>9. ASSUME NEW w \in Worker, SendCmd(w)  PROVE SendAt(v)'
  BY <1>0, <1>9 DEF TypeOK, SendAt, LoopType, SendType, SendCmd, loopVars, Goto
<1>10. ASSUME NEW w \in Worker, SendInsert(w)  PROVE SendAt(v)'
  BY <1>0, <1>10 DEF TypeOK, SendAt, LoopType, SendType, SendInsert, loopVars,
     sendVars, Goto
<1>11. ASSUME NEW w \in Worker, SendPost(w)  PROVE SendAt(v)'
  BY <1>0, <1>11 DEF TypeOK, SendAt, Callback, LoopType, SendType, SendPost, loopVars,
     Goto
<1>12. ASSUME NEW w \in Worker, ProcessCmd(w)  PROVE SendAt(v)'
  BY <1>0, <1>12 DEF TypeOK, SendAt, LoopType, SendType, ProcessCmd, sendVars, Goto
<1>13. ASSUME NEW w \in Worker, CmdsDone(w)  PROVE SendAt(v)'
  BY <1>0, <1>13 DEF TypeOK, SendAt, LoopType, SendType, CmdsDone, loopVars, sendVars,
     Goto
<1>14. ASSUME NEW w \in Worker, CallbackDone(w)  PROVE SendAt(v)'
  BY <1>0, <1>14 DEF TypeOK, SendAt, LoopType, SendType, CallbackDone, loopVars,
     sendVars, Goto
<1>15. ASSUME NEW w \in Worker, CheckClose(w)  PROVE SendAt(v)'
  BY <1>0, <1>15 DEF TypeOK, SendAt, LoopType, SendType, CheckClose, sendVars, Goto
<1>16. ASSUME NEW w \in Worker, CloseDone(w)  PROVE SendAt(v)'
  BY <1>0, <1>16 DEF TypeOK, SendAt, LoopType, SendType, CloseDone, loopVars, sendVars,
     Goto
<1>17. ASSUME NEW w \in Worker, CheckClear(w)  PROVE SendAt(v)'
  BY <1>0, <1>17 DEF TypeOK, SendAt, LoopType, SendType, CheckClear, sendVars, Goto
<1>18. ASSUME NEW w \in Worker, ClearFalse(w)  PROVE SendAt(v)'
  BY <1>0, <1>18 DEF TypeOK, SendAt, LoopType, SendType, ClearFalse, loopVars,
     sendVars, Goto
<1>19. ASSUME NEW w \in Worker, ClearTrue(w)  PROVE SendAt(v)'
  BY <1>0, <1>19 DEF TypeOK, SendAt, LoopType, SendType, ClearTrue, loopVars, sendVars,
     Goto
<1>20. ASSUME NEW s \in Sig, Signal(s)  PROVE SendAt(v)'
  BY <1>0, <1>20 DEF TypeOK, SendAt, LoopType, SendType, Signal, loopVars, sendVars
<1>21. ASSUME NEW s \in Sig, CloseStore(s)  PROVE SendAt(v)'
  BY <1>0, <1>21 DEF TypeOK, SendAt, LoopType, SendType, CloseStore, loopVars, sendVars
<1>22. ASSUME NEW s \in Sig, ClosePost(s)  PROVE SendAt(v)'
  BY <1>0, <1>22 DEF TypeOK, SendAt, LoopType, SendType, ClosePost, loopVars, sendVars
<1>23. ASSUME Join  PROVE SendAt(v)'
  BY <1>0, <1>23 DEF TypeOK, SendAt, LoopType, SendType, Join, loopVars, sendVars
<1>24. ASSUME UNCHANGED vars  PROVE SendAt(v)'
  BY <1>0, <1>24 DEF TypeOK, SendAt, LoopType, SendType, vars, loopVars, sendVars,
     chanVars, sigVars, mainVars
<1> QED
  BY <1>1, <1>2, <1>3, <1>4, <1>5, <1>6, <1>7, <1>8, <1>9, <1>10, <1>11, <1>12, <1>13,
     <1>14, <1>15, <1>16, <1>17, <1>18, <1>19, <1>20, <1>21, <1>22, <1>23,
     <1>24 DEF Next, Thread, Handler

\* Every step of a worker or of a handler keeps status_ in line with the calls
\* of ex_->Close().
LEMMA CloseStep ==
  ASSUME TypeOK, SendInv, CloseInv, [Next]_vars
  PROVE  CloseInv'
<1> SUFFICES ASSUME NEW v \in Worker PROVE CloseAt(v)'
  BY DEF CloseInv
<1>0. CloseAt(v)
  BY DEF CloseInv
<1>1. ASSUME NEW w \in Worker, Initialize(w)  PROVE CloseAt(v)'
  BY <1>0, <1>1 DEF TypeOK, CloseAt, InClose, LoopType, SendType, StopType, Initialize,
     sendVars, sigVars, Goto
<1>2. ASSUME NEW w \in Worker, PulseTimeout(w)  PROVE CloseAt(v)'
  BY <1>0, <1>2 DEF TypeOK, CloseAt, InClose, LoopType, SendType, StopType,
     PulseTimeout, sendVars, sigVars, Goto
<1>3. ASSUME NEW w \in Worker, RecvInfo(w)  PROVE CloseAt(v)'
  BY <1>0, <1>3 DEF TypeOK, CloseAt, InClose, LoopType, SendType, StopType, RecvInfo,
     sendVars, sigVars, Goto
<1>4. ASSUME NEW w \in Worker, Accept(w)  PROVE CloseAt(v)'
  BY <1>0, <1>4 DEF TypeOK, CloseAt, InClose, LoopType, SendType, StopType, Accept,
     sigVars, Goto
<1>5. ASSUME NEW w \in Worker, OnEvent(w)  PROVE CloseAt(v)'
  BY <1>0, <1>5 DEF TypeOK, CloseAt, InClose, LoopType, SendType, StopType, OnEvent,
     sendVars, sigVars, Goto
<1>6. ASSUME NEW w \in Worker, Pulse(w)  PROVE CloseAt(v)'
  BY <1>0, <1>6 DEF TypeOK, CloseAt, InClose, LoopType, SendType, StopType, Pulse,
     sendVars, sigVars, Goto
<1>7. ASSUME NEW w \in Worker, PulseEintr(w)  PROVE CloseAt(v)'
  BY <1>0, <1>7 DEF TypeOK, CloseAt, InClose, LoopType, SendType, StopType, PulseEintr,
     sendVars, sigVars, Goto
<1>8. ASSUME NEW w \in Worker, EventsDone(w)  PROVE CloseAt(v)'
  BY <1>0, <1>8 DEF TypeOK, CloseAt, InClose, LoopType, SendType, StopType, EventsDone,
     sendVars, sigVars, Goto
<1>9. ASSUME NEW w \in Worker, SendCmd(w)  PROVE CloseAt(v)'
  BY <1>0, <1>9 DEF TypeOK, CloseAt, InClose, Callback, LoopType, SendType, StopType,
     SendCmd, sigVars, Goto
<1>10. ASSUME NEW w \in Worker, SendInsert(w)  PROVE CloseAt(v)'
  BY <1>0, <1>10 DEF TypeOK, CloseAt, InClose, LoopType, SendType, StopType,
     SendInsert, sendVars, sigVars, Goto
<1>11. ASSUME NEW w \in Worker, SendPost(w)  PROVE CloseAt(v)'
  <2>1. /\ pc[w] = "post" /\ pc' = [pc EXCEPT ![w] = ret[w]] /\ ret' = [ret EXCEPT ![w] = "wait"]
        /\ UNCHANGED <<status, closes, asked>>
    BY <1>11 DEF SendPost, sigVars, Goto
  <2>2. ret[w] \in Callback \cup {"events"}
    BY <2>1 DEF SendInv, SendAt
  <2>3. v # w => pc'[v] = pc[v] /\ ret'[v] = ret[v]
    BY <2>1 DEF TypeOK, LoopType, SendType
  <2>4. v = w => pc'[v] = ret[v] /\ ret'[v] = "wait"
    BY <1>11, <2>1 DEF TypeOK, LoopType, SendType
  <2>5. InClose(v)' <=> InClose(v)
    BY <2>1, <2>2, <2>3, <2>4 DEF InClose, Callback
  <2>6. pc'[v] \in {"clearing", "done"} => pc[v] \in {"clearing", "done"}
    BY <2>2, <2>3, <2>4 DEF Callback
  <2> QED
    BY <1>0, <2>1, <2>5, <2>6 DEF CloseAt
<1>12. ASSUME NEW w \in Worker, ProcessCmd(w)  PROVE CloseAt(v)'
  BY <1>0, <1>12 DEF TypeOK, CloseAt, InClose, LoopType, SendType, StopType,
     ProcessCmd, sendVars, sigVars, Goto
<1>13. ASSUME NEW w \in Worker, CmdsDone(w)  PROVE CloseAt(v)'
  BY <1>0, <1>13 DEF TypeOK, CloseAt, InClose, LoopType, SendType, StopType, CmdsDone,
     sendVars, sigVars, Goto
<1>14. ASSUME NEW w \in Worker, CallbackDone(w)  PROVE CloseAt(v)'
  BY <1>0, <1>14 DEF TypeOK, CloseAt, InClose, LoopType, SendType, StopType,
     CallbackDone, sendVars, sigVars, Goto
<1>15. ASSUME NEW w \in Worker, CheckClose(w)  PROVE CloseAt(v)'
  BY <1>0, <1>15 DEF TypeOK, CloseAt, InClose, LoopType, SendType, StopType,
     CheckClose, sendVars, sigVars, Goto
<1>16. ASSUME NEW w \in Worker, CloseDone(w)  PROVE CloseAt(v)'
  BY <1>0, <1>16 DEF TypeOK, CloseAt, InClose, LoopType, SendType, StopType, CloseDone,
     sendVars, sigVars, Goto
<1>17. ASSUME NEW w \in Worker, CheckClear(w)  PROVE CloseAt(v)'
  BY <1>0, <1>17 DEF TypeOK, CloseAt, InClose, LoopType, SendType, StopType,
     CheckClear, sendVars, sigVars, Goto
<1>18. ASSUME NEW w \in Worker, ClearFalse(w)  PROVE CloseAt(v)'
  BY <1>0, <1>18 DEF TypeOK, CloseAt, InClose, LoopType, SendType, StopType,
     ClearFalse, sendVars, sigVars, Goto
<1>19. ASSUME NEW w \in Worker, ClearTrue(w)  PROVE CloseAt(v)'
  BY <1>0, <1>19 DEF TypeOK, CloseAt, InClose, LoopType, SendType, StopType, ClearTrue,
     sendVars, sigVars, Goto
<1>20. ASSUME NEW s \in Sig, Signal(s)  PROVE CloseAt(v)'
  BY <1>0, <1>20 DEF TypeOK, CloseAt, InClose, LoopType, SendType, StopType, Signal,
     sendVars
<1>21. ASSUME NEW s \in Sig, CloseStore(s)  PROVE CloseAt(v)'
  BY <1>0, <1>21 DEF TypeOK, CloseAt, InClose, LoopType, SendType, StopType,
     CloseStore, sendVars
<1>22. ASSUME NEW s \in Sig, ClosePost(s)  PROVE CloseAt(v)'
  BY <1>0, <1>22 DEF TypeOK, CloseAt, InClose, LoopType, SendType, StopType, ClosePost,
     sendVars
<1>23. ASSUME Join  PROVE CloseAt(v)'
  BY <1>0, <1>23 DEF TypeOK, CloseAt, InClose, LoopType, SendType, StopType, Join,
     sendVars, sigVars
<1>24. ASSUME UNCHANGED vars  PROVE CloseAt(v)'
  BY <1>0, <1>24 DEF TypeOK, CloseAt, InClose, LoopType, SendType, StopType, vars,
     loopVars, sendVars, chanVars, sigVars, mainVars
<1> QED
  BY <1>1, <1>2, <1>3, <1>4, <1>5, <1>6, <1>7, <1>8, <1>9, <1>10, <1>11, <1>12, <1>13,
     <1>14, <1>15, <1>16, <1>17, <1>18, <1>19, <1>20, <1>21, <1>22, <1>23,
     <1>24 DEF Next, Thread, Handler

\* No step removes the last trace of a waiting command, unless it drops a Post
\* or finds the channel empty.
LEMMA WakeStep ==
  ASSUME TypeOK, SendInv, WakePending, [Next]_vars
  PROVE  WakePending'
<1> SUFFICES ASSUME NEW c \in Chan, queue'[c] > 0 PROVE Traced(c)'
  BY DEF WakePending
<1>0. queue[c] > 0 => Traced(c)
  BY DEF WakePending
<1>00. src[c] \in Worker /\ dst[c] \in Worker
  BY WorkerAssumption
<1>1. ASSUME NEW w \in Worker, Initialize(w)  PROVE Traced(c)'
  BY <1>0, <1>1 DEF TypeOK, Traced, Announcing, LoopType, SendType, ChanType,
     Initialize, loopVars, sendVars, chanVars, Goto
<1>2. ASSUME NEW w \in Worker, PulseTimeout(w)  PROVE Traced(c)'
  BY <1>0, <1>2 DEF TypeOK, Traced, Announcing, LoopType, SendType, ChanType,
     PulseTimeout, loopVars, sendVars, chanVars, Goto
<1>3. ASSUME NEW w \in Worker, RecvInfo(w)  PROVE Traced(c)'
  <2>1. Announcing(src[c], c) => Announcing(src[c], c)'
    BY <1>00, <1>3 DEF TypeOK, LoopType, RecvInfo, Goto, Announcing, sendVars
  <2>2. CASE sock[w] # <<>>
    <3>1. sock[w] \in Seq(Chan \cup {Wake}) /\ infos[w] \in Seq(Chan \cup {Wake})
      BY DEF TypeOK, ChanType
    <3>2. Head(sock[w]) \in Chan \cup {Wake}
      BY <2>2, <3>1
    <3>3. Elems(Append(infos[w], Head(sock[w]))) = Elems(infos[w]) \cup {Head(sock[w])}
      BY <3>1, <3>2, ElemsAppend
    <3>4. Elems(sock[w]) = {Head(sock[w])} \cup Elems(Tail(sock[w]))
      BY <2>2, <3>1, ElemsTail
    <3>5. /\ sock' = [sock EXCEPT ![w] = Tail(@)]
          /\ infos' = [infos EXCEPT ![w] = Append(@, Head(sock[w]))]
          /\ UNCHANGED <<queue, lost>>
      BY <1>3, <2>2 DEF RecvInfo
    <3>6. CASE dst[c] = w
      <4>1. sock'[dst[c]] = Tail(sock[w]) /\ infos'[dst[c]] = Append(infos[w], Head(sock[w]))
        BY <1>00, <3>5, <3>6 DEF TypeOK, ChanType
      <4> QED
        BY <1>0, <2>1, <3>3, <3>4, <3>5, <3>6, <4>1 DEF Traced
    <3>7. CASE dst[c] # w
      <4>1. sock'[dst[c]] = sock[dst[c]] /\ infos'[dst[c]] = infos[dst[c]]
        BY <1>00, <3>5, <3>7 DEF TypeOK, ChanType
      <4> QED
        BY <1>0, <2>1, <3>5, <4>1 DEF Traced
    <3> QED
      BY <3>6, <3>7
  <2>3. CASE sock[w] = <<>>
    <3>1. UNCHANGED <<sock, infos, queue, lost>>
      BY <1>3, <2>3 DEF RecvInfo
    <3> QED
      BY <1>0, <2>1, <3>1 DEF Traced
  <2> QED
    BY <2>2, <2>3
<1>4. ASSUME NEW w \in Worker, Accept(w)  PROVE Traced(c)'
  <2>1. Announcing(src[c], c) => Announcing(src[c], c)'
    BY <1>00, <1>4 DEF TypeOK, LoopType, SendType, Callback, Announcing, Accept, Goto
  <2>2. UNCHANGED <<sock, infos, queue, lost>>
    BY <1>4 DEF Accept, chanVars
  <2> QED
    BY <1>0, <2>1, <2>2 DEF Traced
<1>5. ASSUME NEW w \in Worker, OnEvent(w)  PROVE Traced(c)'
  BY <1>0, <1>5 DEF TypeOK, Traced, Announcing, LoopType, SendType, ChanType, OnEvent,
     sendVars, chanVars, Goto
<1>6. ASSUME NEW w \in Worker, Pulse(w)  PROVE Traced(c)'
  BY <1>0, <1>6 DEF TypeOK, Traced, Announcing, LoopType, SendType, ChanType, Pulse,
     sendVars, chanVars, Goto
<1>7. ASSUME NEW w \in Worker, PulseEintr(w)  PROVE Traced(c)'
  BY <1>0, <1>7 DEF TypeOK, Traced, Announcing, LoopType, SendType, ChanType,
     PulseEintr, sendVars, chanVars, Goto
<1>8. ASSUME NEW w \in Worker, EventsDone(w)  PROVE Traced(c)'
  BY <1>0, <1>8 DEF TypeOK, Traced, Announcing, LoopType, SendType, ChanType,
     EventsDone, loopVars, sendVars, chanVars, Goto
<1>9. ASSUME NEW w \in Worker, SendCmd(w)  PROVE Traced(c)'
  <2>1. Announcing(src[c], c) => Announcing(src[c], c)'
    BY <1>00, <1>9 DEF TypeOK, LoopType, SendType, Callback, Announcing, SendCmd,
       loopVars, Goto
  <2>2. UNCHANGED <<sock, infos, queue, lost>>
    BY <1>9 DEF SendCmd, loopVars, chanVars
  <2> QED
    BY <1>0, <2>1, <2>2 DEF Traced
<1>10. ASSUME NEW w \in Worker, SendInsert(w)  PROVE Traced(c)'
  <2>1. out[w] \in Chan /\ src[out[w]] = w
    BY <1>10 DEF SendInv, SendAt, SendInsert
  <2>2. CASE c = out[w]
    BY <1>10, <2>1, <2>2 DEF TypeOK, LoopType, SendInsert, Traced, Announcing, Goto,
       sendVars
  <2>3. CASE c # out[w]
    <3>1. queue[c] > 0
      BY <1>10, <2>1, <2>3 DEF TypeOK, ChanType, SendInsert
    <3> QED
      BY <1>0, <3>1, <1>10, <2>3 DEF TypeOK, LoopType, SendInsert, Traced, Announcing,
         Goto, sendVars, loopVars
  <2> QED
    BY <2>2, <2>3
<1>11. ASSUME NEW w \in Worker, SendPost(w)  PROVE Traced(c)'
  <2>1. out[w] \in Chan /\ src[out[w]] = w /\ dst[out[w]] \in Worker
    BY <1>11, WorkerAssumption DEF SendInv, SendAt, SendPost
  <2>2. Traced(c)
    BY <1>0, <1>11 DEF SendPost
  <2>3. Elems(Append(sock[dst[out[w]]], out[w])) = Elems(sock[dst[out[w]]]) \cup {out[w]}
    <3>1. sock[dst[out[w]]] \in Seq(Chan \cup {Wake}) /\ out[w] \in Chan \cup {Wake}
      BY <2>1 DEF TypeOK, ChanType
    <3> QED
      BY <3>1, ElemsAppend
  <2>4. CASE c = out[w]
    <3>1. CASE CanPost(dst[c])
      BY <1>11, <2>1, <2>3, <2>4, <3>1 DEF TypeOK, ChanType, SendPost, Deliver, Traced
    <3>2. CASE ~CanPost(dst[c])
      BY <1>11, <2>1, <2>4, <3>2 DEF TypeOK, ChanType, SendPost, Traced
    <3> QED
      BY <3>1, <3>2
  <2>5. CASE c # out[w]
    <3>1. Elems(sock[dst[c]]) \subseteq Elems(sock'[dst[c]])
      BY <1>11, <2>1, <2>3 DEF TypeOK, ChanType, SendPost, Deliver
    <3>2. lost'[c] = lost[c] /\ infos' = infos
      BY <1>11, <2>1, <2>5 DEF TypeOK, ChanType, SendPost, loopVars
    <3>3. Announcing(src[c], c) => Announcing(src[c], c)'
      BY <1>11, <2>5 DEF TypeOK, LoopType, SendType, SendPost, Goto, Announcing
    <3> QED
      BY <2>2, <3>1, <3>2, <3>3 DEF Traced
  <2> QED
    BY <2>4, <2>5
<1>12. ASSUME NEW w \in Worker, ProcessCmd(w)  PROVE Traced(c)'
  <2> DEFINE h == Head(infos[w])
  <2>1. infos[w] \in Seq(Chan \cup {Wake}) /\ infos[w] # <<>>
    BY <1>12 DEF TypeOK, ChanType, ProcessCmd
  <2>2. Elems(infos[w]) = {h} \cup Elems(Tail(infos[w])) /\ h \in Chan \cup {Wake}
    BY <2>1, ElemsTail
  <2>3. Announcing(src[c], c) => Announcing(src[c], c)'
    BY <1>00, <1>12 DEF TypeOK, LoopType, ProcessCmd, Goto, Announcing, sendVars
  <2>4. CASE h = Wake
    <3>1. Elems(infos[dst[c]]) \subseteq Elems(infos'[dst[c]]) \cup {Wake}
      <4>1. infos' = [infos EXCEPT ![w] = Tail(@)]
        BY <1>12, <2>4 DEF ProcessCmd
      <4>2. infos'[dst[c]] = IF dst[c] = w THEN Tail(infos[w]) ELSE infos[dst[c]]
        BY <1>00, <4>1 DEF TypeOK, ChanType
      <4> QED
        BY <2>2, <2>4, <4>2
    <3>2. c # Wake
      BY WorkerAssumption
    <3> QED
      BY <1>0, <1>12, <2>3, <2>4, <3>1, <3>2 DEF ProcessCmd, Traced
  <2>5. CASE h # Wake /\ queue[h] > 0
    <3>1. queue[c] > 0
      BY <1>0, <1>12, <2>2, <2>5 DEF TypeOK, ChanType, ProcessCmd
    <3> QED
      BY <1>0, <1>12, <2>3, <2>5, <3>1 DEF ProcessCmd, Traced
  <2>6. CASE h # Wake /\ queue[h] = 0
    <3>1. c # h /\ queue[c] > 0
      BY <1>0, <1>12, <2>6 DEF ProcessCmd
    <3>2. Elems(infos[dst[c]]) \subseteq Elems(infos'[dst[c]]) \cup {h}
      <4>1. infos' = [infos EXCEPT ![w] = Tail(@)]
        BY <1>12, <2>6 DEF ProcessCmd
      <4>2. infos'[dst[c]] = IF dst[c] = w THEN Tail(infos[w]) ELSE infos[dst[c]]
        BY <1>00, <4>1 DEF TypeOK, ChanType
      <4> QED
        BY <2>2, <2>6, <4>2
    <3>3. lost'[c] = lost[c] /\ sock' = sock
      BY <1>12, <2>2, <2>6, <3>1 DEF TypeOK, ChanType, ProcessCmd
    <3> QED
      BY <1>0, <2>3, <3>1, <3>2, <3>3 DEF Traced
  <2>7. queue[h] > 0 \/ queue[h] = 0 \/ h = Wake
    BY <2>2 DEF TypeOK, ChanType
  <2> QED
    BY <2>4, <2>5, <2>6, <2>7
<1>13. ASSUME NEW w \in Worker, CmdsDone(w)  PROVE Traced(c)'
  BY <1>0, <1>13 DEF TypeOK, Traced, Announcing, LoopType, SendType, ChanType,
     CmdsDone, loopVars, sendVars, chanVars, Goto
<1>14. ASSUME NEW w \in Worker, CallbackDone(w)  PROVE Traced(c)'
  <2>1. Announcing(src[c], c) => Announcing(src[c], c)'
    BY <1>00, <1>14 DEF TypeOK, LoopType, SendType, Callback, Announcing, CallbackDone,
       loopVars, sendVars, Goto
  <2>2. UNCHANGED <<sock, infos, queue, lost>>
    BY <1>14 DEF CallbackDone, loopVars, chanVars
  <2> QED
    BY <1>0, <2>1, <2>2 DEF Traced
<1>15. ASSUME NEW w \in Worker, CheckClose(w)  PROVE Traced(c)'
  <2>1. Announcing(src[c], c) => Announcing(src[c], c)'
    BY <1>00, <1>15 DEF TypeOK, LoopType, SendType, Callback, Announcing, CheckClose,
       sendVars, Goto
  <2>2. UNCHANGED <<sock, infos, queue, lost>>
    BY <1>15 DEF CheckClose, chanVars
  <2> QED
    BY <1>0, <2>1, <2>2 DEF Traced
<1>16. ASSUME NEW w \in Worker, CloseDone(w)  PROVE Traced(c)'
  BY <1>0, <1>16 DEF TypeOK, Traced, Announcing, LoopType, SendType, ChanType,
     CloseDone, loopVars, sendVars, chanVars, Goto
<1>17. ASSUME NEW w \in Worker, CheckClear(w)  PROVE Traced(c)'
  <2>1. Announcing(src[c], c) => Announcing(src[c], c)'
    BY <1>00, <1>17 DEF TypeOK, LoopType, SendType, Callback, Announcing, CheckClear,
       sendVars, Goto
  <2>2. UNCHANGED <<sock, infos, queue, lost>>
    BY <1>17 DEF CheckClear, chanVars
  <2> QED
    BY <1>0, <2>1, <2>2 DEF Traced
<1>18. ASSUME NEW w \in Worker, ClearFalse(w)  PROVE Traced(c)'
  BY <1>0, <1>18 DEF TypeOK, Traced, Announcing, LoopType, SendType, ChanType,
     ClearFalse, loopVars, sendVars, chanVars, Goto
<1>19. ASSUME NEW w \in Worker, ClearTrue(w)  PROVE Traced(c)'
  BY <1>0, <1>19 DEF TypeOK, Traced, Announcing, LoopType, SendType, ChanType,
     ClearTrue, loopVars, sendVars, chanVars, Goto
<1>20. ASSUME NEW s \in Sig, Signal(s)  PROVE Traced(c)'
  BY <1>0, <1>20 DEF TypeOK, Traced, Announcing, LoopType, SendType, ChanType, Signal,
     loopVars, sendVars, chanVars
<1>21. ASSUME NEW s \in Sig, CloseStore(s)  PROVE Traced(c)'
  BY <1>0, <1>21 DEF TypeOK, Traced, Announcing, LoopType, SendType, ChanType,
     CloseStore, loopVars, sendVars, chanVars
<1>22. ASSUME NEW s \in Sig, ClosePost(s)  PROVE Traced(c)'
  <2>1. hat[s] \in Worker
    BY DEF TypeOK, StopType
  <2>2. Elems(Append(sock[hat[s]], Wake)) = Elems(sock[hat[s]]) \cup {Wake}
    BY <2>1, ElemsAppend DEF TypeOK, ChanType
  <2>3. Elems(sock[dst[c]]) \subseteq Elems(sock'[dst[c]])
    BY <1>22, <2>1, <2>2 DEF TypeOK, ChanType, ClosePost, Deliver
  <2> QED
    BY <1>0, <1>22, <2>3 DEF ClosePost, Traced, Announcing, loopVars, sendVars
<1>23. ASSUME Join  PROVE Traced(c)'
  BY <1>0, <1>23 DEF TypeOK, Traced, Announcing, LoopType, SendType, ChanType, Join,
     loopVars, sendVars, chanVars
<1>24. ASSUME UNCHANGED vars  PROVE Traced(c)'
  BY <1>0, <1>24 DEF TypeOK, Traced, Announcing, LoopType, SendType, ChanType, vars,
     loopVars, sendVars, chanVars, sigVars, mainVars
<1> QED
  BY <1>1, <1>2, <1>3, <1>4, <1>5, <1>6, <1>7, <1>8, <1>9, <1>10, <1>11, <1>12, <1>13,
     <1>14, <1>15, <1>16, <1>17, <1>18, <1>19, <1>20, <1>21, <1>22, <1>23,
     <1>24 DEF Next, Thread, Handler

\* The initial states satisfy every part of the invariant.
LEMMA InitInv == Init => TypeOK /\ LoopInv /\ WakePending
<1> SUFFICES ASSUME Init PROVE TypeOK /\ LoopInv /\ WakePending
  OBVIOUS
<1>1. LoopType
  BY DEF Init, LoopType, Status, Pc, Event
<1>2. SendType /\ ChanType
  BY DEF Init, SendType, ChanType
<1>3. StopType
  BY WorkerAssumption, WorkerZero DEF Init, StopType
<1>4. SendInv /\ CloseInv
  BY DEF Init, SendInv, SendAt, CloseInv, CloseAt, InClose
<1>5. WakePending
  BY DEF Init, WakePending
<1> QED
  BY <1>1, <1>2, <1>3, <1>4, <1>5 DEF TypeOK, LoopInv

\* For every number of workers and signals, the handler of a signal stays
\* within worker_ and every member keeps a value the code gives it.
THEOREM TypeCorrect == Spec => []TypeOK
<1>1. TypeOK /\ SendInv /\ [Next]_vars => TypeOK' /\ SendInv'
  BY TypeStep, SendStep
<1> QED
  BY <1>1, InitInv, PTL DEF Spec, LoopInv

\* The inductive invariant of the event loops holds for every number of
\* workers, channels and signals (Run, Close, SendCmd).
THEOREM LoopInvariant == Spec => []LoopInv
<1>1. TypeOK /\ SendInv /\ CloseInv /\ [Next]_vars => TypeOK' /\ SendInv' /\ CloseInv'
  BY TypeStep, SendStep, CloseStep
<1> QED
  BY <1>1, InitInv, PTL DEF Spec, LoopInv

\* However many workers send, however small the socket queues are and
\* however the threads interleave, a command that waits is announced unless
\* a datagram of its channel was dropped (SendCmd, Pulse, ProcessCmd).
THEOREM NoUnannouncedCommand == Spec => []WakePending
<1>1. TypeOK /\ SendInv /\ WakePending /\ [Next]_vars
        => TypeOK' /\ SendInv' /\ WakePending'
  BY TypeStep, SendStep, WakeStep
<1> QED
  BY <1>1, InitInv, PTL DEF Spec, LoopInv

\* For any number of signals, arriving at any time, a worker calls
\* ex_->Close() before it ends and at most once per signal (Run, Close).
THEOREM ClosedBeforeDone == Spec => []CloseBracket
<1>1. LoopInv => CloseBracket
  BY DEF LoopInv, CloseInv, CloseAt, CloseBracket
<1> QED
  BY <1>1, LoopInvariant, PTL

\* A worker whose ex_->Close() was called hands out no connection (Accept).
THEOREM NothingAcceptedAfterClose == Spec => NoAcceptAfterClose
<1>1. TypeOK /\ LoopInv /\ [Next]_vars
        => [\A w \in Worker : acc'[w] # acc[w] => closes[w] = 0]_vars
  <2> SUFFICES ASSUME TypeOK, LoopInv, Next, NEW v \in Worker, acc'[v] # acc[v]
               PROVE  closes[v] = 0
    OBVIOUS
  <2>1. status[v] = "RUN"
    <3>1. ASSUME NEW w \in Worker, Accept(w)  PROVE status[v] = "RUN"
      BY <3>1 DEF Accept, TypeOK, SendType
    <3>2. ASSUME NEW w \in Worker, Thread(w)  PROVE Accept(w) \/ UNCHANGED acc
      <4>1. CASE Initialize(w) \/ PulseTimeout(w) \/ RecvInfo(w) \/ Pulse(w) \/ EventsDone(w)
        BY <4>1 DEF Initialize, PulseTimeout, RecvInfo, Pulse, EventsDone, loopVars
      <4>2. CASE OnEvent(w) \/ SendInsert(w) \/ SendPost(w) \/ ProcessCmd(w) \/ CmdsDone(w)
        BY <4>2 DEF OnEvent, SendInsert, SendPost, ProcessCmd, CmdsDone, loopVars
      <4>3. CASE \/ CallbackDone(w) \/ CheckClose(w) \/ CloseDone(w) \/ CheckClear(w)
                 \/ ClearFalse(w) \/ ClearTrue(w)
        BY <4>3 DEF CallbackDone, CheckClose, CloseDone, CheckClear, ClearFalse, ClearTrue, loopVars
      <4> QED
        BY <3>2, <4>1, <4>2, <4>3 DEF Thread
    <3>3. ASSUME NEW w \in Worker, Pulse(w) \/ PulseEintr(w) \/ SendCmd(w)  PROVE UNCHANGED acc
      BY <3>3 DEF Pulse, PulseEintr, SendCmd, loopVars
    <3>4. ASSUME NEW s \in Sig, Signal(s) \/ Handler(s)  PROVE UNCHANGED acc
      BY <3>4 DEF Signal, Handler, CloseStore, ClosePost, loopVars
    <3>5. Join => UNCHANGED acc
      BY DEF Join, loopVars
    <3>6. (\E w \in Worker : Accept(w)) \/ UNCHANGED acc
      BY <3>2, <3>3, <3>4, <3>5 DEF Next
    <3> QED
      BY <3>1, <3>6
  <2>2. closes[v] <= asked[v] /\ asked[v] = 0 /\ closes[v] \in Nat
    BY <2>1 DEF LoopInv, CloseInv, CloseAt, TypeOK, StopType
  <2> QED
    BY <2>2
<1> QED
  BY <1>1, TypeCorrect, LoopInvariant, PTL DEF Spec, NoAcceptAfterClose

------------------------------------------------------------------------------
(* The processors EventManager binds its threads to, for any number of     *)
(* them, any that are detached, and any number of workers.                 *)

Cpu == 1..CpCount
Free == Cpu \ cpDetach

\* The threads of s that are bound to i.
Bound(s, i) == Cardinality({j \in 1..Len(s) : s[j] = i})

\* cpu_ counts the threads of s, of which i has Bound(s, i), on those that are
\* free; or there are none and the first counter overflowed.
Spread(load, s) ==
  /\ load \in [Cpu -> Int]
  /\ Free = {} => /\ load[1] = IF Len(s) = 0 THEN CpIntMax ELSE Len(s) - CpIntMax - 2
                  /\ \A i \in Cpu \ {1} : load[i] = CpIntMax
                  /\ \A j \in 1..Len(s) : s[j] = 1
  /\ Free # {} => /\ \A i \in Free : load[i] = Bound(s, i)
                  /\ \A i \in Cpu \ Free : load[i] = CpIntMax
                  /\ \A i, j \in Free : Bound(s, i) <= Bound(s, j) + 1
                  /\ \A j \in 1..Len(s) : s[j] \in Free

CPTypes == /\ cpDetach \subseteq 1..(CpCount + 1) /\ cpBound \in Seq(Int) /\ Len(cpBound) <= CpMaxWorker + 1
           /\ cpPc \in {"setup", "run"}

\* The inductive invariant.
CPInv ==
  /\ CPTypes
  /\ cpPc = "setup" => cpBound = << >> /\ cpLoad = [i \in Cpu |-> 0]
  /\ cpPc = "run" => cpLoad = << >> \/ Spread(cpLoad, cpBound)

\* A thread that is bound is counted once.
LEMMA BoundAppend ==
  ASSUME NEW s \in Seq(Int), NEW c \in Int, NEW i \in Int
  PROVE  /\ Bound(s, i) \in Nat /\ Bound(s, i) <= Len(s)
         /\ Bound(Append(s, c), i) = IF c = i THEN Bound(s, i) + 1 ELSE Bound(s, i)
<1>1. PICK n \in Nat : n = Len(s)
  OBVIOUS
<1> DEFINE A == {j \in 1..n : s[j] = i}
           B == {j \in 1..(n + 1) : Append(s, c)[j] = i}
<1>2. IsFiniteSet(1..n) /\ Cardinality(1..n) = n
  BY FS_Interval
<1>3. IsFiniteSet(A) /\ Cardinality(A) \in Nat /\ Cardinality(A) <= n
  <2>1. A \subseteq 1..n
    OBVIOUS
  <2> HIDE DEF A
  <2>2. IsFiniteSet(A) /\ Cardinality(A) <= n
    BY <1>2, <2>1, FS_Subset
  <2> QED
    BY <2>2, FS_CardinalityType
<1>4. Len(Append(s, c)) = n + 1 /\ Append(s, c)[n + 1] = c /\ \A j \in 1..n : Append(s, c)[j] = s[j]
  BY <1>1, AppendProperties
<1>5. n + 1 \notin A
  OBVIOUS
<1>6. B = IF c = i THEN A \cup {n + 1} ELSE A
  BY <1>4
<1>7. Cardinality(A \cup {n + 1}) = Cardinality(A) + 1
  <2> HIDE DEF A
  <2> QED
    BY <1>3, <1>5, FS_AddElement
<1>8. Bound(s, i) = Cardinality(A) /\ Bound(Append(s, c), i) = Cardinality(B)
  BY <1>1, <1>4 DEF Bound
<1> HIDE DEF A, B
<1> QED
  BY <1>1, <1>3, <1>6, <1>7, <1>8

\* A set of numbers has a least one.
LEMMA LeastNumber ==
  ASSUME NEW T \in SUBSET Nat, T # {}
  PROVE  \E n \in T : \A i \in T : n <= i
<1> DEFINE R == OpToRel(<, Nat)
<1>1. IsWellFoundedOn(R, Nat)
  BY NatLessThanWellFounded
<1>2. \A x, y \in Nat : x < y => <<x, y>> \in R
  BY DEF OpToRel
<1> HIDE DEF R
<1>3. PICK n \in T : \A y \in T : ~(<<y, n>> \in R)
  BY <1>1, WFMin
<1>4. ASSUME NEW i \in T PROVE n <= i
  <2>1. n \in Nat /\ i \in Nat /\ ~(i < n)
    BY <1>2, <1>3, <1>4
  <2> QED
    BY <2>1
<1> QED
  BY <1>4

\* The search of AddWorker finds a processor with the fewest threads.
LEMMA LeastFound ==
  ASSUME CpAssumption, NEW load \in [Cpu -> Int], NEW F \in SUBSET Cpu, F # {},
         \A i \in F : load[i] \in Nat /\ load[i] < CpIntMax,
         \A i \in Cpu \ F : load[i] = CpIntMax
  PROVE  LeastLoaded(load) \in F /\ \A j \in F : load[LeastLoaded(load)] <= load[j]
<1> DEFINE below == {i \in DOMAIN load : load[i] < CpIntMax}
           least == {i \in below : \A j \in below : load[i] <= load[j]}
<1>1. DOMAIN load = Cpu /\ CpIntMax \in Nat /\ Cpu \subseteq Nat
  BY DEF CpAssumption, Cpu
<1>2. below = F
  <2>1. \A i \in F : i \in DOMAIN load /\ load[i] < CpIntMax
    BY <1>1
  <2>2. \A i \in DOMAIN load : i \notin F => ~(load[i] < CpIntMax)
    BY <1>1
  <2> QED
    BY <2>1, <2>2
<1>3. least # {} /\ least \in SUBSET Nat
  <2> DEFINE V == {load[i] : i \in F}
  <2>1. V \in SUBSET Nat /\ V # {}
    OBVIOUS
  <2> HIDE DEF V
  <2>2. PICK v \in V : \A w \in V : v <= w
    BY <2>1, LeastNumber
  <2>3. PICK i \in F : load[i] = v
    BY <2>2 DEF V
  <2>4. \A j \in F : load[i] <= load[j]
    BY <2>2, <2>3 DEF V
  <2>5. least \in SUBSET Nat
    BY <1>1, <1>2
  <2> QED
    BY <1>2, <2>3, <2>4, <2>5
<1> HIDE DEF least
<1>4. PICK n \in least : \A i \in least : n <= i
  BY <1>3, LeastNumber
<1>5. Min(least) \in least
  BY <1>4 DEF Min
<1>6. LeastLoaded(load) = Min(least)
  BY <1>2 DEF LeastLoaded, least
<1> QED
  BY <1>2, <1>5, <1>6 DEF least

\* One more thread is bound.
LEMMA BindStep ==
  ASSUME CpAssumption, NEW load, NEW s \in Seq(Int), Len(s) <= CpMaxWorker, Spread(load, s)
  PROVE  /\ LeastLoaded(load) \in Int
         /\ Spread([load EXCEPT ![LeastLoaded(load)] = Increment(@)], Append(s, LeastLoaded(load)))
<1>1. /\ CpCount \in Nat \ {0} /\ CpMaxWorker \in Nat /\ CpIntMax \in Nat /\ CpIntMax > CpMaxWorker + 1
      /\ load \in [Cpu -> Int] /\ 1 \in Cpu /\ Cpu \subseteq Int /\ Len(s) \in Nat
  BY DEF CpAssumption, Spread, Cpu
<1> DEFINE x == LeastLoaded(load)
           g == [load EXCEPT ![x] = Increment(@)]
           t == Append(s, x)
<1>2. CASE Free = {}
  <2>1. /\ load[1] = IF Len(s) = 0 THEN CpIntMax ELSE Len(s) - CpIntMax - 2
        /\ \A i \in Cpu \ {1} : load[i] = CpIntMax
        /\ \A j \in 1..Len(s) : s[j] = 1
    BY <1>2 DEF Spread
  <2>2. x = 1
    <3>1. CASE Len(s) = 0
      <4>1. {i \in DOMAIN load : load[i] < CpIntMax} = {}
        BY <1>1, <2>1, <3>1
      <4> QED
        BY <4>1 DEF LeastLoaded
    <3>2. CASE Len(s) # 0
      <4>1. {i \in DOMAIN load : load[i] < CpIntMax} = {1}
        <5>1. DOMAIN load = Cpu /\ 1 \in Cpu
          BY <1>1
        <5>2. \A i \in Cpu \ {1} : ~(load[i] < CpIntMax)
          BY <1>1, <2>1
        <5>3. load[1] < CpIntMax
          BY <1>1, <2>1, <3>2
        <5> QED
          BY <5>1, <5>2, <5>3
      <4>2. {i \in {1} : \A j \in {1} : load[i] <= load[j]} = {1}
        BY <1>1
      <4>3. Min({1}) = 1
        <5>1. \A v \in {1} : 1 <= v
          OBVIOUS
        <5> QED
          BY <5>1 DEF Min
      <4> QED
        BY <4>1, <4>2, <4>3 DEF LeastLoaded
    <3> QED
      BY <3>1, <3>2
  <2>3. /\ g \in [Cpu -> Int] /\ g[1] = Increment(load[1]) /\ \A i \in Cpu \ {1} : g[i] = load[i]
    <3>1. Increment(load[1]) \in Int
      BY <1>1 DEF Increment
    <3> QED
      BY <1>1, <2>2, <3>1
  <2>4. Len(t) = Len(s) + 1 /\ \A j \in 1..(Len(s) + 1) : t[j] = 1
    BY <1>1, <2>1, <2>2, AppendProperties
  <2>5. g[1] = Len(t) - CpIntMax - 2 /\ Len(t) # 0
    BY <1>1, <2>1, <2>3, <2>4 DEF Increment
  <2> HIDE DEF g, t
  <2>6. Spread(g, t)
    BY <1>2, <2>1, <2>3, <2>4, <2>5 DEF Spread
  <2> QED
    BY <2>2, <2>6 DEF g, t
<1>3. CASE Free # {}
  <2>1. /\ \A i \in Free : load[i] = Bound(s, i)
        /\ \A i \in Cpu \ Free : load[i] = CpIntMax
        /\ \A i, j \in Free : Bound(s, i) <= Bound(s, j) + 1
        /\ \A j \in 1..Len(s) : s[j] \in Free
    BY <1>3 DEF Spread
  <2>2. Free \in SUBSET Cpu /\ \A i \in Free : i \in Int /\ i \in Cpu
    BY <1>1 DEF Free
  <2>3. \A i \in Free : Bound(s, i) \in Nat /\ Bound(s, i) <= Len(s)
    BY <2>2, BoundAppend
  <2>4. \A i \in Free : load[i] \in Nat /\ load[i] < CpIntMax
    BY <1>1, <2>1, <2>3
  <2>5. x \in Free /\ \A j \in Free : load[x] <= load[j]
    BY <1>1, <1>3, <2>1, <2>2, <2>4, LeastFound
  <2> HIDE DEF x
  <2>6. /\ g \in [Cpu -> Int] /\ g[x] = load[x] + 1 /\ \A i \in Cpu : i # x => g[i] = load[i]
    <3>1. Increment(load[x]) = load[x] + 1 /\ load[x] + 1 \in Int
      BY <1>1, <2>4, <2>5 DEF Increment
    <3> QED
      BY <1>1, <2>2, <2>5, <3>1
  <2>7. Len(t) = Len(s) + 1 /\ \A j \in 1..(Len(s) + 1) : t[j] \in Free
    BY <1>1, <2>1, <2>2, <2>5, AppendProperties
  <2>8. \A i \in Free : Bound(t, i) = IF x = i THEN Bound(s, i) + 1 ELSE Bound(s, i)
    BY <2>2, <2>5, BoundAppend
  <2> HIDE DEF g, t
  <2>9. \A i \in Free : g[i] = Bound(t, i)
    BY <2>1, <2>2, <2>5, <2>6, <2>8
  <2>10. \A i \in Cpu \ Free : g[i] = CpIntMax
    BY <2>1, <2>5, <2>6
  <2>11. ASSUME NEW i \in Free, NEW j \in Free PROVE Bound(t, i) <= Bound(t, j) + 1
    <3>1. /\ Bound(s, i) \in Nat /\ Bound(s, j) \in Nat /\ Bound(s, i) <= Bound(s, j) + 1
          /\ Bound(t, i) = (IF x = i THEN Bound(s, i) + 1 ELSE Bound(s, i))
          /\ Bound(t, j) = (IF x = j THEN Bound(s, j) + 1 ELSE Bound(s, j))
      BY <2>1, <2>3, <2>8
    <3>2. x = i => Bound(s, i) <= Bound(s, j)
      BY <2>1, <2>5
    <3>3. CASE x = i
      BY <3>1, <3>2, <3>3
    <3>4. CASE x # i
      BY <3>1, <3>4
    <3> QED
      BY <3>3, <3>4
  <2>12. Spread(g, t)
    BY <1>3, <2>6, <2>7, <2>9, <2>10, <2>11 DEF Spread
  <2> QED
    BY <2>2, <2>5, <2>12 DEF g, t, x
<1> QED
  BY <1>2, <1>3

\* A table of processors is not empty.
LEMMA TableThere ==
  ASSUME CpAssumption, NEW load \in [Cpu -> Int]
  PROVE  load # << >>
  BY DEF CpAssumption, Cpu

LEMMA CPStep == ASSUME CPInv, [CPNext]_cpVars, CpAssumption PROVE CPInv'
<1>1. CASE \E bind_cpu \in BOOLEAN : CPInitialize(bind_cpu)
  <2>1. PICK bind_cpu \in BOOLEAN : CPInitialize(bind_cpu)
    BY <1>1
  <2>2. cpPc = "setup" /\ cpPc' = "run" /\ cpDetach' = cpDetach /\ cpBound = << >> /\ cpLoad = [i \in Cpu |-> 0]
        /\ cpDetach \subseteq 1..(CpCount + 1) /\ CpMaxWorker \in Nat
    BY <2>1 DEF CPInitialize, CPInv, CPTypes, CpAssumption
  <2>3. CASE ~bind_cpu
    <3>1. cpLoad' = << >> /\ cpBound' = <<-1>>
      BY <2>1, <2>2, <2>3 DEF CPInitialize, Bind
    <3> QED
      BY <2>2, <3>1 DEF CPInv, CPTypes
  <2>4. CASE bind_cpu
    <3> DEFINE load == [i \in Cpu |-> IF i \in cpDetach THEN CpIntMax ELSE 0]
    <3>1. Bind(load)
      BY <2>1, <2>2, <2>4 DEF CPInitialize
    <3>2. load \in [Cpu -> Int] /\ \A i \in Cpu : load[i] = IF i \in cpDetach THEN CpIntMax ELSE 0
      BY DEF CpAssumption
    <3> HIDE DEF load
    <3>3. Len(<< >>) = 0 /\ 1..0 = {} /\ << >> \in Seq(Int) /\ \A i : Bound(<< >>, i) = 0
      <4>1. \A i : {j \in 1..0 : << >>[j] = i} = {}
        OBVIOUS
      <4> QED
        BY <4>1, FS_EmptySet DEF Bound
    <3>4. Spread(load, << >>)
      <4>1. 1 \in Cpu
        BY DEF CpAssumption, Cpu
      <4> QED
        BY <3>2, <3>3, <4>1 DEF Spread, Free
    <3>5. load # << >>
      BY <3>2, TableThere
    <3>6. cpLoad' = [load EXCEPT ![LeastLoaded(load)] = Increment(@)]
          /\ cpBound' = Append(<< >>, LeastLoaded(load))
      BY <2>2, <3>1, <3>5 DEF Bind
    <3>7. LeastLoaded(load) \in Int /\ Spread(cpLoad', cpBound')
      <4>1. Len(<< >>) <= CpMaxWorker
        BY <2>2, <3>3
      <4> QED
        BY <3>3, <3>4, <3>6, <4>1, BindStep
    <3>8. cpBound' \in Seq(Int) /\ Len(cpBound') = 1
      BY <3>3, <3>6, <3>7, AppendProperties
    <3> QED
      BY <2>2, <3>7, <3>8 DEF CPInv, CPTypes, Spread, Free
  <2> QED
    BY <2>3, <2>4
<1>2. CASE AddWorker
  <2>1. /\ cpPc = "run" /\ Len(cpBound) <= CpMaxWorker /\ Bind(cpLoad) /\ UNCHANGED <<cpDetach, cpPc>>
        /\ CPTypes /\ (cpLoad = << >> \/ Spread(cpLoad, cpBound)) /\ cpBound \in Seq(Int) /\ Len(cpBound) \in Nat
        /\ CpMaxWorker \in Nat
    BY <1>2 DEF AddWorker, CPInv, CPTypes, CpAssumption
  <2>2. CASE cpLoad = << >>
    <3>1. cpLoad' = << >> /\ cpBound' = Append(cpBound, -1)
      BY <2>1, <2>2 DEF Bind
    <3>2. cpBound' \in Seq(Int) /\ Len(cpBound') = Len(cpBound) + 1
      BY <2>1, <3>1, AppendProperties
    <3> QED
      BY <2>1, <3>1, <3>2 DEF CPInv, CPTypes
  <2>3. CASE cpLoad # << >>
    <3>1. /\ cpLoad' = [cpLoad EXCEPT ![LeastLoaded(cpLoad)] = Increment(@)]
          /\ cpBound' = Append(cpBound, LeastLoaded(cpLoad))
      BY <2>1, <2>3 DEF Bind
    <3>2. LeastLoaded(cpLoad) \in Int /\ Spread(cpLoad', cpBound')
      BY <2>1, <2>3, <3>1, BindStep
    <3>3. cpBound' \in Seq(Int) /\ Len(cpBound') = Len(cpBound) + 1
      BY <2>1, <3>1, <3>2, AppendProperties
    <3> QED
      <4>1. CPTypes'
        BY <2>1, <3>2, <3>3 DEF CPTypes, Spread
      <4>2. cpPc' = "run"
        BY <2>1
      <4>3. Spread(cpLoad, cpBound)'
        BY <2>1, <3>2 DEF Spread, Free
      <4> QED
        BY <3>2, <4>1, <4>2, <4>3 DEF CPInv
  <2> QED
    BY <2>2, <2>3
<1>3. CASE UNCHANGED cpVars
  BY <1>3 DEF cpVars, CPInv, CPTypes, Spread, Free
<1> QED
  BY <1>1, <1>2, <1>3 DEF CPNext

\* For any number of processors and any that are detached, and as many calls of
\* AddWorker() as an int32_t counts: no processor that is free has two threads
\* more than another, none that is detached has any, and when all are, the
\* overflow of the first counter sends every thread there.
THEOREM ThreadsBalanced == CPInit /\ [][CPNext]_cpVars => []CPBalanced
<1>1. CPInit => CPInv
  <2>1. SUFFICES ASSUME CPInit PROVE CPInv
    OBVIOUS
  <2>2. cpBound \in Seq(Int) /\ Len(cpBound) = 0 /\ 0 <= CpMaxWorker + 1
    BY <2>1, CpAssumption DEF CPInit, CpAssumption
  <2> QED
    BY <2>1, <2>2 DEF CPInit, CPInv, CPTypes, Cpu
<1>2. CPInv /\ [CPNext]_cpVars => CPInv'
  BY CPStep, CpAssumption
<1>3. CPInv => CPBalanced
  <2>1. SUFFICES ASSUME CPInv, cpPc = "run", cpLoad # << >>
                 PROVE  IF Free = {} THEN On(1) = Len(cpBound)
                        ELSE /\ \A i, j \in Free : On(i) <= On(j) + 1
                             /\ \A i \in cpDetach : On(i) = 0
    BY DEF CPBalanced, Free, Cpu
  <2>2. PICK n \in Nat : n = Len(cpBound) /\ DOMAIN cpBound = 1..n
    BY <2>1 DEF CPInv, CPTypes
  <2>3. \A i : On(i) = Bound(cpBound, i)
    BY <2>2 DEF On, Bound
  <2>4. Spread(cpLoad, cpBound)
    BY <2>1 DEF CPInv
  <2>5. CASE Free = {}
    <3>1. {j \in 1..n : cpBound[j] = 1} = 1..n
      BY <2>2, <2>4, <2>5 DEF Spread
    <3>2. Cardinality(1..n) = n
      BY FS_Interval
    <3> QED
      BY <2>2, <2>3, <2>5, <3>1, <3>2 DEF Bound
  <2>6. CASE Free # {}
    <3>1. ASSUME NEW i \in cpDetach PROVE On(i) = 0
      <4>1. {j \in 1..n : cpBound[j] = i} = {}
        BY <2>2, <2>4, <2>6, <3>1 DEF Spread, Free
      <4> QED
        BY <2>2, <2>3, <4>1, FS_EmptySet DEF Bound
    <3> QED
      BY <2>3, <2>4, <2>6, <3>1 DEF Spread
  <2> QED
    BY <2>5, <2>6
<1> QED
  BY <1>1, <1>2, <1>3, PTL

------------------------------------------------------------------------------
(* The timers of a worker, for any number of them, any periods and clock.  *)

Slot == [key : Nat, val : Timer]

\* slots_ is in order, each timer once.
Ordered(s) == \A i, j \in 1..Len(s) : i < j => s[i].key <= s[j].key /\ s[i].val # s[j].val

\* A timer of slots_ is due a period after it last ran, except for the one
\* whose Process() runs.  One that is not in slots_ has not run.
Apart(t, k) == last[t] # Never => k >= last[t] + period[t]
Since ==
  /\ tmPc = "process" /\ valid => last[cur] = now
  /\ \A i \in 1..Len(slots) : Apart(slots[i].val, slots[i].key) \/ (tmPc = "process" /\ valid /\ i = 1)
  /\ \A t \in Timer : ~Has(slots, t) => last[t] = Never

\* The inductive invariant.
TimersInv == SlotsInv /\ Since

\* In a list that is in order there is a place for every key.
LEMMA BoundThere ==
  ASSUME NEW s \in Seq(Slot), Ordered(s), NEW k \in Nat
  PROVE  LET p == UpperBound(s, k) IN
         /\ p \in 0..Len(s)
         /\ \A i \in 1..p : s[i].key <= k
         /\ \A i \in (p + 1)..Len(s) : s[i].key > k
<1>1. Len(s) \in Nat /\ \A i \in 1..Len(s) : s[i] \in Slot /\ s[i].key \in Nat
  <2>1. \A e \in Slot : e.key \in Nat
    BY DEF Slot
  <2> QED
    BY <2>1
<1> DEFINE T == {i \in 1..Len(s) : s[i].key > k}
<1>2. \E p \in 0..Len(s) : /\ \A i \in 1..p : s[i].key <= k
                           /\ \A i \in (p + 1)..Len(s) : s[i].key > k
  <2>1. CASE T = {}
    <3>1. \A i \in 1..Len(s) : s[i].key <= k
      BY <1>1, <2>1
    <3>2. (Len(s) + 1)..Len(s) = {} /\ Len(s) \in 0..Len(s)
      BY <1>1
    <3> QED
      BY <3>1, <3>2
  <2>2. CASE T # {}
    <3>1. PICK n \in T : \A i \in T : n <= i
      <4>1. T \in SUBSET Nat
        BY <1>1
      <4> QED
        BY <2>2, <4>1, LeastNumber
    <3>2. n \in 1..Len(s) /\ s[n].key > k /\ n - 1 \in 0..Len(s) /\ (n - 1) + 1 = n
      BY <1>1, <3>1
    <3>3. \A i \in 1..(n - 1) : s[i].key <= k
      BY <1>1, <3>1, <3>2
    <3>4. \A i \in n..Len(s) : s[i].key > k
      <4>1. ASSUME NEW i \in n..Len(s) PROVE s[i].key > k
        <5>1. i \in 1..Len(s) /\ s[n].key <= s[i].key
          BY <1>1, <3>2 DEF Ordered
        <5> QED
          BY <1>1, <3>2, <5>1
      <4> QED
        BY <4>1
    <3> QED
      BY <3>2, <3>3, <3>4
  <2> QED
    BY <2>1, <2>2
<1> QED
  BY <1>2 DEF UpperBound

\* What is true after an entry of k and t was inserted.
Inserted(s, k, t, r) ==
  /\ r \in Seq(Slot) /\ Ordered(r) /\ Len(r) = Len(s) + 1
  /\ \A j \in 1..Len(r) : (r[j].key = k /\ r[j].val = t) \/ \E i \in 1..Len(s) : r[j] = s[i] /\ (j = 1 => i = 1)
  /\ \A x \in Timer : Has(r, x) <=> x = t \/ Has(s, x)
  /\ s # <<>> /\ s[1].key <= k => r # <<>> /\ r[1] = s[1]

\* slots_.insert
LEMMA InsertEffect ==
  ASSUME NEW s \in Seq(Slot), Ordered(s), NEW k \in Nat, NEW t \in Timer, ~Has(s, t)
  PROVE  Inserted(s, k, t, Insert(s, k, t))
<1>1. PICK n \in Nat : n = Len(s)
  OBVIOUS
<1>2. PICK p \in 0..n : /\ p = UpperBound(s, k)
                        /\ \A i \in 1..p : s[i].key <= k
                        /\ \A i \in (p + 1)..n : s[i].key > k
  BY <1>1, BoundThere
<1>3. PICK e \in Slot : e = Entry(k, t) /\ e.key = k /\ e.val = t
  <2>1. Entry(k, t) = [key |-> k, val |-> t]
    BY DEF Entry
  <2>2. [key |-> k, val |-> t] \in Slot /\ [key |-> k, val |-> t].key = k /\ [key |-> k, val |-> t].val = t
    BY DEF Slot
  <2> QED
    BY <2>1, <2>2
<1> DEFINE r == Insert(s, k, t)
<1>4. r = [j \in 1..(n + 1) |-> IF j <= p THEN s[j] ELSE IF j = p + 1 THEN e ELSE s[j - 1]]
  BY <1>1, <1>2, <1>3 DEF Insert
<1>5. \A i \in 1..n : s[i] \in Slot /\ s[i].key \in Nat /\ s[i].val \in Timer /\ s[i].val # t
  <2>1. \A i \in 1..n : s[i] \in Slot
    BY <1>1
  <2>2. \A e1 \in Slot : e1.key \in Nat /\ e1.val \in Timer
    BY DEF Slot
  <2>3. \A i \in 1..n : s[i].val # t
    BY <1>1 DEF Has
  <2> QED
    BY <2>1, <2>2, <2>3
<1>6. /\ r \in Seq(Slot) /\ Len(r) = n + 1
      /\ \A j \in 1..p : r[j] = s[j]
      /\ r[p + 1] = e
      /\ \A j \in (p + 2)..(n + 1) : r[j] = s[j - 1]
  <2>1. \A j \in 1..(n + 1) : (IF j <= p THEN s[j] ELSE IF j = p + 1 THEN e ELSE s[j - 1]) \in Slot
    <3>1. ASSUME NEW j \in 1..(n + 1), ~(j <= p), j # p + 1 PROVE s[j - 1] \in Slot
      <4>1. j - 1 \in 1..n
        BY <1>2, <3>1
      <4> QED
        BY <1>5, <4>1
    <3>2. ASSUME NEW j \in 1..(n + 1), j <= p PROVE s[j] \in Slot
      <4>1. j \in 1..n
        BY <1>2, <3>2
      <4> QED
        BY <1>5, <4>1
    <3> QED
      BY <1>3, <3>1, <3>2
  <2> QED
    BY <1>2, <1>4, <2>1
<1> HIDE DEF r
<1>7. ASSUME NEW j \in 1..(n + 1), j # p + 1
      PROVE  \E i \in 1..n : r[j] = s[i] /\ i = (IF j <= p THEN j ELSE j - 1)
  <2>1. CASE j <= p
    BY <1>2, <1>6, <2>1
  <2>2. CASE ~(j <= p)
    <3>1. j \in (p + 2)..(n + 1) /\ j - 1 \in 1..n
      BY <1>2, <1>7, <2>2
    <3> QED
      BY <1>6, <2>2, <3>1
  <2> QED
    BY <2>1, <2>2
<1>8. Ordered(r)
  <2>1. ASSUME NEW i \in 1..(n + 1), NEW j \in 1..(n + 1), i < j
        PROVE  r[i].key <= r[j].key /\ r[i].val # r[j].val
    <3>1. CASE i = p + 1
      <4>1. PICK b \in 1..n : r[j] = s[b] /\ b = j - 1
        <5>1. j # p + 1 /\ ~(j <= p)
          BY <1>2, <2>1, <3>1
        <5> QED
          BY <1>7, <5>1
      <4>2. b \in (p + 1)..n
        BY <1>2, <2>1, <3>1, <4>1
      <4> QED
        BY <1>2, <1>3, <1>5, <1>6, <3>1, <4>1, <4>2
    <3>2. CASE j = p + 1
      <4>1. PICK a \in 1..n : r[i] = s[a] /\ a = i
        BY <1>2, <1>7, <2>1, <3>2
      <4>2. a \in 1..p
        BY <1>2, <2>1, <3>2, <4>1
      <4> QED
        BY <1>2, <1>3, <1>5, <1>6, <3>2, <4>1, <4>2
    <3>3. CASE i # p + 1 /\ j # p + 1
      <4>1. PICK a \in 1..n : r[i] = s[a] /\ a = (IF i <= p THEN i ELSE i - 1)
        BY <1>7, <3>3
      <4>2. PICK b \in 1..n : r[j] = s[b] /\ b = (IF j <= p THEN j ELSE j - 1)
        BY <1>7, <3>3
      <4>3. a < b
        BY <1>2, <2>1, <3>3, <4>1, <4>2
      <4> QED
        BY <1>1, <4>1, <4>2, <4>3 DEF Ordered
    <3> QED
      BY <3>1, <3>2, <3>3
  <2> QED
    BY <1>6, <2>1 DEF Ordered
<1>9. ASSUME NEW j \in 1..(n + 1)
      PROVE  (r[j].key = k /\ r[j].val = t) \/ \E i \in 1..n : r[j] = s[i] /\ (j = 1 => i = 1)
  <2>1. CASE j = p + 1
    BY <1>3, <1>6, <2>1
  <2>2. CASE j # p + 1
    <3>1. PICK i \in 1..n : r[j] = s[i] /\ i = (IF j <= p THEN j ELSE j - 1)
      BY <1>7, <2>2
    <3>2. j = 1 => i = 1
      BY <1>2, <2>2, <3>1
    <3> QED
      BY <3>1, <3>2
  <2> QED
    BY <2>1, <2>2
<1>10. ASSUME NEW x \in Timer PROVE Has(r, x) <=> x = t \/ Has(s, x)
  <2>1. ASSUME Has(r, x) PROVE x = t \/ Has(s, x)
    <3>1. PICK j \in 1..(n + 1) : r[j].val = x
      BY <1>6, <2>1 DEF Has
    <3> QED
      BY <1>1, <1>9, <3>1 DEF Has
  <2>2. ASSUME x = t PROVE Has(r, x)
    <3>1. p + 1 \in 1..(n + 1)
      BY <1>2
    <3> QED
      BY <1>3, <1>6, <2>2, <3>1 DEF Has
  <2>3. ASSUME Has(s, x) PROVE Has(r, x)
    <3>1. PICK i \in 1..n : s[i].val = x
      BY <1>1, <2>3 DEF Has
    <3>2. CASE i <= p
      <4>1. i \in 1..(n + 1) /\ r[i] = s[i]
        BY <1>2, <1>6, <3>2
      <4> QED
        BY <1>6, <3>1, <4>1 DEF Has
    <3>3. CASE ~(i <= p)
      <4>1. i + 1 \in (p + 2)..(n + 1) /\ i + 1 \in 1..(n + 1) /\ (i + 1) - 1 = i
        BY <1>2, <3>3
      <4> QED
        BY <1>6, <3>1, <4>1 DEF Has
    <3> QED
      BY <3>2, <3>3
  <2> QED
    BY <2>1, <2>2, <2>3
<1>11. s # <<>> /\ s[1].key <= k => r # <<>> /\ r[1] = s[1]
  <2>1. SUFFICES ASSUME s # <<>>, s[1].key <= k PROVE r # <<>> /\ r[1] = s[1]
    OBVIOUS
  <2>2. 1 \in 1..n
    BY <1>1, <2>1
  <2>3. p # 0
    BY <1>2, <1>5, <2>1, <2>2
  <2>4. r # <<>>
    BY <1>6, EmptySeq
  <2> QED
    BY <1>2, <1>6, <2>3, <2>4
<1>12. Inserted(s, k, t, r)
  BY <1>1, <1>6, <1>8, <1>9, <1>10, <1>11 DEF Inserted
<1> QED
  BY <1>12 DEF r

\* What is true after the k-th entry was erased.
Erased(s, k, r) ==
  /\ r \in Seq(Slot) /\ Ordered(r) /\ Len(r) = Len(s) - 1
  /\ \A j \in 1..Len(r) : \E i \in 1..Len(s) : r[j] = s[i] /\ i # k /\ (k # 1 => (j = 1 <=> i = 1))
  /\ \A x \in Timer : Has(r, x) <=> x # s[k].val /\ Has(s, x)
  /\ k # 1 => r # <<>> /\ r[1] = s[1]

\* slots_.erase
LEMMA EraseEffect ==
  ASSUME NEW s \in Seq(Slot), Ordered(s), NEW k \in 1..Len(s)
  PROVE  Erased(s, k, Erase(s, k))
<1>1. PICK n \in Nat : n = Len(s) /\ k \in 1..n
  OBVIOUS
<1> DEFINE r == Erase(s, k)
<1>2. \A i \in 1..n : s[i] \in Slot
  BY <1>1
<1>3. /\ r \in Seq(Slot) /\ Len(r) = n - 1
      /\ \A j \in 1..(n - 1) : r[j] = IF j < k THEN s[j] ELSE s[j + 1]
  <2>1. \A j \in 1..(n - 1) : (IF j < k THEN s[j] ELSE s[j + 1]) \in Slot
    BY <1>1, <1>2
  <2> QED
    BY <1>1, <2>1 DEF Erase
<1> HIDE DEF r
<1>4. ASSUME NEW j \in 1..(n - 1)
      PROVE  \E i \in 1..n : r[j] = s[i] /\ i # k /\ i = IF j < k THEN j ELSE j + 1
  BY <1>1, <1>3
<1>5. \A i, j \in 1..n : i # j => s[i].val # s[j].val
  BY <1>1 DEF Ordered
<1>6. Ordered(r)
  <2>1. ASSUME NEW i \in 1..(n - 1), NEW j \in 1..(n - 1), i < j
        PROVE  r[i].key <= r[j].key /\ r[i].val # r[j].val
    <3>1. PICK a \in 1..n : r[i] = s[a] /\ a = IF i < k THEN i ELSE i + 1
      BY <1>4
    <3>2. PICK b \in 1..n : r[j] = s[b] /\ b = IF j < k THEN j ELSE j + 1
      BY <1>4
    <3>3. a < b
      BY <1>1, <2>1, <3>1, <3>2
    <3> QED
      BY <1>1, <3>1, <3>2, <3>3 DEF Ordered
  <2> QED
    BY <1>3, <2>1 DEF Ordered
<1>7. ASSUME NEW x \in Timer PROVE Has(r, x) <=> x # s[k].val /\ Has(s, x)
  <2>1. ASSUME Has(r, x) PROVE x # s[k].val /\ Has(s, x)
    <3>1. PICK j \in 1..(n - 1) : r[j].val = x
      BY <1>3, <2>1 DEF Has
    <3>2. PICK i \in 1..n : r[j] = s[i] /\ i # k
      BY <1>4
    <3> QED
      BY <1>1, <1>5, <3>1, <3>2 DEF Has
  <2>2. ASSUME x # s[k].val, Has(s, x) PROVE Has(r, x)
    <3>1. PICK i \in 1..n : s[i].val = x /\ i # k
      BY <1>1, <2>2 DEF Has
    <3>2. CASE i < k
      <4>1. i \in 1..(n - 1) /\ r[i] = s[i]
        BY <1>1, <1>3, <3>2
      <4> QED
        BY <1>3, <3>1, <4>1 DEF Has
    <3>3. CASE ~(i < k)
      <4>1. i - 1 \in 1..(n - 1) /\ ~(i - 1 < k) /\ (i - 1) + 1 = i
        BY <1>1, <3>1, <3>3
      <4> QED
        BY <1>3, <3>1, <4>1 DEF Has
    <3> QED
      BY <3>2, <3>3
  <2> QED
    BY <2>1, <2>2
<1>8. k # 1 => r # <<>> /\ r[1] = s[1]
  <2>1. SUFFICES ASSUME k # 1 PROVE r # <<>> /\ r[1] = s[1]
    OBVIOUS
  <2>2. 1 \in 1..(n - 1) /\ 1 < k
    BY <1>1, <2>1
  <2> QED
    BY <1>3, <2>2, EmptySeq
<1>9. ASSUME NEW j \in 1..(n - 1) PROVE \E i \in 1..n : r[j] = s[i] /\ i # k /\ (k # 1 => (j = 1 <=> i = 1))
  <2>1. PICK i \in 1..n : r[j] = s[i] /\ i # k /\ i = IF j < k THEN j ELSE j + 1
    BY <1>4
  <2>2. k # 1 => (j = 1 <=> i = 1)
    BY <1>1, <2>1
  <2> QED
    BY <2>1, <2>2
<1>10. Erased(s, k, r)
  BY <1>1, <1>3, <1>6, <1>7, <1>8, <1>9 DEF Erased
<1> QED
  BY <1>10 DEF r

\* The first entry is taken out by its iterator.
LEMMA TailEffect ==
  ASSUME NEW s \in Seq(Slot), Ordered(s), s # <<>>
  PROVE  Erased(s, 1, Tail(s))
<1>1. 1 \in 1..Len(s) /\ Len(s) \in Nat
  OBVIOUS
<1>2. Tail(s) \in Seq(Slot) /\ Len(Tail(s)) = Len(s) - 1 /\ \A j \in 1..(Len(s) - 1) : Tail(s)[j] = s[j + 1]
  BY HeadTailProperties
<1>3. Erase(s, 1) = [j \in 1..(Len(s) - 1) |-> s[j + 1]]
  BY <1>1 DEF Erase
<1>4. Tail(s) = Erase(s, 1)
  BY <1>1, <1>2, <1>3
<1> QED
  BY <1>1, <1>4, EraseEffect

\* What the invariant says, with the names of this module.
LEMMA TimersUnfold ==
  ASSUME TimersInv
  PROVE  /\ slots \in Seq(Slot) /\ Ordered(slots) /\ Since /\ Len(slots) \in Nat
         /\ clock \in 0..MaxClock /\ now \in 0..clock /\ now \in Nat /\ clock \in Nat
         /\ tmPc \in {"wait", "loop", "process"} /\ cur \in Timer /\ valid \in BOOLEAN /\ eintr \in BOOLEAN
         /\ wait \in (1..MaxWait) \cup {Forever}
         /\ last \in [Timer -> 0..(MaxClock + 1)] /\ Never = MaxClock + 1
         /\ \A t \in Timer : period[t] \in Nat \ {0}
         /\ \A i \in 1..Len(slots) : slots[i] \in Slot /\ slots[i].key \in Nat /\ slots[i].val \in Timer
         /\ tmPc = "process" /\ valid => slots # <<>> /\ slots[1].val = cur /\ slots[1].key <= now
<1>1. /\ slots \in Seq(Slot) /\ clock \in 0..MaxClock /\ now \in 0..clock
      /\ tmPc \in {"wait", "loop", "process"} /\ cur \in Timer /\ valid \in BOOLEAN /\ eintr \in BOOLEAN
      /\ wait \in (1..MaxWait) \cup {Forever} /\ last \in [Timer -> 0..Never]
  BY DEF TimersInv, SlotsInv, TMTypeOK, Slot
<1>2. Never = MaxClock + 1
  BY DEF Never
<1>3. Ordered(slots) /\ Since /\ (tmPc = "process" /\ valid => slots # <<>> /\ slots[1].val = cur /\ slots[1].key <= now)
  BY DEF TimersInv, SlotsInv, SlotsOK, Ordered
<1>4. \A e \in Slot : e.key \in Nat /\ e.val \in Timer
  BY DEF Slot
<1>5. Len(slots) \in Nat /\ \A i \in 1..Len(slots) : slots[i] \in Slot /\ slots[i].key \in Nat /\ slots[i].val \in Timer
  BY <1>1, <1>4
<1>6. \A t \in Timer : period[t] \in Nat \ {0}
  BY TimerAssumption
<1>7. now \in Nat /\ clock \in Nat
  BY <1>1
<1> QED
  BY <1>1, <1>2, <1>3, <1>5, <1>6, <1>7

\* And back.
LEMMA TimersFold ==
  ASSUME slots' \in Seq(Slot), Ordered(slots'), Since',
         (clock \in 0..MaxClock /\ now \in 0..clock)',
         (tmPc \in {"wait", "loop", "process"} /\ cur \in Timer /\ valid \in BOOLEAN /\ eintr \in BOOLEAN)',
         (wait \in (1..MaxWait) \cup {Forever} /\ last \in [Timer -> 0..Never])',
         (tmPc = "process" /\ valid => slots # <<>> /\ slots[1].val = cur /\ slots[1].key <= now)'
  PROVE  TimersInv'
<1>1. TMTypeOK'
  BY DEF TMTypeOK, Slot
<1>2. SlotsOK'
  BY DEF SlotsOK, Ordered
<1> QED
  BY <1>1, <1>2 DEF TimersInv, SlotsInv

\* A timer is added, between loops or from Process() of another.
LEMMA AddTimerStep ==
  ASSUME TimersInv, NEW t \in Timer, AddTimerEvent(t)
  PROVE  TimersInv'
<1>1. /\ tmPc \in {"wait", "process"} /\ ~Has(slots, t) /\ (tmPc = "process" => t # cur)
      /\ slots' = Insert(slots, clock, t)
      /\ UNCHANGED <<clock, now, tmPc, cur, valid, eintr, wait, last>>
  BY DEF AddTimerEvent
<1>2. Inserted(slots, clock, t, slots')
  BY <1>1, TimersUnfold, InsertEffect
<1>3. tmPc = "process" /\ valid => slots # <<>> /\ slots[1].key <= clock /\ slots' # <<>> /\ slots'[1] = slots[1]
  <2>1. tmPc = "process" /\ valid => slots # <<>> /\ slots[1].key <= clock
    <3>1. SUFFICES ASSUME tmPc = "process", valid PROVE slots # <<>> /\ slots[1].key <= clock
      OBVIOUS
    <3>2. slots # <<>> /\ slots[1].key <= now /\ now \in 0..clock /\ clock \in Nat
      BY <3>1, TimersUnfold
    <3>3. 1 \in 1..Len(slots) /\ slots[1].key \in Nat
      BY <3>2, TimersUnfold
    <3> QED
      BY <3>2, <3>3
  <2> QED
    BY <1>2, <2>1 DEF Inserted
<1>4. Since'
  <2>1. last[t] = Never
    BY <1>1, TimersUnfold DEF Since
  <2>2. ASSUME NEW j \in 1..Len(slots')
        PROVE  Apart(slots'[j].val, slots'[j].key) \/ (tmPc = "process" /\ valid /\ j = 1)
    <3>1. CASE slots'[j].key = clock /\ slots'[j].val = t
      BY <2>1, <3>1 DEF Apart
    <3>2. ASSUME NEW i \in 1..Len(slots), slots'[j] = slots[i]
          PROVE  Apart(slots'[j].val, slots'[j].key) \/ (tmPc = "process" /\ valid /\ j = 1)
      <4>1. CASE Apart(slots[i].val, slots[i].key)
        BY <3>2, <4>1
      <4>2. CASE tmPc = "process" /\ valid /\ i = 1
        <5>1. slots'[1] = slots[1] /\ 1 \in 1..Len(slots') /\ Ordered(slots') /\ slots' \in Seq(Slot)
          <6>1. slots' # <<>> /\ slots' \in Seq(Slot)
            BY <1>2, <1>3, <4>2 DEF Inserted
          <6> QED
            BY <1>2, <1>3, <4>2, <6>1 DEF Inserted
        <5>2. j = 1
          BY <3>2, <4>2, <5>1 DEF Ordered
        <5> QED
          BY <4>2, <5>2
      <4> QED
        BY <4>1, <4>2, TimersUnfold DEF Since
    <3> QED
      BY <1>2, <3>1, <3>2 DEF Inserted
  <2>3. \A x \in Timer : ~Has(slots', x) => last[x] = Never
    BY <1>2, TimersUnfold DEF Since, Inserted
  <2>4. tmPc = "process" /\ valid => last[cur] = now
    BY TimersUnfold DEF Since
  <2> QED
    BY <1>1, <2>2, <2>3, <2>4 DEF Since, Apart, Has, Never
<1> QED
  BY <1>1, <1>2, <1>3, <1>4, TimersUnfold, TimersFold DEF Inserted, Forever, Never

\* A timer is removed, also from a Process(), which may be its own.
LEMMA RemoveTimerStep ==
  ASSUME TimersInv, NEW t \in Timer, RemoveTimerEvent(t)
  PROVE  TimersInv'
<1>1. /\ tmPc \in {"wait", "process"} /\ Has(slots, t)
      /\ slots' = Erase(slots, EntryOf(slots, t))
      /\ valid' = (valid /\ t # cur) /\ last' = [last EXCEPT ![t] = Never]
      /\ UNCHANGED <<clock, now, tmPc, cur, eintr, wait>>
  BY DEF RemoveTimerEvent
<1>2. PICK k \in 1..Len(slots) : k = EntryOf(slots, t) /\ slots[k].val = t
  <2>1. PICK i \in 1..Len(slots) : slots[i].val = t
    BY <1>1 DEF Has
  <2>2. \A j \in 1..(i - 1) : slots[j].val # t
    BY <2>1, TimersUnfold DEF Ordered
  <2> QED
    BY <2>1, <2>2 DEF EntryOf
<1>3. Erased(slots, k, slots')
  BY <1>1, <1>2, TimersUnfold, EraseEffect
<1>4. /\ last' \in [Timer -> 0..(MaxClock + 1)] /\ last'[t] = Never
      /\ \A x \in Timer : x # t => last'[x] = last[x]
  <2>1. Never \in 0..(MaxClock + 1)
    BY TimersUnfold, TimerAssumption
  <2> QED
    BY <1>1, <2>1, TimersUnfold
<1>5. tmPc = "process" /\ valid' => k # 1 /\ valid /\ slots' # <<>> /\ slots'[1] = slots[1] /\ t # cur
  BY <1>1, <1>2, <1>3, TimersUnfold DEF Erased
<1>6. Since'
  <2>1. ASSUME NEW j \in 1..Len(slots')
        PROVE  \/ last'[slots'[j].val] # Never => slots'[j].key >= last'[slots'[j].val] + period[slots'[j].val]
               \/ tmPc = "process" /\ valid' /\ j = 1
    <3>1. PICK i \in 1..Len(slots) : slots'[j] = slots[i] /\ i # k /\ (k # 1 => (j = 1 <=> i = 1))
      BY <1>3 DEF Erased
    <3>2. slots[i].val \in Timer /\ slots[i].val # t
      <4>1. slots[i].val \in Timer /\ Ordered(slots) /\ (i < k \/ k < i)
        BY <3>1, TimersUnfold
      <4> QED
        BY <1>2, <4>1 DEF Ordered
    <3>3. last'[slots[i].val] = last[slots[i].val]
      BY <1>4, <3>2
    <3>4. CASE Apart(slots[i].val, slots[i].key)
      BY <3>1, <3>3, <3>4 DEF Apart
    <3>5. CASE tmPc = "process" /\ valid /\ i = 1
      <4>1. slots[1].val = cur
        BY <3>5, TimersUnfold
      <4>2. valid'
        BY <1>1, <3>2, <3>5, <4>1
      <4> QED
        BY <1>5, <3>1, <3>5, <4>2
    <3> QED
      BY <3>4, <3>5, TimersUnfold DEF Since
  <2>2. \A x \in Timer : ~Has(slots', x) => last'[x] = Never
    BY <1>2, <1>3, <1>4, TimersUnfold DEF Since, Erased
  <2>3. tmPc = "process" /\ valid' => last'[cur] = now
    BY <1>4, <1>5, TimersUnfold DEF Since
  <2> QED
    BY <1>1, <2>1, <2>2, <2>3 DEF Since, Apart, Has, Never
<1>7. (tmPc = "process" /\ valid => slots # <<>> /\ slots[1].val = cur /\ slots[1].key <= now)'
  BY <1>1, <1>5, TimersUnfold
<1> QED
  BY <1>1, <1>3, <1>4, <1>6, <1>7, TimersUnfold, TimersFold DEF Erased, Forever, Never

\* Time passes, a loop begins or ends.
LEMMA LoopStep ==
  ASSUME TimersInv, Tick \/ TimeElapsed \/ LoopEnd
  PROVE  TimersInv'
<1>1. /\ UNCHANGED <<slots, cur, valid, last>> /\ tmPc' \in {"wait", "loop", "process"} /\ eintr' \in BOOLEAN
      /\ clock' \in 0..MaxClock /\ now' \in 0..clock'
      /\ tmPc' = "process" => tmPc = "process" /\ now' = now
      /\ tmPc = "process" => tmPc' = "process"
  BY TimersUnfold, TimerAssumption DEF Tick, TimeElapsed, LoopEnd
<1>2. wait' \in (1..MaxWait) \cup {Forever}
  <2>1. CASE LoopEnd
    <3>1. CASE ~eintr /\ slots # <<>>
      <4>1. 1 \in 1..Len(slots)
        BY <3>1, TimersUnfold
      <4>2. slots[1].key \in Nat /\ now \in Nat /\ MaxWait \in Nat \ {0}
        BY <4>1, TimersUnfold, TimerAssumption
      <4>3. ~(now >= slots[1].key) /\ wait' = IF slots[1].key - now > MaxWait THEN MaxWait ELSE slots[1].key - now
        BY <2>1, <3>1 DEF LoopEnd, Due
      <4> QED
        BY <4>2, <4>3
    <3>2. CASE ~eintr /\ slots = <<>>
      <4>1. wait' = MaxWait /\ MaxWait \in Nat \ {0}
        BY <2>1, <3>2, TimerAssumption DEF LoopEnd
      <4> QED
        BY <4>1
    <3>3. CASE eintr
      BY <2>1, <3>3 DEF LoopEnd
    <3> QED
      BY <3>1, <3>2, <3>3
  <2>2. CASE Tick \/ TimeElapsed
    BY <2>2, TimersUnfold DEF Tick, TimeElapsed
  <2> QED
    BY <2>1, <2>2
<1>3. Since'
  BY <1>1, TimersUnfold DEF Since, Apart, Has, Never
<1> QED
  BY <1>1, <1>2, <1>3, TimersUnfold, TimersFold DEF Forever, Never

\* Process() of the first timer begins.
LEMMA ProcessTimerStep ==
  ASSUME TimersInv, Process
  PROVE  TimersInv'
<1>1. /\ tmPc = "loop" /\ slots # <<>> /\ now >= slots[1].key /\ cur' = slots[1].val /\ valid' = TRUE
      /\ last' = [last EXCEPT ![slots[1].val] = now] /\ tmPc' = "process"
      /\ UNCHANGED <<slots, clock, now, eintr, wait>>
  BY DEF Process, Due
<1>2. PICK t \in Timer : t = slots[1].val /\ 1 \in 1..Len(slots) /\ slots[1].key \in Nat
  <2>1. 1 \in 1..Len(slots)
    BY <1>1, TimersUnfold
  <2> QED
    BY <2>1, TimersUnfold
<1>3. last' \in [Timer -> 0..(MaxClock + 1)] /\ last'[t] = now /\ \A x \in Timer : x # t => last'[x] = last[x]
  <2>1. now \in 0..(MaxClock + 1)
    BY TimersUnfold, TimerAssumption
  <2> QED
    BY <1>1, <1>2, <2>1, TimersUnfold
<1>4. Since'
  <2>1. ASSUME NEW j \in 1..Len(slots), j # 1
        PROVE  last'[slots[j].val] # Never => slots[j].key >= last'[slots[j].val] + period[slots[j].val]
    <3>1. slots[j].val \in Timer /\ slots[j].val # t
      BY <1>2, <2>1, TimersUnfold DEF Ordered
    <3>2. Apart(slots[j].val, slots[j].key)
      BY <1>1, <2>1, TimersUnfold DEF Since
    <3> QED
      BY <1>3, <3>1, <3>2 DEF Apart
  <2>2. \A x \in Timer : ~Has(slots, x) => x # t /\ last[x] = Never
    BY <1>2, TimersUnfold DEF Since, Has
  <2> QED
    BY <1>1, <1>2, <1>3, <2>1, <2>2 DEF Since, Apart, Has, Never
<1>5. (tmPc = "process" /\ valid => slots # <<>> /\ slots[1].val = cur /\ slots[1].key <= now)'
  <2>1. slots[1].key <= now
    BY <1>1, <1>2, TimersUnfold
  <2> QED
    BY <1>1, <2>1
<1> QED
  BY <1>1, <1>2, <1>3, <1>4, <1>5, TimersUnfold, TimersFold DEF Forever, Never

\* It returned: the timer is inserted again and its old entry erased.
LEMMA ReinsertStep ==
  ASSUME TimersInv, Reinsert
  PROVE  TimersInv'
<1>1. /\ tmPc = "process" /\ valid /\ slots' = Insert(Tail(slots), now + period[cur], cur)
      /\ valid' = FALSE /\ tmPc' = "loop" /\ UNCHANGED <<clock, now, cur, eintr, wait, last>>
  BY DEF Reinsert
<1>2. slots # <<>> /\ slots[1].val = cur /\ cur \in Timer /\ last[cur] = now
  BY <1>1, TimersUnfold DEF Since
<1>3. PICK s \in Seq(Slot) : s = Tail(slots) /\ Erased(slots, 1, s) /\ Ordered(s)
  BY <1>2, TimersUnfold, TailEffect DEF Erased
<1>4. PICK k \in Nat : k = now + period[cur]
  BY <1>2, TimersUnfold
<1>5. ~Has(s, cur)
  BY <1>2, <1>3 DEF Erased
<1>6. Inserted(s, k, cur, slots')
  BY <1>1, <1>2, <1>3, <1>4, <1>5, InsertEffect
<1>7. Since'
  <2>1. ASSUME NEW j \in 1..Len(slots') PROVE Apart(slots'[j].val, slots'[j].key)
    <3>1. CASE slots'[j].key = k /\ slots'[j].val = cur
      <4>1. k >= last[cur] + period[cur]
        BY <1>2, <1>4, TimersUnfold
      <4> QED
        BY <3>1, <4>1 DEF Apart
    <3>2. ASSUME NEW a \in 1..Len(s), slots'[j] = s[a] PROVE Apart(slots'[j].val, slots'[j].key)
      <4>1. PICK i \in 1..Len(slots) : s[a] = slots[i] /\ i # 1
        BY <1>3 DEF Erased
      <4> QED
        BY <3>2, <4>1, TimersUnfold DEF Since
    <3> QED
      BY <1>6, <3>1, <3>2 DEF Inserted
  <2>2. \A x \in Timer : ~Has(slots', x) => last[x] = Never
    BY <1>2, <1>3, <1>6, TimersUnfold DEF Since, Inserted, Erased
  <2> QED
    BY <1>1, <2>1, <2>2 DEF Since, Apart, Has, Never
<1> QED
  BY <1>1, <1>6, <1>7, TimersUnfold, TimersFold DEF Inserted, Forever, Never

\* The invariant of the timers.
LEMMA TimersInvariant ==
  TMSpec => []TimersInv
<1>1. TMInit => TimersInv
  <2>1. SUFFICES ASSUME TMInit PROVE TimersInv
    OBVIOUS
  <2>2. /\ slots = <<>> /\ clock = 0 /\ now = 0 /\ tmPc = "wait" /\ cur \in Timer /\ valid = FALSE
        /\ eintr = FALSE /\ wait = MaxWait /\ last = [t \in Timer |-> Never]
    BY <2>1 DEF TMInit
  <2>3. Len(slots) = 0 /\ 1..0 = {} /\ slots \in Seq(Slot)
    BY <2>2
  <2>4. TMTypeOK
    <3>1. Never \in 0..Never /\ MaxWait \in 1..MaxWait
      BY TimerAssumption DEF Never
    <3>2. slots \in Seq([key : Nat, val : Timer]) /\ clock \in 0..MaxClock /\ now \in 0..clock
      BY <2>2, <2>3, TimerAssumption DEF Slot
    <3>3. last \in [Timer -> 0..Never]
      BY <2>2, <3>1
    <3> QED
      BY <2>2, <3>1, <3>2, <3>3 DEF TMTypeOK
  <2>5. SlotsOK /\ Since
    BY <2>2, <2>3 DEF SlotsOK, Since
  <2> QED
    BY <2>4, <2>5 DEF TimersInv, SlotsInv
<1>2. TimersInv /\ [TMNext]_tmVars => TimersInv'
  <2>1. SUFFICES ASSUME TimersInv, [TMNext]_tmVars PROVE TimersInv'
    OBVIOUS
  <2>2. CASE TMNext
    BY <2>1, <2>2, AddTimerStep, RemoveTimerStep, LoopStep, ProcessTimerStep, ReinsertStep DEF TMNext
  <2>3. CASE UNCHANGED tmVars
    <3>1. UNCHANGED <<slots, clock, now, tmPc, cur, valid, eintr, wait, last>>
      BY <2>3 DEF tmVars
    <3>2. Since'
      BY <3>1, <2>1 DEF TimersInv, Since, Apart, Has, Never
    <3> QED
      BY <2>1, <3>1, <3>2, TimersUnfold, TimersFold DEF Forever, Never
  <2> QED
    BY <2>1, <2>2, <2>3
<1> QED
  BY <1>1, <1>2, PTL DEF TMSpec

\* For any number of timers and any periods, slots_ is in order and holds every
\* timer once, and the entry whose Process() runs stays the first, whatever
\* AddTimerEvent and RemoveTimerEvent do from inside it.
THEOREM SlotsCorrect ==
  TMSpec => []SlotsInv
<1>1. TimersInv => SlotsInv
  BY DEF TimersInv
<1> QED
  BY <1>1, TimersInvariant, PTL

\* When TimeElapsedProcess returns nothing that was due is left and Pulse waits
\* at most until the next timer, and never 0 ms, if no signal came.
THEOREM NeverLate ==
  TMSpec => NotLate
<1>1. ASSUME TimersInv, LoopEnd, ~eintr
      PROVE  wait' > 0 /\ \A i \in 1..Len(slots) : slots[i].key >= now + wait'
  <2>1. MaxWait \in Nat \ {0} /\ now \in Nat
    BY <1>1, TimersUnfold, TimerAssumption
  <2>2. CASE slots = <<>>
    <3>1. wait' = MaxWait /\ Len(slots) = 0 /\ 1..0 = {}
      BY <1>1, <2>2 DEF LoopEnd
    <3> QED
      BY <2>1, <3>1
  <2>3. CASE slots # <<>>
    <3>1. 1 \in 1..Len(slots)
      BY <1>1, <2>3, TimersUnfold
    <3>2. slots[1].key \in Nat
      BY <1>1, <3>1, TimersUnfold
    <3>3. ~(now >= slots[1].key) /\ wait' = IF slots[1].key - now > MaxWait THEN MaxWait ELSE slots[1].key - now
      BY <1>1, <2>3 DEF LoopEnd, Due
    <3>4. wait' > 0 /\ wait' \in Nat /\ slots[1].key >= now + wait'
      BY <2>1, <3>2, <3>3
    <3>5. ASSUME NEW i \in 1..Len(slots) PROVE slots[i].key >= now + wait'
      <4>1. slots[i].key \in Nat /\ slots[1].key <= slots[i].key
        BY <1>1, <3>1, <3>2, TimersUnfold DEF Ordered
      <4> QED
        BY <2>1, <3>2, <3>4, <4>1
    <3> QED
      BY <3>4, <3>5
  <2> QED
    BY <2>2, <2>3
<1>2. TimersInv /\ [TMNext]_tmVars
        => [LoopEnd /\ ~eintr => /\ wait' > 0
                                        /\ \A i \in 1..Len(slots) : slots[i].key >= now + wait']_tmVars
  BY <1>1
<1> QED
  BY <1>2, TimersInvariant, PTL DEF TMSpec, NotLate

\* Two runs of a timer are a period apart, however long the loop was held up:
\* TimeElapsedProcess inserts from now and not from when the timer was due.
THEOREM PeriodsKept ==
  TMSpec => Spaced
<1>1. ASSUME TimersInv, Process, last[slots[1].val] # Never
      PROVE  now >= last[slots[1].val] + period[slots[1].val]
  <2>1. tmPc = "loop" /\ slots # <<>> /\ now >= slots[1].key
    BY <1>1 DEF Process, Due
  <2>2. 1 \in 1..Len(slots)
    BY <1>1, <2>1, TimersUnfold
  <2>3. PICK t \in Timer : t = slots[1].val /\ slots[1].key \in Nat
    BY <1>1, <2>2, TimersUnfold
  <2>4. slots[1].key >= last[t] + period[t]
    BY <1>1, <2>1, <2>2, <2>3, TimersUnfold DEF Since, Apart
  <2>5. last[t] \in Nat /\ period[t] \in Nat /\ now \in Nat
    BY <1>1, TimersUnfold
  <2> QED
    BY <2>1, <2>3, <2>4, <2>5
<1>2. TimersInv /\ [TMNext]_tmVars
        => [Process => LET t == slots[1].val
                              IN last[t] # Never => now >= last[t] + period[t]]_tmVars
  BY <1>1
<1> QED
  BY <1>2, TimersInvariant, PTL DEF TMSpec, Spaced
==============================================================================
