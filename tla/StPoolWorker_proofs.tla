------------------------- MODULE StPoolWorker_proofs --------------------------
(***************************************************************************)
(* Proofs about StPoolWorker, for every finite set of handles, every set   *)
(* of processes and every capacity of the socket.                          *)
(***************************************************************************)
EXTENDS StPoolWorker, FiniteSetTheorems, SequenceTheorems, TLAPS

\* The states of a thread that can run, and those of one that cannot.
CanRun == {"new", "test", "ready", "accept"}
Blocked == {"poll", "io", "wait", "join", "done"}

\* t is an element of q.
In(t, q) == \E i \in DOMAIN q : q[i] = t

\* No thread is twice in q.
Once(q) == \A i, j \in DOMAIN q : q[i] = q[j] => i = j

\* Run() joins the handles when the flag is set and MainDo() has returned, and
\* a handle it has joined has no thread any more.
Joined ==
  /\ th["run"] \notin {"new", "io", "wait"} /\ th["main"] \in {"new", "ready", "io", "done"}
  /\ th["run"] \in {"join", "done"} => is_close
  /\ freed # {} => th["run"] \in {"join", "done"} /\ th["main"] = "done"
  /\ \A h \in freed : th[h] = "done"
  /\ th["run"] = "done" => freed = Handle

\* A handle whose thread has not run yet has got its process early.
Early == \A h \in Handle : th[h] = "new" /\ process[h] # None => h \in early

\* The inductive invariant.
PoolInv == HandlesOK /\ WhatFails /\ Joined /\ Early

------------------------------------------------------------------------------
(* Run queues.                                                             *)

\* What is in two queues, one behind the other.
LEMMA InConcat ==
  ASSUME NEW q \in Seq(Thread), NEW r \in Seq(Thread)
  PROVE  /\ q \o r \in Seq(Thread)
         /\ \A t : In(t, q \o r) <=> In(t, q) \/ In(t, r)
<1>1. /\ q \o r \in Seq(Thread) /\ Len(q \o r) = Len(q) + Len(r)
      /\ \A i \in 1..(Len(q) + Len(r)) : (q \o r)[i] = IF i <= Len(q) THEN q[i] ELSE r[i - Len(q)]
  BY ConcatProperties
<1>2. /\ Len(q) \in Nat /\ Len(r) \in Nat
      /\ DOMAIN q = 1..Len(q) /\ DOMAIN r = 1..Len(r) /\ DOMAIN (q \o r) = 1..(Len(q) + Len(r))
  BY <1>1, LenProperties
<1>3. ASSUME NEW t, In(t, q \o r)  PROVE In(t, q) \/ In(t, r)
  <2>1. PICK i \in 1..(Len(q) + Len(r)) : (q \o r)[i] = t
    BY <1>2, <1>3 DEF In
  <2>2. CASE i <= Len(q)
    BY <1>1, <1>2, <2>1, <2>2 DEF In
  <2>3. CASE ~(i <= Len(q))
    <3>1. i - Len(q) \in 1..Len(r)
      BY <1>2, <2>3
    <3> QED
      BY <1>1, <1>2, <2>1, <2>3, <3>1 DEF In
  <2> QED
    BY <2>2, <2>3
<1>4. ASSUME NEW t, In(t, q)  PROVE In(t, q \o r)
  <2>1. PICK i \in 1..Len(q) : q[i] = t
    BY <1>2, <1>4 DEF In
  <2>2. i \in 1..(Len(q) + Len(r)) /\ i <= Len(q)
    BY <1>2
  <2> QED
    BY <1>1, <1>2, <2>1, <2>2 DEF In
<1>5. ASSUME NEW t, In(t, r)  PROVE In(t, q \o r)
  <2>1. PICK i \in 1..Len(r) : r[i] = t
    BY <1>2, <1>5 DEF In
  <2>2. Len(q) + i \in 1..(Len(q) + Len(r)) /\ ~(Len(q) + i <= Len(q)) /\ (Len(q) + i) - Len(q) = i
    BY <1>2
  <2>3. (q \o r)[Len(q) + i] = t
    BY <1>1, <2>1, <2>2
  <2> QED
    BY <1>2, <2>2, <2>3 DEF In
<1> QED
  BY <1>1, <1>3, <1>4, <1>5

\* Two queues that share no thread are one queue in which none is twice.
LEMMA OnceConcat ==
  ASSUME NEW q \in Seq(Thread), NEW r \in Seq(Thread), Once(q), Once(r),
         \A t : ~(In(t, q) /\ In(t, r))
  PROVE  Once(q \o r)
<1>1. /\ Len(q \o r) = Len(q) + Len(r)
      /\ \A i \in 1..(Len(q) + Len(r)) : (q \o r)[i] = IF i <= Len(q) THEN q[i] ELSE r[i - Len(q)]
  BY ConcatProperties
<1>2. /\ Len(q) \in Nat /\ Len(r) \in Nat
      /\ DOMAIN q = 1..Len(q) /\ DOMAIN r = 1..Len(r) /\ DOMAIN (q \o r) = 1..(Len(q) + Len(r))
  BY <1>1, LenProperties, ConcatProperties
<1>3. SUFFICES ASSUME NEW i \in 1..(Len(q) + Len(r)), NEW j \in 1..(Len(q) + Len(r)),
                      (q \o r)[i] = (q \o r)[j]
               PROVE  i = j
  BY <1>2 DEF Once
<1>4. \A k \in 1..(Len(q) + Len(r)) : k <= Len(q) => k \in 1..Len(q) /\ In((q \o r)[k], q)
  BY <1>1, <1>2 DEF In
<1>5. \A k \in 1..(Len(q) + Len(r)) : ~(k <= Len(q)) => k - Len(q) \in 1..Len(r)
  BY <1>2
<1>6. \A k \in 1..(Len(q) + Len(r)) : ~(k <= Len(q)) => In((q \o r)[k], r)
  BY <1>1, <1>2, <1>5 DEF In
<1>7. CASE i <= Len(q) /\ j <= Len(q)
  BY <1>1, <1>2, <1>3, <1>4, <1>7 DEF Once
<1>8. CASE ~(i <= Len(q)) /\ ~(j <= Len(q))
  <2>1. r[i - Len(q)] = r[j - Len(q)]
    BY <1>1, <1>3, <1>8
  <2>2. i - Len(q) = j - Len(q)
    BY <1>2, <1>5, <1>8, <2>1 DEF Once
  <2> QED
    BY <1>2, <2>2
<1>9. CASE (i <= Len(q) /\ ~(j <= Len(q))) \/ (~(i <= Len(q)) /\ j <= Len(q))
  BY <1>3, <1>4, <1>6, <1>9
<1> QED
  BY <1>7, <1>8, <1>9

\* The head leaves a queue, and nothing else does.
LEMMA InTail ==
  ASSUME NEW q \in Seq(Thread), q # <<>>, Once(q)
  PROVE  /\ Tail(q) \in Seq(Thread) /\ Once(Tail(q)) /\ Head(q) \in Thread
         /\ \A t : In(t, Tail(q)) <=> In(t, q) /\ t # Head(q)
<1>1. /\ Len(q) \in Nat \ {0} /\ DOMAIN q = 1..Len(q)
      /\ Tail(q) \in Seq(Thread) /\ Len(Tail(q)) = Len(q) - 1
      /\ Head(q) = q[1] /\ \A i \in 1..(Len(q) - 1) : Tail(q)[i] = q[i + 1]
  OBVIOUS
<1>2. DOMAIN Tail(q) = 1..(Len(q) - 1)
  BY <1>1, LenProperties
<1>3. \A i \in 1..(Len(q) - 1) : i + 1 \in 1..Len(q) /\ i + 1 # 1
  BY <1>1
<1>4. \A i \in 1..Len(q) : i # 1 => i - 1 \in 1..(Len(q) - 1) /\ (i - 1) + 1 = i
  BY <1>1
<1>5. Once(Tail(q))
  <2>1. ASSUME NEW i \in 1..(Len(q) - 1), NEW j \in 1..(Len(q) - 1), Tail(q)[i] = Tail(q)[j]
        PROVE  i = j
    <3>1. i + 1 = j + 1
      BY <1>1, <1>3, <2>1 DEF Once
    <3> QED
      BY <3>1
  <2> QED
    BY <1>2, <2>1 DEF Once
<1>6. 1 \in 1..Len(q) /\ Head(q) \in Thread
  BY <1>1
<1>7. ASSUME NEW t, In(t, Tail(q))  PROVE In(t, q) /\ t # Head(q)
  <2>1. PICK i \in 1..(Len(q) - 1) : Tail(q)[i] = t
    BY <1>2, <1>7 DEF In
  <2> QED
    BY <1>1, <1>3, <1>6, <2>1 DEF In, Once
<1>8. ASSUME NEW t, In(t, q), t # Head(q)  PROVE In(t, Tail(q))
  <2>1. PICK i \in 1..Len(q) : q[i] = t
    BY <1>1, <1>8 DEF In
  <2>2. i # 1
    BY <1>1, <1>8, <2>1
  <2>3. Tail(q)[i - 1] = t
    BY <1>1, <1>4, <2>1, <2>2
  <2> QED
    BY <1>2, <1>4, <2>2, <2>3 DEF In
<1> QED
  BY <1>1, <1>5, <1>6, <1>7, <1>8

\* The states of threads.
ThType == [Thread -> {"new", "test", "poll", "ready", "accept", "io", "wait", "join", "done"}]

\* A thread blocks or ends and wakes others that wait, each once.
LEMMA YieldKeeps ==
  ASSUME th \in ThType, runq \in Seq(Thread), RunQueueOK,
         NEW t \in Thread, runq # <<>>, Head(runq) = t,
         NEW to \in Blocked, NEW woken \in Seq(Handle), Once(woken),
         \A u \in Thread : In(u, woken) => th[u] = "wait",
         Yield(to, t, woken)
  PROVE  /\ th' \in ThType /\ runq' \in Seq(Thread) /\ RunQueueOK'
         /\ th'[t] = to
         /\ \A u \in Thread \ {t} : th'[u] = IF In(u, woken) THEN "ready" ELSE th[u]
<1>1. /\ Once(runq) /\ \A u \in Thread : In(u, runq) <=> th[u] \in CanRun
  BY DEF RunQueueOK, Once, In, CanRun
<1>2. woken \in Seq(Thread)
  BY DEF Thread
<1>3. /\ Tail(runq) \in Seq(Thread) /\ Once(Tail(runq))
      /\ \A u : In(u, Tail(runq)) <=> In(u, runq) /\ u # t
  BY <1>1, InTail
<1>4. In(t, runq)
  BY DEF In
<1>5. ~In(t, woken)
  BY <1>1, <1>4 DEF CanRun
<1>6. /\ th'[t] = to
      /\ \A u \in Thread \ {t} : th'[u] = IF In(u, woken) THEN "ready" ELSE th[u]
  BY DEF Yield, In
<1>7. th' \in ThType
  BY <1>6 DEF Yield, ThType, Blocked
<1>8. /\ runq' \in Seq(Thread)
      /\ \A u : In(u, runq') <=> (In(u, runq) /\ u # t) \/ In(u, woken)
  BY <1>2, <1>3, InConcat DEF Yield
<1>9. Once(runq')
  <2>1. \A u : In(u, Tail(runq)) => u \in Thread
    BY <1>3 DEF In
  <2>2. \A u : ~(In(u, Tail(runq)) /\ In(u, woken))
    BY <1>1, <1>3, <2>1 DEF CanRun
  <2> QED
    BY <1>2, <1>3, <2>2, OnceConcat DEF Yield
<1>10. ASSUME NEW u \in Thread  PROVE In(u, runq') <=> th'[u] \in CanRun
  <2>1. CASE u = t
    BY <1>5, <1>6, <1>8, <2>1 DEF CanRun, Blocked
  <2>2. CASE u # t /\ In(u, woken)
    BY <1>6, <1>8, <2>2 DEF CanRun
  <2>3. CASE u # t /\ ~In(u, woken)
    BY <1>1, <1>6, <1>8, <2>3
  <2> QED
    BY <2>1, <2>2, <2>3
<1>11. RunQueueOK'
  BY <1>9, <1>10 DEF RunQueueOK, Once, In, CanRun
<1> QED
  BY <1>6, <1>7, <1>8, <1>11

\* The thread that runs goes on, and may have woken one that waited.
LEMMA GoOnKeeps ==
  ASSUME th \in ThType, runq \in Seq(Thread), RunQueueOK,
         NEW t \in Thread, runq # <<>>, Head(runq) = t,
         NEW to \in CanRun, NEW woken \in Seq(Handle), Once(woken),
         \A u \in Thread : In(u, woken) => th[u] = "wait",
         GoOn(to, t, woken)
  PROVE  /\ th' \in ThType /\ runq' \in Seq(Thread) /\ RunQueueOK'
         /\ th'[t] = to
         /\ \A u \in Thread \ {t} : th'[u] = IF In(u, woken) THEN "ready" ELSE th[u]
<1>1. /\ Once(runq) /\ \A u \in Thread : In(u, runq) <=> th[u] \in CanRun
  BY DEF RunQueueOK, Once, In, CanRun
<1>2. woken \in Seq(Thread)
  BY DEF Thread
<1>4. In(t, runq)
  BY DEF In
<1>5. ~In(t, woken)
  BY <1>1, <1>4 DEF CanRun
<1>6. /\ th'[t] = to
      /\ \A u \in Thread \ {t} : th'[u] = IF In(u, woken) THEN "ready" ELSE th[u]
  BY DEF GoOn, In
<1>7. th' \in ThType
  BY <1>6 DEF GoOn, ThType, CanRun
<1>8. /\ runq' \in Seq(Thread)
      /\ \A u : In(u, runq') <=> In(u, runq) \/ In(u, woken)
  BY <1>2, InConcat DEF GoOn
<1>9. Once(runq')
  <2>1. \A u : In(u, runq) => u \in Thread
    BY DEF In
  <2>2. \A u : ~(In(u, runq) /\ In(u, woken))
    BY <1>1, <2>1 DEF CanRun
  <2> QED
    BY <1>1, <1>2, <2>2, OnceConcat DEF GoOn
<1>10. ASSUME NEW u \in Thread  PROVE In(u, runq') <=> th'[u] \in CanRun
  <2>1. CASE u = t
    BY <1>4, <1>6, <1>8, <2>1
  <2>2. CASE u # t /\ In(u, woken)
    BY <1>6, <1>8, <2>2 DEF CanRun
  <2>3. CASE u # t /\ ~In(u, woken)
    BY <1>1, <1>6, <1>8, <2>3
  <2> QED
    BY <2>1, <2>2, <2>3
<1>11. RunQueueOK'
  BY <1>9, <1>10 DEF RunQueueOK, Once, In, CanRun
<1> QED
  BY <1>6, <1>7, <1>8, <1>11

\* An order of the elements of a finite set has each of them once.
LEMMA OrderOf ==
  ASSUME NEW S, S \subseteq Handle, NEW s \in Orders(S)
  PROVE  /\ s \in Seq(Handle) /\ Once(s)
         /\ \A u : In(u, s) <=> u \in S
<1>1. IsFiniteSet(S) /\ Cardinality(S) \in Nat
  BY StPoolAssumption, FS_Subset, FS_CardinalityType
<1>2. s \in [1..Cardinality(S) -> S] /\ Once(s)
  BY DEF Orders, Once
<1>3. s \in Seq(Handle)
  BY <1>1, <1>2
<1>4. IsFiniteSet(1..Cardinality(S)) /\ Cardinality(1..Cardinality(S)) = Cardinality(S)
  BY <1>1, FS_Interval
<1>5. s \in Injection(1..Cardinality(S), S)
  BY <1>2 DEF Injection, IsInjective, Once
<1>6. s \in Surjection(1..Cardinality(S), S)
  BY <1>1, <1>4, <1>5, FS_Injection
<1>7. \A u \in S : \E i \in 1..Cardinality(S) : s[i] = u
  BY <1>6 DEF Surjection
<1> QED
  BY <1>2, <1>3, <1>7 DEF In

------------------------------------------------------------------------------
(* What several actions share.                                             *)

\* The distinct threads.
LEMMA Threads ==
  /\ "run" \in Thread /\ "main" \in Thread /\ Handle \subseteq Thread
  /\ "run" \notin Handle /\ "main" \notin Handle /\ None \notin Handle \cup Proc
  BY StPoolAssumption DEF Thread

\* Waking nobody, and waking one handle that waits.
LEMMA WakeOne ==
  /\ <<>> \in Seq(Handle) /\ Once(<<>>) /\ \A u : ~In(u, <<>>)
  /\ \A h \in Handle : /\ Signal(h) \in Seq(Handle) /\ Once(Signal(h))
                       /\ \A u : In(u, Signal(h)) <=> u = h /\ th[h] = "wait"
<1>1. <<>> \in Seq(Handle) /\ Once(<<>>) /\ \A u : ~In(u, <<>>)
  BY DEF Once, In
<1>2. ASSUME NEW h \in Handle
      PROVE  <<h>> \in Seq(Handle) /\ Once(<<h>>) /\ \A u : In(u, <<h>>) <=> u = h
  BY DEF Once, In
<1> QED
  BY <1>1, <1>2 DEF Signal

\* A thread is switched and the bookkeeping of the pool is left alone: others
\* may only have been woken, a handle starts to wait without a process or for
\* the first time, and Run() joins only when the flag is set.
LEMMA SwitchKeeps ==
  ASSUME PoolInv, fault = "none", NEW t \in Thread,
         th' \in ThType, runq' \in Seq(Thread), RunQueueOK',
         \A u \in Thread \ {t} : th'[u] = th[u] \/ (th[u] = "wait" /\ th'[u] = "ready"),
         UNCHANGED <<idle, use, process, freed, state, early, fault>>,
         sock' \in Seq({"A", "C"}), Len(sock') <= SockCap, stop' \in {"no", "send", "sent"},
         is_close' \in BOOLEAN, byC' \in BOOLEAN, is_close => is_close',
         t = "run" => /\ th'[t] \notin {"new", "io", "wait", "done"}
                      /\ th'[t] = "join" => is_close'
                      /\ th[t] \notin {"join", "done"},
         t = "main" => th'[t] \in {"ready", "io", "done"} /\ th[t] # "done",
         t \in Handle => /\ th'[t] # "new" /\ th[t] # "done"
                         /\ th'[t] = "wait" => process[t] = None \/ th[t] = "new"
  PROVE  PoolInv'
<1>1. TypeOK'
  BY DEF PoolInv, HandlesOK, TypeOK, ThType
<1>2. HandlesKept'
  BY Threads DEF PoolInv, HandlesOK, HandlesKept
<1>3. LostWakeup'
  BY Threads DEF PoolInv, WhatFails, LostWakeup, Stuck, Early
<1>4. Blame'
  BY DEF Blame
<1>5. Joined'
  <2>1. th["run"] # "wait" /\ th["main"] # "wait"
    BY DEF PoolInv, Joined
  <2>2. t # "run" => th'["run"] = th["run"]
    BY <2>1, Threads
  <2>3. t # "main" => th'["main"] = th["main"]
    BY <2>1, Threads
  <2>4. freed # {} => t # "run" /\ t # "main"
    BY DEF PoolInv, Joined
  <2>5. \A h \in freed : th'[h] = "done"
    BY Threads DEF PoolInv, Joined, HandlesOK, TypeOK
  <2>6. th'["run"] = "done" => freed = Handle
    BY <2>2 DEF PoolInv, Joined
  <2>7. th'["run"] \in {"join", "done"} => is_close'
    BY <2>2 DEF PoolInv, Joined
  <2>8. th'["run"] \notin {"new", "io", "wait"} /\ th'["main"] \in {"new", "ready", "io", "done"}
    BY <2>2, <2>3 DEF PoolInv, Joined
  <2> QED
    BY <2>2, <2>3, <2>4, <2>5, <2>6, <2>7, <2>8 DEF PoolInv, Joined
<1>6. Early'
  BY Threads DEF PoolInv, Early
<1> QED
  BY <1>1, <1>2, <1>3, <1>4, <1>5, <1>6 DEF PoolInv, HandlesOK, WhatFails

\* StartWithThread, called by a thread that goes on: an idle handle holds no
\* process, and if it waits it is woken.  One that Run() has deleted is used
\* only by a process of another handle, since Run() and MainDo() start nothing
\* once a handle is deleted.
LEMMA StartKeeps ==
  ASSUME PoolInv, fault = "none", NEW t \in Thread, runq # <<>>, Head(runq) = t,
         NEW to \in CanRun, NEW p \in Proc, StartWithThread(t, to, p),
         \/ t = "run" /\ to # "new" /\ th[t] \notin {"join", "done"}
         \/ t = "main" /\ to = "ready" /\ th[t] # "done"
         \/ t \in Handle /\ to = "ready" /\ th[t] = "ready" /\ process[t] # None,
         UNCHANGED <<is_close, freed, stop, byC>>,
         sock' \in Seq({"A", "C"}), Len(sock') <= SockCap
  PROVE  PoolInv'
<1>1. th \in ThType /\ runq \in Seq(Thread) /\ RunQueueOK
  BY DEF PoolInv, HandlesOK, TypeOK, ThType
<1>2. CASE /\ idle = {} /\ state' = [state EXCEPT ![p] = "refused"]
           /\ GoOn(to, t, <<>>) /\ UNCHANGED <<idle, use, process, early, fault>>
  <2>1. /\ th' \in ThType /\ runq' \in Seq(Thread) /\ RunQueueOK'
        /\ th'[t] = to /\ \A u \in Thread \ {t} : th'[u] = th[u]
    BY <1>1, <1>2, GoOnKeeps, WakeOne
  <2>2. state[p] = "new" /\ \A h \in Handle : process[h] # p
    BY DEF StartWithThread, PoolInv, HandlesOK, HandlesKept
  <2>3. TypeOK'
    BY <1>2, <2>1 DEF PoolInv, HandlesOK, TypeOK, ThType
  <2>4. HandlesKept'
    <3>1. \A q \in Proc : state'[q] = "started" <=> state[q] = "started"
      BY <1>2, <2>2 DEF PoolInv, HandlesOK, TypeOK
    <3>2. th'["run"] # "done" => th["run"] # "done"
      BY <2>1, Threads
    <3> QED
      BY <1>2, <3>1, <3>2 DEF PoolInv, HandlesOK, HandlesKept
  <2>5. LostWakeup' /\ Blame' /\ Early'
    BY <1>2, <2>1, Threads DEF PoolInv, WhatFails, LostWakeup, Stuck, Blame, Early, CanRun
  <2>6. Joined'
    BY <1>2, <2>1, Threads DEF PoolInv, HandlesOK, TypeOK, Joined, CanRun
  <2> QED
    BY <2>1, <2>3, <2>4, <2>5, <2>6 DEF PoolInv, HandlesOK, WhatFails
<1>3. ASSUME NEW h \in idle,
             process' = [process EXCEPT ![h] = p],
             idle' = idle \ {h}, use' = use \cup {h},
             state' = [state EXCEPT ![p] = "started"],
             early' = IF th[h] = "new" THEN early \cup {h} ELSE early,
             fault' = IF h \in freed THEN "freed" ELSE "none",
             GoOn(to, t, Signal(h))
      PROVE  PoolInv'
  <2>1. h \in Handle /\ h \in Thread /\ process[h] = None /\ h # t /\ p # None
    BY Threads DEF PoolInv, HandlesOK, TypeOK, HandlesKept
  <2>2. /\ th' \in ThType /\ runq' \in Seq(Thread) /\ RunQueueOK'
        /\ th'[t] = to /\ \A u \in Thread \ {t} : th'[u] = IF In(u, Signal(h)) THEN "ready" ELSE th[u]
    BY <1>1, <1>3, <2>1, GoOnKeeps, WakeOne
  <2>3. /\ \A u \in Thread \ {t, h} : th'[u] = th[u]
        /\ th'[h] = IF th[h] = "wait" THEN "ready" ELSE th[h]
    BY <2>1, <2>2, WakeOne
  <2>4. state[p] = "new" /\ \A g \in Handle : process[g] # p
    BY DEF StartWithThread, PoolInv, HandlesOK, HandlesKept
  <2>5. /\ process'[h] = p /\ \A g \in Handle \ {h} : process'[g] = process[g]
        /\ state'[p] = "started" /\ \A q \in Proc \ {p} : state'[q] = state[q]
    BY <1>3, <2>1 DEF PoolInv, HandlesOK, TypeOK
  <2>6. TypeOK'
    BY <1>3, <2>1, <2>2 DEF PoolInv, HandlesOK, TypeOK, ThType
  <2>7. HandlesKept'
    <3>1. \A q \in Proc : state'[q] = "started" <=> \E g \in Handle : process'[g] = q
      BY <2>1, <2>4, <2>5, Threads DEF PoolInv, HandlesOK, HandlesKept
    <3>2. th'["run"] # "done" => th["run"] # "done"
      BY <2>1, <2>3, Threads
    <3>3. \A f, g \in Handle : process'[f] = process'[g] /\ process'[f] # None => f = g
      BY <2>1, <2>4, <2>5 DEF PoolInv, HandlesOK, HandlesKept
    <3>4. \A g \in idle' : process'[g] = None
      BY <1>3, <2>5 DEF PoolInv, HandlesOK, HandlesKept, TypeOK
    <3>5. idle' \cap use' = {} /\ (th'["run"] # "done" => idle' \cup use' = Handle)
      BY <1>3, <2>1, <3>2 DEF PoolInv, HandlesOK, HandlesKept
    <3> QED
      BY <3>1, <3>3, <3>4, <3>5 DEF HandlesKept
  <2>8. LostWakeup' /\ Early'
    BY <1>3, <2>1, <2>2, <2>3, <2>5, Threads
       DEF PoolInv, WhatFails, LostWakeup, Stuck, Early, CanRun
  <2>9. Joined'
    <3>1. Joined /\ h \in Handle /\ "run" # h /\ "main" # h
      BY <2>1, Threads DEF PoolInv
    <3>2. th'["run"] = th["run"] \/ (t = "run" /\ th'["run"] = to)
      BY <2>2, <2>3, <3>1, Threads
    <3>3. th'["main"] = th["main"] \/ (t = "main" /\ th'["main"] = to)
      BY <2>2, <2>3, <3>1, Threads
    <3>4. /\ th'["run"] \notin {"new", "io", "wait"} /\ th'["main"] \in {"new", "ready", "io", "done"}
          /\ th'["run"] \in {"join", "done"} => th["run"] \in {"join", "done"}
          /\ th'["run"] = "done" => th["run"] = "done"
      BY <1>3, <2>1, <3>1, <3>2, <3>3 DEF Joined, CanRun
    <3>5. freed # {} => th'["run"] \in {"join", "done"} /\ th'["main"] = "done"
      BY <1>3, <2>1, <3>1, <3>2, <3>3 DEF Joined, CanRun
    <3>6. \A g \in freed : th'[g] = "done"
      BY <1>3, <2>1, <2>2, <2>3, <3>1, Threads DEF PoolInv, HandlesOK, TypeOK, Joined, CanRun
    <3> QED
      BY <1>3, <2>1, <3>1, <3>4, <3>5, <3>6 DEF Joined
  <2>10. Blame'
    <3> SUFFICES ASSUME h \in freed
                 PROVE  /\ is_close' /\ th'["main"] = "done"
                        /\ \E g \in use' \ freed' : process'[g] # None /\ th'[g] = "ready"
      BY <1>3 DEF Blame
    <3>1. is_close /\ th["run"] \in {"join", "done"} /\ th["main"] = "done"
      BY DEF PoolInv, Joined
    <3>2. t \in Handle /\ th[t] = "ready" /\ process[t] # None /\ to = "ready"
      BY <3>1
    <3>3. t \notin freed /\ th["run"] # "done"
      BY <3>2 DEF PoolInv, Joined
    <3>4. t \in use
      BY <3>2, <3>3 DEF PoolInv, HandlesOK, HandlesKept
    <3>5. th'["main"] = "done"
      BY <2>1, <2>3, <3>1, <3>2, Threads
    <3>6. t \in use' \ freed' /\ process'[t] # None /\ th'[t] = "ready"
      BY <1>3, <2>1, <2>2, <2>5, <3>2, <3>3, <3>4
    <3> QED
      BY <3>1, <3>5, <3>6
  <2> QED
    BY <2>2, <2>6, <2>7, <2>8, <2>9, <2>10 DEF PoolInv, HandlesOK, WhatFails
<1> QED
  BY <1>2, <1>3 DEF StartWithThread

------------------------------------------------------------------------------
(* One lemma per action.                                                   *)

\* The socket keeps its type when a message is read or sent.
LEMMA SockType ==
  ASSUME TypeOK
  PROVE  /\ sock \in Seq({"A", "C"}) /\ Len(sock) <= SockCap
         /\ sock # <<>> => Tail(sock) \in Seq({"A", "C"}) /\ Len(Tail(sock)) <= SockCap
         /\ \A m \in {"A", "C"} : Len(sock) < SockCap =>
              Append(sock, m) \in Seq({"A", "C"}) /\ Len(Append(sock, m)) <= SockCap
<1>1. sock \in Seq({"A", "C"}) /\ Len(sock) <= SockCap /\ Len(sock) \in Nat /\ SockCap \in Nat
  BY StPoolAssumption DEF TypeOK
<1>2. sock # <<>> => Tail(sock) \in Seq({"A", "C"}) /\ Len(Tail(sock)) = Len(sock) - 1
  BY <1>1
<1>3. \A m \in {"A", "C"} : Append(sock, m) \in Seq({"A", "C"}) /\ Len(Append(sock, m)) = Len(sock) + 1
  BY <1>1
<1> QED
  BY <1>1, <1>2, <1>3

\* The facts every step starts from.
LEMMA Start ==
  ASSUME PoolInv
  PROVE  /\ th \in ThType /\ runq \in Seq(Thread) /\ RunQueueOK /\ TypeOK
         /\ stop \in {"no", "send", "sent"} /\ is_close \in BOOLEAN /\ byC \in BOOLEAN
         /\ sock \in Seq({"A", "C"}) /\ Len(sock) <= SockCap
  BY DEF PoolInv, HandlesOK, TypeOK, ThType

\* ProcessFd, called by Run(): it starts a process, or the worker crashes.
LEMMA ProcessFdKeeps ==
  ASSUME PoolInv, fault = "none", runq # <<>>, Head(runq) = "run", th["run"] \notin {"join", "done"},
         NEW to \in CanRun \ {"new"}, ProcessFd(to),
         UNCHANGED <<is_close, freed, stop, byC>>,
         sock' \in Seq({"A", "C"}), Len(sock') <= SockCap
  PROVE  PoolInv'
<1>1. CASE \E p \in Proc : StartWithThread("run", to, p)
  BY <1>1, StartKeeps, Threads
<1>2. CASE fault' = "null" /\ UNCHANGED <<idle, use, process, state, early, th, runq>>
  <2>1. TypeOK'
    BY <1>2, Start DEF TypeOK
  <2>2. RunQueueOK' /\ HandlesKept'
    BY <1>2 DEF PoolInv, HandlesOK, RunQueueOK, HandlesKept
  <2>3. LostWakeup' /\ Blame' /\ Early' /\ Joined'
    BY <1>2 DEF PoolInv, WhatFails, LostWakeup, Stuck, Blame, Early, Joined
  <2> QED
    BY <2>1, <2>2, <2>3 DEF PoolInv, HandlesOK, WhatFails
<1> QED
  BY <1>1, <1>2 DEF ProcessFd

\* Run() polls, or joins because the flag is set.
LEMMA LoopTestStep ==
  ASSUME PoolInv, LoopTest
  PROVE  PoolInv'
<1> DEFINE to == IF is_close THEN "join" ELSE "poll"
<1>1. /\ runq # <<>> /\ Head(runq) = "run" /\ th["run"] = "test" /\ fault = "none"
      /\ to \in Blocked /\ Yield(to, "run", <<>>)
      /\ UNCHANGED <<is_close, idle, use, process, sock, freed, stop, state, early, byC, fault>>
  BY DEF LoopTest, Turn, Blocked
<1> HIDE DEF to
<1>2. "run" \in Thread
  BY Threads
<1>3. <<>> \in Seq(Handle) /\ Once(<<>>) /\ \A u \in Thread : ~In(u, <<>>)
  BY WakeOne
<1>4. /\ th' \in ThType /\ runq' \in Seq(Thread) /\ RunQueueOK'
      /\ th'["run"] = to /\ \A u \in Thread \ {"run"} : th'[u] = th[u]
  BY <1>1, <1>2, <1>3, YieldKeeps, Start
<1> QED
  BY <1>1, <1>2, <1>4, SwitchKeeps, Start, Threads DEF to

\* Run() tests the flag again.
LEMMA NoAcceptStep ==
  ASSUME PoolInv, NoAccept
  PROVE  PoolInv'
<1> DEFINE to == "test"
<1>1. /\ runq # <<>> /\ Head(runq) = "run" /\ th["run"] \in {"accept", "ready"} /\ fault = "none"
      /\ to \in CanRun /\ GoOn(to, "run", <<>>)
      /\ UNCHANGED <<is_close, idle, use, process, sock, freed, stop, state, early, byC, fault>>
  BY DEF NoAccept, Turn, CanRun
<1> HIDE DEF to
<1>2. "run" \in Thread
  BY Threads
<1>3. <<>> \in Seq(Handle) /\ Once(<<>>) /\ \A u \in Thread : ~In(u, <<>>)
  BY WakeOne
<1>4. /\ th' \in ThType /\ runq' \in Seq(Thread) /\ RunQueueOK'
      /\ th'["run"] = to /\ \A u \in Thread \ {"run"} : th'[u] = th[u]
  BY <1>1, <1>2, <1>3, GoOnKeeps, Start
<1> QED
  BY <1>1, <1>2, <1>4, SwitchKeeps, Start, Threads DEF to

\* MainDo() has returned.
LEMMA MainDoneStep ==
  ASSUME PoolInv, MainDone
  PROVE  PoolInv'
<1> DEFINE to == "done"
<1>1. /\ runq # <<>> /\ Head(runq) = "main" /\ th["main"] \in {"new", "ready"} /\ fault = "none"
      /\ to \in Blocked /\ Yield(to, "main", <<>>)
      /\ UNCHANGED <<is_close, idle, use, process, sock, freed, stop, state, early, byC, fault>>
  BY DEF MainDone, Turn, Blocked
<1> HIDE DEF to
<1>2. "main" \in Thread
  BY Threads
<1>3. <<>> \in Seq(Handle) /\ Once(<<>>) /\ \A u \in Thread : ~In(u, <<>>)
  BY WakeOne
<1>4. /\ th' \in ThType /\ runq' \in Seq(Thread) /\ RunQueueOK'
      /\ th'["main"] = to /\ \A u \in Thread \ {"main"} : th'[u] = th[u]
  BY <1>1, <1>2, <1>3, YieldKeeps, Start
<1> QED
  BY <1>1, <1>2, <1>4, SwitchKeeps, Start, Threads DEF to

\* A handle waits for the first time, with a process only if it got it early.
LEMMA DoRunStep ==
  ASSUME PoolInv, NEW h \in Handle, DoRun(h)
  PROVE  PoolInv'
<1> DEFINE to == IF is_close THEN "done" ELSE "wait"
<1>1. /\ runq # <<>> /\ Head(runq) = h /\ th[h] = "new" /\ fault = "none"
      /\ to \in Blocked /\ Yield(to, h, <<>>)
      /\ UNCHANGED <<is_close, idle, use, process, sock, freed, stop, state, early, byC, fault>>
  BY DEF DoRun, Turn, Blocked
<1> HIDE DEF to
<1>2. h \in Thread
  BY Threads
<1>3. <<>> \in Seq(Handle) /\ Once(<<>>) /\ \A u \in Thread : ~In(u, <<>>)
  BY WakeOne
<1>4. /\ th' \in ThType /\ runq' \in Seq(Thread) /\ RunQueueOK'
      /\ th'[h] = to /\ \A u \in Thread \ {h} : th'[u] = th[u]
  BY <1>1, <1>2, <1>3, YieldKeeps, Start
<1> QED
  BY <1>1, <1>2, <1>4, SwitchKeeps, Start, Threads DEF to

\* A message with a descriptor starts a process, or crashes the worker.
LEMMA RecvAStep ==
  ASSUME PoolInv, RecvA
  PROVE  PoolInv'
<1>1. /\ runq # <<>> /\ Head(runq) = "run" /\ th["run"] = "ready" /\ fault = "none"
      /\ UNCHANGED <<is_close, freed, stop, byC>> /\ ProcessFd("accept")
  BY DEF RecvA, Turn
<1>2. sock' \in Seq({"A", "C"}) /\ Len(sock') <= SockCap
  BY SockType, Start DEF RecvA
<1> QED
  BY <1>1, <1>2, ProcessFdKeeps DEF CanRun

\* A connection starts a process, or crashes the worker.
LEMMA AcceptFdStep ==
  ASSUME PoolInv, AcceptFd
  PROVE  PoolInv'
<1>1. /\ runq # <<>> /\ Head(runq) = "run" /\ th["run"] \in {"ready", "accept"} /\ fault = "none"
      /\ UNCHANGED <<is_close, sock, freed, stop, byC>> /\ ProcessFd("test")
  BY DEF AcceptFd, Turn
<1>2. sock' \in Seq({"A", "C"}) /\ Len(sock') <= SockCap
  BY <1>1, Start
<1> QED
  BY <1>1, <1>2, ProcessFdKeeps DEF CanRun

\* 'C': the idle handles that wait are woken, each once.
LEMMA RecvCStep ==
  ASSUME PoolInv, RecvC
  PROVE  PoolInv'
<1> DEFINE S == {h \in idle : th[h] = "wait"}
<1>1. /\ runq # <<>> /\ Head(runq) = "run" /\ th["run"] = "ready" /\ fault = "none"
      /\ is_close' = TRUE /\ byC' = TRUE
      /\ UNCHANGED <<idle, use, process, freed, stop, state, early, fault>>
  BY DEF RecvC, Turn
<1>2. PICK woken \in Orders(S) : Yield("join", "run", woken)
  BY DEF RecvC
<1>3. S \subseteq Handle
  BY Start DEF TypeOK
<1>4. /\ woken \in Seq(Handle) /\ Once(woken) /\ \A u \in Thread : In(u, woken) => th[u] = "wait"
  BY <1>3, OrderOf
<1>5. /\ th' \in ThType /\ runq' \in Seq(Thread) /\ RunQueueOK'
      /\ th'["run"] = "join"
      /\ \A u \in Thread \ {"run"} : th'[u] = IF In(u, woken) THEN "ready" ELSE th[u]
  BY <1>1, <1>2, <1>4, YieldKeeps, Threads, Start DEF Blocked
<1>6. \A u \in Thread \ {"run"} : th'[u] = th[u] \/ (th[u] = "wait" /\ th'[u] = "ready")
  BY <1>4, <1>5
<1>7. sock' \in Seq({"A", "C"}) /\ Len(sock') <= SockCap
  BY SockType, Start DEF RecvC
<1> QED
  BY <1>1, <1>5, <1>6, <1>7, SwitchKeeps, Threads, Start

\* MainDo() starts a process or blocks.
LEMMA MainDoStep ==
  ASSUME PoolInv, MainDo
  PROVE  PoolInv'
<1>1. /\ runq # <<>> /\ Head(runq) = "main" /\ th["main"] \in {"new", "ready"} /\ fault = "none"
      /\ UNCHANGED <<is_close, sock, freed, stop, byC>>
  BY DEF MainDo, Turn
<1>2. CASE \E p \in Proc : StartWithThread("main", "ready", p)
  BY <1>1, <1>2, StartKeeps, Threads, Start DEF CanRun
<1>3. CASE Yield("io", "main", <<>>) /\ UNCHANGED <<idle, use, process, state, early, fault>>
  <2>1. /\ th' \in ThType /\ runq' \in Seq(Thread) /\ RunQueueOK'
        /\ th'["main"] = "io" /\ \A u \in Thread \ {"main"} : th'[u] = th[u]
    BY <1>1, <1>3, YieldKeeps, WakeOne, Threads, Start DEF Blocked
  <2> QED
    BY <1>1, <1>3, <2>1, SwitchKeeps, Threads, Start
<1> QED
  BY <1>2, <1>3 DEF MainDo

\* A process blocks or starts another.
LEMMA ProcessStep ==
  ASSUME PoolInv, NEW h \in Handle, Process(h)
  PROVE  PoolInv'
<1>1. /\ runq # <<>> /\ Head(runq) = h /\ th[h] = "ready" /\ fault = "none" /\ process[h] # None
      /\ UNCHANGED <<is_close, sock, freed, stop, byC>>
  BY DEF Process, Turn
<1>2. CASE \E p \in Proc : StartWithThread(h, "ready", p)
  BY <1>1, <1>2, StartKeeps, Threads, Start DEF CanRun
<1>3. CASE Yield("io", h, <<>>) /\ UNCHANGED <<idle, use, process, state, early, fault>>
  <2>1. /\ th' \in ThType /\ runq' \in Seq(Thread) /\ RunQueueOK'
        /\ th'[h] = "io" /\ \A u \in Thread \ {h} : th'[u] = th[u]
    <3>1. "io" \in Blocked /\ h \in Thread
      BY Threads DEF Blocked
    <3>2. <<>> \in Seq(Handle) /\ Once(<<>>) /\ \A u : ~In(u, <<>>)
      BY WakeOne
    <3> QED
      BY <1>1, <1>3, <3>1, <3>2, YieldKeeps, Start
  <2> QED
    BY <1>1, <1>3, <2>1, SwitchKeeps, Threads, Start
<1> QED
  BY <1>2, <1>3 DEF Process

\* The process is done and its handle, which Run() has not joined, is idle.
LEMMA ProcessDoneStep ==
  ASSUME PoolInv, NEW h \in Handle, ProcessDone(h)
  PROVE  PoolInv'
<1> DEFINE to == IF is_close THEN "done" ELSE "wait"
<1>1. /\ runq # <<>> /\ Head(runq) = h /\ th[h] = "ready" /\ fault = "none"
      /\ state' = [p \in Proc |-> IF process[h] = p THEN "done" ELSE state[p]]
      /\ process' = [process EXCEPT ![h] = None]
      /\ use' = use \ {h} /\ idle' = idle \cup {h}
      /\ to \in Blocked /\ Yield(to, h, <<>>)
      /\ UNCHANGED <<is_close, sock, freed, stop, early, byC, fault>>
  BY DEF ProcessDone, Turn, Blocked
<1>2. /\ th' \in ThType /\ runq' \in Seq(Thread) /\ RunQueueOK'
      /\ th'[h] = to /\ \A u \in Thread \ {h} : th'[u] = th[u]
  <2>1. h \in Thread
    BY Threads
  <2>2. <<>> \in Seq(Handle) /\ Once(<<>>) /\ \A u : ~In(u, <<>>)
    BY WakeOne
  <2> HIDE DEF to
  <2> QED
    BY <1>1, <2>1, <2>2, YieldKeeps, Start
<1>3. h \notin freed /\ th["run"] # "done" /\ th'["run"] = th["run"] /\ th'["main"] = th["main"]
  BY <1>1, <1>2, Threads DEF PoolInv, Joined
<1>4. process'[h] = None /\ \A g \in Handle \ {h} : process'[g] = process[g]
  BY <1>1, Start DEF TypeOK
<1>5. TypeOK'
  BY <1>1, <1>2, Start DEF TypeOK, ThType
<1>6. HandlesKept'
  <2>1. \A p \in Proc : state'[p] = "started" <=> \E g \in Handle : process'[g] = p
    BY <1>1, <1>4, Threads DEF PoolInv, HandlesOK, HandlesKept
  <2>2. /\ \A f, g \in Handle : process'[f] = process'[g] /\ process'[f] # None => f = g
        /\ \A g \in idle' : process'[g] = None
    BY <1>1, <1>4, Start DEF PoolInv, HandlesOK, HandlesKept, TypeOK
  <2>3. idle' \cap use' = {} /\ idle' \cup use' = Handle
    BY <1>1, <1>3 DEF PoolInv, HandlesOK, HandlesKept
  <2> QED
    BY <2>1, <2>2, <2>3 DEF HandlesKept
<1>7. LostWakeup' /\ Early'
  BY <1>1, <1>2, <1>4, Threads DEF PoolInv, WhatFails, LostWakeup, Stuck, Early
<1>8. Blame' /\ Joined'
  BY <1>1, <1>2, <1>3, Threads, Start DEF PoolInv, Blame, Joined, TypeOK
<1> QED
  BY <1>2, <1>5, <1>6, <1>7, <1>8 DEF PoolInv, HandlesOK, WhatFails

\* A handle whose thread has ended is deleted, with the process it has.
LEMMA JoinStep ==
  ASSUME PoolInv, NEW h \in Handle, Join(h)
  PROVE  PoolInv'
<1>1. /\ fault = "none" /\ th["run"] = "join" /\ th["main"] = "done"
      /\ th[h] = "done" /\ freed' = freed \cup {h}
      /\ state' = [p \in Proc |-> IF process[h] = p THEN "freed" ELSE state[p]]
      /\ process' = [process EXCEPT ![h] = None]
      /\ UNCHANGED <<is_close, runq, sock, stop, early, byC, fault>>
  BY DEF Join
<1>2. \/ freed' = Handle /\ th' = [th EXCEPT !["run"] = "done"] /\ idle' = {} /\ use' = {}
      \/ freed' # Handle /\ UNCHANGED <<th, idle, use>>
  BY DEF Join
<1>3. /\ \A u \in Thread \ {"run"} : th'[u] = th[u]
      /\ th'["run"] = IF freed' = Handle THEN "done" ELSE "join"
      /\ th' \in ThType
  BY <1>1, <1>2, Threads, Start DEF ThType
<1>4. process'[h] = None /\ \A g \in Handle \ {h} : process'[g] = process[g]
  BY <1>1, Start DEF TypeOK
<1>5. TypeOK'
  BY <1>1, <1>2, <1>3, Start DEF TypeOK, ThType
<1>6. RunQueueOK'
  BY <1>1, <1>3, Threads, Start DEF RunQueueOK
<1>7. HandlesKept'
  <2>1. \A p \in Proc : state'[p] = "started" <=> \E g \in Handle : process'[g] = p
    BY <1>1, <1>4, Threads DEF PoolInv, HandlesOK, HandlesKept
  <2>2. /\ \A f, g \in Handle : process'[f] = process'[g] /\ process'[f] # None => f = g
        /\ \A g \in idle' : process'[g] = None
    BY <1>1, <1>2, <1>4, Start DEF PoolInv, HandlesOK, HandlesKept, TypeOK
  <2>3. idle' \cap use' = {} /\ (th'["run"] # "done" => idle' \cup use' = Handle)
    BY <1>1, <1>2, <1>3 DEF PoolInv, HandlesOK, HandlesKept
  <2> QED
    BY <2>1, <2>2, <2>3 DEF HandlesKept
<1>8. LostWakeup' /\ Early'
  BY <1>1, <1>3, <1>4, Threads DEF PoolInv, WhatFails, LostWakeup, Stuck, Early
<1>9. Blame' /\ Joined'
  BY <1>1, <1>3, Threads, Start DEF PoolInv, Blame, Joined, TypeOK
<1> QED
  BY <1>5, <1>6, <1>7, <1>8, <1>9 DEF PoolInv, HandlesOK, WhatFails

\* Nobody could run: a thread whose call has returned can.
LEMMA PollStep ==
  ASSUME PoolInv, NEW t \in Thread, Poll(t)
  PROVE  PoolInv'
<1>1. /\ runq = <<>> /\ fault = "none" /\ th[t] \in {"poll", "io"}
      /\ th' = [th EXCEPT ![t] = "ready"] /\ runq' = <<t>>
      /\ UNCHANGED <<is_close, idle, use, process, sock, freed, stop, state, early, byC, fault>>
  BY DEF Poll
<1>2. /\ th' \in ThType /\ th'[t] = "ready" /\ \A u \in Thread \ {t} : th'[u] = th[u]
  BY <1>1, Start DEF ThType
<1>3. runq' \in Seq(Thread) /\ Once(runq') /\ \A u : In(u, runq') <=> u = t
  BY <1>1 DEF Once, In
<1>4. \A u \in Thread : th[u] \notin CanRun
  BY <1>1, Start DEF RunQueueOK, CanRun
<1>5. RunQueueOK'
  BY <1>2, <1>3, <1>4 DEF RunQueueOK, Once, In, CanRun
<1> QED
  BY <1>1, <1>2, <1>3, <1>5, SwitchKeeps, Threads, Start

\* Other processes send, or store the flag: no thread of this one moves.
LEMMA OutsideStep ==
  ASSUME PoolInv,
         \/ SendA \/ StopStore \/ StopSend \/ UNCHANGED vars
  PROVE  PoolInv'
<1>1. /\ UNCHANGED <<idle, use, process, th, runq, freed, state, early, byC, fault>>
      /\ is_close => is_close'
      /\ is_close' \in BOOLEAN
      /\ stop' \in {"no", "send", "sent"}
  <2>1. CASE SendA
    BY <2>1, Start DEF SendA
  <2>2. CASE StopStore
    BY <2>2, Start DEF StopStore
  <2>3. CASE StopSend
    BY <2>3, Start DEF StopSend
  <2>4. CASE UNCHANGED vars
    BY <2>4, Start DEF vars
  <2> QED
    BY <2>1, <2>2, <2>3, <2>4
<1>2. sock' \in Seq({"A", "C"}) /\ Len(sock') <= SockCap
  BY SockType, Start DEF SendA, StopStore, StopSend, vars
<1>3. TypeOK'
  BY <1>1, <1>2, Start DEF TypeOK
<1>4. RunQueueOK' /\ HandlesKept'
  BY <1>1 DEF PoolInv, HandlesOK, RunQueueOK, HandlesKept
<1>5. LostWakeup' /\ Early' /\ Joined'
  BY <1>1 DEF PoolInv, WhatFails, LostWakeup, Stuck, Early, Joined
<1>6. Blame'
  BY <1>1 DEF PoolInv, WhatFails, Blame
<1> QED
  BY <1>3, <1>4, <1>5, <1>6 DEF PoolInv, HandlesOK, WhatFails

------------------------------------------------------------------------------
(* The theorems.                                                           *)

\* When Run() reaches its loop every thread is queued once.
LEMMA InitInv == Init => PoolInv
<1> SUFFICES ASSUME Init PROVE PoolInv
  OBVIOUS
<1>1. PICK order \in Orders(Handle) : runq = <<"run", "main">> \o order
  BY DEF Init
<1>2. order \in Seq(Handle) /\ Once(order) /\ \A u : In(u, order) <=> u \in Handle
  BY OrderOf
<1>3. order \in Seq(Thread)
  BY <1>2 DEF Thread
<1>4. /\ <<"run", "main">> \in Seq(Thread) /\ Once(<<"run", "main">>)
      /\ \A u : In(u, <<"run", "main">>) <=> u \in {"run", "main"}
  BY Threads DEF Once, In
<1>5. /\ runq \in Seq(Thread) /\ Once(runq) /\ \A u : In(u, runq) <=> u \in Thread
  <2>1. \A u : ~(In(u, <<"run", "main">>) /\ In(u, order))
    BY <1>2, <1>4, Threads
  <2>2. Once(runq)
    BY <1>1, <1>2, <1>3, <1>4, <2>1, OnceConcat
  <2>3. runq \in Seq(Thread) /\ \A u : In(u, runq) <=> In(u, <<"run", "main">>) \/ In(u, order)
    BY <1>1, <1>3, <1>4, InConcat
  <2> QED
    BY <1>2, <1>4, <2>2, <2>3 DEF Thread
<1>6. \A t \in Thread : th[t] = IF t = "run" THEN "test" ELSE "new"
  BY DEF Init
<1>7. RunQueueOK
  BY <1>5, <1>6 DEF RunQueueOK, Once, In
<1>8. TypeOK
  <2>1. <<>> \in Seq({"A", "C"}) /\ Len(<<>>) <= SockCap
    BY StPoolAssumption
  <2> QED
    BY <1>5, <2>1 DEF Init, TypeOK
<1>9. HandlesKept
  BY Threads DEF Init, HandlesKept
<1>10. LostWakeup /\ Blame /\ Early /\ Joined
  BY <1>6, Threads DEF Init, LostWakeup, Stuck, Blame, Early, Joined
<1> QED
  BY <1>7, <1>8, <1>9, <1>10 DEF PoolInv, HandlesOK, WhatFails

\* The invariant is inductive.
LEMMA InvStep ==
  ASSUME PoolInv, [Next]_vars
  PROVE  PoolInv'
<1>1. CASE RunThread
  BY <1>1, LoopTestStep, RecvAStep, RecvCStep, AcceptFdStep, NoAcceptStep, JoinStep DEF RunThread
<1>2. CASE MainDo \/ MainDone
  BY <1>2, MainDoStep, MainDoneStep
<1>3. CASE \E h \in Handle : HandleThread(h)
  BY <1>3, DoRunStep, ProcessStep, ProcessDoneStep DEF HandleThread
<1>4. CASE \E t \in Thread : Poll(t)
  BY <1>4, PollStep
<1>5. CASE SendA \/ StopStore \/ StopSend \/ UNCHANGED vars
  BY <1>5, OutsideStep
<1> QED
  BY <1>1, <1>2, <1>3, <1>4, <1>5 DEF Next

\* The run queue, the handles and what Run() has joined agree at every switch
\* of threads (stworker.cpp).
THEOREM PoolInvariant == Spec => []PoolInv
  BY InitInv, InvStep, PTL DEF Spec

\* For every number of handles and processes: a thread is in the run queue once
\* exactly when it can run, every handle is idle or in use, and a process that
\* was accepted is held by exactly one handle until it was executed
\* (StartWithThread and DoRun of stworker.cpp).
THEOREM HandlesCorrect == Spec => []HandlesOK
<1>1. PoolInv => HandlesOK
  BY DEF PoolInv
<1> QED
  BY <1>1, PoolInvariant, PTL

\* The pool fails in two ways only: a handle whose thread had not run when it
\* was given a process misses the signal, and a handle that Run() has deleted
\* is used by a process that starts another one while the pool closes.
THEOREM OnlyTheseFail == Spec => []WhatFails
<1>1. PoolInv => WhatFails
  BY DEF PoolInv
<1> QED
  BY <1>1, PoolInvariant, PTL
===============================================================================
