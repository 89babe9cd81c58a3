------------------------ MODULE SysPoolWorker_proofs -------------------------
(***************************************************************************)
(* Proofs about SysPoolWorker, for every set of handles and of processes   *)
(* and every capacity of the socket; and about PoolSocket, the blocking    *)
(* calls its threads make, for every length and every timeout.             *)
(***************************************************************************)
EXTENDS SysPoolWorker, PoolSocket, SequenceTheorems, TLAPS

\* Somebody is about to sem_post h.
Pending(h) == \E c \in Caller : toPost[c] = h

\* The thread of h was woken and has not put its handle back.
Busy(h) == hpc[h] \in {"woken", "free", "return"}

\* Where Run() is tells which threads there are, and which handles.
Phases ==
  /\ lpc = "start" => /\ idle = {} /\ use = {} /\ mpc = "none" /\ ~posted
                      /\ \A h \in Handle : hpc[h] = "none" /\ process[h] = None /\ sem[h] = 0
                      /\ \A c \in Caller : toPost[c] = None
  /\ lpc = "done" => /\ idle = {} /\ mpc = "done"
                     /\ \A h \in Handle : hpc[h] = "exit" /\ process[h] = None
  /\ lpc # "start" => \A h \in Handle : hpc[h] # "none"
  /\ lpc \notin {"start", "done"} => idle \cup use = Handle /\ idle \cap use = {}

\* Run() reads a message only when there is one, and posts the idle handles
\* only after it stored the flag: a thread that looks at is_close_ later ends.
Closing ==
  /\ lpc = "events" /\ "sock" \in ready => sock # <<>>
  /\ lpc = "post" \/ posted => is_close

\* A handle and the process it holds.
Held ==
  /\ \A g, h \in Handle : process[g] = process[h] /\ process[g] # None => g = h
  /\ \A h \in Handle : process[h] # None =>
       /\ state[process[h]] = "started"
       /\ runs[process[h]] = IF hpc[h] = "free" THEN 1 ELSE 0
  /\ \A h \in Handle : hpc[h] = "free" => process[h] # None /\ h \in use

\* Up to PostIdle a handle in use has exactly one wake-up: one that is about
\* to be posted, one its semaphore counts, or one its thread is working on.
\* An idle handle has none.
Wakeups ==
  ~posted =>
    /\ \A h \in Handle :
         /\ h \in idle => process[h] = None /\ sem[h] = 0 /\ ~Pending(h) /\ ~Busy(h)
         /\ Busy(h) => sem[h] = 0 /\ ~Pending(h)
         /\ hpc[h] = "return" => process[h] = None
         /\ Pending(h) => sem[h] = 0
         /\ sem[h] <= 1
    /\ toPost["loop"] = toPost["main"] => toPost["loop"] = None

\* After PostIdle an idle handle whose thread waits, or was woken for nothing,
\* holds no process: a process it is given later is its thread's to execute.
Woken == posted => \A h \in idle : hpc[h] \in {"wait", "woken"} => process[h] = None

\* Until PostIdle no accepted process is lost.
NoneLost == ~posted => StartedHeld

\* The inductive invariant.
PoolInv == TypeOK /\ Phases /\ Closing /\ Held /\ Wakeups /\ Woken /\ RunOnce /\ NoneLost

\* The part about the handles and their processes.
HandleInv == Held /\ Wakeups /\ Woken /\ RunOnce /\ NoneLost

------------------------------------------------------------------------------
(* What several actions share.                                             *)

\* The section of StartWithThread under lock_, in a pool that exists: the
\* handle it takes is idle, so until PostIdle it holds nothing that the new
\* process would be stored over, and its thread is not at work.
LEMMA StartKeeps ==
  ASSUME TypeOK, Phases, HandleInv, lpc \notin {"start", "done"}, lpc' = lpc,
         NEW c \in Caller, NEW p \in Proc, StartWithThread(c, p),
         UNCHANGED <<hpc, posted>>
  PROVE  /\ HandleInv'
         /\ idle' \subseteq Handle /\ use' \subseteq Handle
         /\ process' \in [Handle -> Proc \cup {None}]
         /\ toPost' \in [Caller -> Handle \cup {None}]
         /\ state' \in [Proc -> {"new", "refused", "started", "freed"}]
         /\ UNCHANGED <<sem, runs>>
         /\ idle' \cup use' = Handle /\ idle' \cap use' = {}
<1>1. CASE idle = {} /\ state' = [state EXCEPT ![p] = "refused"]
           /\ UNCHANGED <<idle, use, process, toPost>>
  <2>1. state[p] = "new" /\ UNCHANGED <<sem, runs>>
    BY DEF StartWithThread
  <2>2. Held'
    BY <1>1, <2>1 DEF HandleInv, Held
  <2>3. Wakeups' /\ Woken'
    BY <1>1, <2>1 DEF HandleInv, Wakeups, Woken, Pending, Busy
  <2>4. RunOnce'
    BY <1>1, <2>1 DEF HandleInv, RunOnce
  <2>5. NoneLost'
    BY <1>1, <2>1 DEF HandleInv, NoneLost, StartedHeld
  <2> QED
    BY <1>1, <2>1, <2>2, <2>3, <2>4, <2>5 DEF HandleInv, TypeOK, Phases
<1>2. ASSUME NEW h \in idle,
             process' = [process EXCEPT ![h] = p],
             idle' = idle \ {h},
             use' = use \cup {h},
             state' = [state EXCEPT ![p] = "started"],
             toPost' = [toPost EXCEPT ![c] = h]
      PROVE  HandleInv' /\ idle' \cup use' = Handle /\ idle' \cap use' = {}
  <2>1. state[p] = "new" /\ toPost[c] = None /\ UNCHANGED <<sem, runs>>
    BY DEF StartWithThread
  <2>2. h \in Handle /\ h \notin use /\ hpc[h] # "free" /\ None \notin Handle /\ p # None
    BY PoolAssumption DEF Phases, HandleInv, Held
  <2>3. \A g \in Handle : process[g] # p
    BY <2>1, <2>2 DEF HandleInv, Held
  <2>4. runs[p] = 0
    BY <2>1 DEF HandleInv, RunOnce
  <2>5. Held'
    BY <1>2, <2>1, <2>2, <2>3, <2>4 DEF HandleInv, Held, TypeOK
  <2>6. Wakeups'
    BY <1>2, <2>1, <2>2 DEF HandleInv, Wakeups, Pending, Busy, Caller
  <2>7. Woken'
    BY <1>2, <2>2 DEF HandleInv, Woken
  <2>8. RunOnce'
    BY <1>2, <2>1, <2>4 DEF HandleInv, RunOnce
  <2>9. NoneLost'
    <3>1. ~posted => process[h] = None
      BY <2>2 DEF HandleInv, Wakeups
    <3>2. ASSUME ~posted, NEW q \in Proc, state'[q] = "started", q # p
          PROVE  \E g \in Handle : process'[g] = q
      <4>1. PICK g \in Handle : process[g] = q
        BY <3>2, <1>2 DEF HandleInv, NoneLost, StartedHeld
      <4>2. g # h
        BY <3>1, <3>2, <4>1, PoolAssumption
      <4> QED
        BY <1>2, <4>1, <4>2
    <3>3. process'[h] = p
      BY <1>2, <2>2 DEF TypeOK
    <3> QED
      BY <2>2, <3>2, <3>3 DEF NoneLost, StartedHeld
  <2> QED
    BY <1>2, <2>5, <2>6, <2>7, <2>8, <2>9 DEF HandleInv, Phases
<1>3. HandleInv' /\ idle' \cup use' = Handle /\ idle' \cap use' = {}
  <2>1. CASE idle = {} /\ state' = [state EXCEPT ![p] = "refused"]
             /\ UNCHANGED <<idle, use, process, toPost>>
    BY <1>1, <2>1
  <2>2. CASE \E h \in idle : /\ process' = [process EXCEPT ![h] = p]
                             /\ idle' = idle \ {h}
                             /\ use' = use \cup {h}
                             /\ state' = [state EXCEPT ![p] = "started"]
                             /\ toPost' = [toPost EXCEPT ![c] = h]
    BY <1>2, <2>2
  <2> QED
    BY <2>1, <2>2 DEF StartWithThread
<1>4. /\ idle' \subseteq Handle /\ use' \subseteq Handle
      /\ process' \in [Handle -> Proc \cup {None}]
      /\ toPost' \in [Caller -> Handle \cup {None}]
      /\ state' \in [Proc -> {"new", "refused", "started", "freed"}]
  <2>1. CASE UNCHANGED <<idle, use, process, toPost>> /\ state' = [state EXCEPT ![p] = "refused"]
    BY <2>1 DEF TypeOK
  <2>2. ASSUME NEW h \in idle,
               process' = [process EXCEPT ![h] = p],
               idle' = idle \ {h},
               use' = use \cup {h},
               state' = [state EXCEPT ![p] = "started"],
               toPost' = [toPost EXCEPT ![c] = h]
        PROVE  /\ idle' \subseteq Handle /\ use' \subseteq Handle
               /\ process' \in [Handle -> Proc \cup {None}]
               /\ toPost' \in [Caller -> Handle \cup {None}]
               /\ state' \in [Proc -> {"new", "refused", "started", "freed"}]
    BY <2>2 DEF TypeOK
  <2> QED
    BY <2>1, <2>2 DEF StartWithThread
<1> QED
  BY <1>3, <1>4 DEF StartWithThread

\* A step of Run() or of the master that touches no handle.
LEMMA OtherKeeps ==
  ASSUME HandleInv, UNCHANGED <<poolVars, hpc, posted>>, lpc = "done" => lpc' = "done"
  PROVE  HandleInv'
<1>1. Held'
  BY DEF HandleInv, Held, poolVars
<1>2. Wakeups' /\ Woken'
  BY DEF HandleInv, Wakeups, Woken, Pending, Busy, poolVars
<1>3. RunOnce'
  BY DEF HandleInv, RunOnce, poolVars
<1>4. NoneLost'
  BY DEF HandleInv, NoneLost, StartedHeld, poolVars
<1> QED
  BY <1>1, <1>2, <1>3, <1>4 DEF HandleInv

------------------------------------------------------------------------------
(* Run(): one lemma per action.                                            *)

\* Run() looks at the flag: no handle changes.
LEMMA LoopTestStep ==
  ASSUME PoolInv, LoopTest
  PROVE  PoolInv'
<1>1. TypeOK'
  BY DEF PoolInv, TypeOK, LoopTest, poolVars
<1>2. Phases'
  BY DEF PoolInv, Phases, LoopTest, poolVars
<1>3. Closing'
  BY DEF PoolInv, Closing, LoopTest
<1>4. HandleInv'
  <2>1. UNCHANGED <<poolVars, hpc, posted>> /\ (lpc = "done" => lpc' = "done")
    BY DEF LoopTest
  <2> QED
    BY <2>1, OtherKeeps DEF PoolInv, HandleInv
<1> QED
  BY <1>1, <1>2, <1>3, <1>4 DEF PoolInv, HandleInv

\* epoll_wait reports the socket only when a message waits there.
LEMMA EpollWaitStep ==
  ASSUME PoolInv, EpollWait
  PROVE  PoolInv'
<1>1. TypeOK'
  BY DEF PoolInv, TypeOK, EpollWait, poolVars
<1>2. Phases'
  BY DEF PoolInv, Phases, EpollWait, poolVars
<1>3. Closing'
  BY DEF PoolInv, Closing, EpollWait
<1>4. HandleInv'
  <2>1. UNCHANGED <<poolVars, hpc, posted>> /\ (lpc = "done" => lpc' = "done")
    BY DEF EpollWait
  <2> QED
    BY <2>1, OtherKeeps DEF PoolInv, HandleInv
<1> QED
  BY <1>1, <1>2, <1>3, <1>4 DEF PoolInv, HandleInv

\* Back to the test of the loop.
LEMMA EventsDoneStep ==
  ASSUME PoolInv, EventsDone
  PROVE  PoolInv'
<1>1. TypeOK'
  BY DEF PoolInv, TypeOK, EventsDone, poolVars
<1>2. Phases'
  BY DEF PoolInv, Phases, EventsDone, poolVars
<1>3. Closing'
  BY DEF PoolInv, Closing, EventsDone
<1>4. HandleInv'
  <2>1. UNCHANGED <<poolVars, hpc, posted>> /\ (lpc = "done" => lpc' = "done")
    BY DEF EventsDone
  <2> QED
    BY <2>1, OtherKeeps DEF PoolInv, HandleInv
<1> QED
  BY <1>1, <1>2, <1>3, <1>4 DEF PoolInv, HandleInv

\* 'C' stores the flag before the idle handles are posted.
LEMMA RecvCStep ==
  ASSUME PoolInv, RecvC
  PROVE  PoolInv'
<1>1. TypeOK'
  <2>1. sock \in Seq({"A", "C"}) /\ sock # <<>>
    BY DEF PoolInv, TypeOK, Closing, RecvC
  <2>2. Tail(sock) \in Seq({"A", "C"})
    BY <2>1
  <2> QED
    BY <2>2 DEF PoolInv, TypeOK, RecvC, poolVars
<1>2. Phases'
  BY DEF PoolInv, Phases, RecvC, poolVars
<1>3. Closing'
  BY DEF PoolInv, Closing, RecvC
<1>4. HandleInv'
  <2>1. UNCHANGED <<poolVars, hpc, posted>> /\ (lpc = "done" => lpc' = "done")
    BY DEF RecvC
  <2> QED
    BY <2>1, OtherKeeps DEF PoolInv, HandleInv
<1> QED
  BY <1>1, <1>2, <1>3, <1>4 DEF PoolInv, HandleInv

\* MainDo() returns.
LEMMA MainDoneStep ==
  ASSUME PoolInv, MainDone
  PROVE  PoolInv'
<1>1. TypeOK'
  BY DEF PoolInv, TypeOK, MainDone, poolVars, loopVars
<1>2. Phases'
  BY DEF PoolInv, Phases, MainDone, poolVars, loopVars
<1>3. Closing'
  BY DEF PoolInv, Closing, MainDone, loopVars
<1>4. HandleInv'
  <2>1. UNCHANGED <<poolVars, hpc, posted>> /\ (lpc = "done" => lpc' = "done")
    BY DEF MainDone, loopVars
  <2> QED
    BY <2>1, OtherKeeps DEF PoolInv, HandleInv
<1> QED
  BY <1>1, <1>2, <1>3, <1>4 DEF PoolInv, HandleInv

\* A message more waits at the socket.
LEMMA SendAStep ==
  ASSUME PoolInv, SendA
  PROVE  PoolInv'
<1>1. TypeOK'
  BY DEF PoolInv, TypeOK, SendA, poolVars, loopVars
<1>2. Phases'
  BY DEF PoolInv, Phases, SendA, poolVars, loopVars
<1>3. Closing'
  BY DEF PoolInv, Closing, SendA, poolVars, loopVars
<1>4. HandleInv'
  <2>1. UNCHANGED <<poolVars, hpc, posted>> /\ (lpc = "done" => lpc' = "done")
    BY DEF SendA, loopVars
  <2> QED
    BY <2>1, OtherKeeps DEF PoolInv, HandleInv
<1> QED
  BY <1>1, <1>2, <1>3, <1>4 DEF PoolInv, HandleInv

\* The master stores the flag, which is never cleared.
LEMMA StopStoreStep ==
  ASSUME PoolInv, StopStore
  PROVE  PoolInv'
<1>1. TypeOK'
  BY DEF PoolInv, TypeOK, StopStore, poolVars, loopVars
<1>2. Phases'
  BY DEF PoolInv, Phases, StopStore, poolVars, loopVars
<1>3. Closing'
  BY DEF PoolInv, Closing, StopStore, loopVars
<1>4. HandleInv'
  <2>1. UNCHANGED <<poolVars, hpc, posted>> /\ (lpc = "done" => lpc' = "done")
    BY DEF StopStore, loopVars
  <2> QED
    BY <2>1, OtherKeeps DEF PoolInv, HandleInv
<1> QED
  BY <1>1, <1>2, <1>3, <1>4 DEF PoolInv, HandleInv

\* The master sends 'C', or fails to.
LEMMA StopSendStep ==
  ASSUME PoolInv, StopSend
  PROVE  PoolInv'
<1>1. TypeOK'
  <2>1. sock' \in Seq({"A", "C"})
    <3>1. sock \in Seq({"A", "C"})
      BY DEF PoolInv, TypeOK
    <3>2. Append(sock, "C") \in Seq({"A", "C"})
      BY <3>1
    <3> QED
      BY <3>1, <3>2 DEF StopSend
  <2> QED
    BY <2>1 DEF PoolInv, TypeOK, StopSend, poolVars, loopVars
<1>2. Phases'
  BY DEF PoolInv, Phases, StopSend, poolVars, loopVars
<1>3. Closing'
  BY DEF PoolInv, Closing, StopSend, loopVars
<1>4. HandleInv'
  <2>1. UNCHANGED <<poolVars, hpc, posted>> /\ (lpc = "done" => lpc' = "done")
    BY DEF StopSend, loopVars
  <2> QED
    BY <2>1, OtherKeeps DEF PoolInv, HandleInv
<1> QED
  BY <1>1, <1>2, <1>3, <1>4 DEF PoolInv, HandleInv

\* An accepted connection may start a process.
LEMMA AcceptFdStep ==
  ASSUME PoolInv, AcceptFd
  PROVE  PoolInv'
<1>1. lpc \notin {"start", "done"} /\ lpc' = lpc /\ UNCHANGED <<hpc, posted>>
  BY DEF AcceptFd, PoolInv, Phases
<1>2. CASE \E p \in Proc : StartWithThread("loop", p)
  <2>1. PICK p \in Proc : StartWithThread("loop", p)
    BY <1>2
  <2>2. "loop" \in Caller
    BY DEF Caller
  <2>3. /\ HandleInv'
        /\ idle' \subseteq Handle /\ use' \subseteq Handle
        /\ process' \in [Handle -> Proc \cup {None}]
        /\ toPost' \in [Caller -> Handle \cup {None}]
        /\ state' \in [Proc -> {"new", "refused", "started", "freed"}]
        /\ UNCHANGED <<sem, runs>>
        /\ idle' \cup use' = Handle /\ idle' \cap use' = {}
    BY <1>1, <2>1, <2>2, StartKeeps DEF PoolInv, HandleInv
  <2>4. TypeOK'
    BY <1>1, <2>3 DEF PoolInv, TypeOK, Closing, AcceptFd
  <2>5. Phases' /\ Closing'
    BY <1>1, <2>3 DEF PoolInv, Phases, Closing, AcceptFd
  <2> QED
    BY <2>3, <2>4, <2>5 DEF PoolInv, HandleInv
<1>3. CASE UNCHANGED poolVars
  <2>1. HandleInv'
    BY <1>1, <1>3, OtherKeeps DEF PoolInv, HandleInv
  <2>2. TypeOK'
    BY <1>1, <1>3 DEF PoolInv, TypeOK, Closing, AcceptFd, poolVars
  <2>3. Phases' /\ Closing'
    BY <1>1, <1>3 DEF PoolInv, Phases, Closing, AcceptFd, poolVars
  <2> QED
    BY <2>1, <2>2, <2>3 DEF PoolInv, HandleInv
<1> QED
  BY <1>2, <1>3 DEF AcceptFd

\* A descriptor received may start a process; recvmsg took a message.
LEMMA RecvAStep ==
  ASSUME PoolInv, RecvA
  PROVE  PoolInv'
<1>1. lpc \notin {"start", "done"} /\ lpc' = lpc /\ UNCHANGED <<hpc, posted>>
  BY DEF RecvA, PoolInv, Phases
<1>2. CASE \E p \in Proc : StartWithThread("loop", p)
  <2>1. PICK p \in Proc : StartWithThread("loop", p)
    BY <1>2
  <2>2. "loop" \in Caller
    BY DEF Caller
  <2>3. /\ HandleInv'
        /\ idle' \subseteq Handle /\ use' \subseteq Handle
        /\ process' \in [Handle -> Proc \cup {None}]
        /\ toPost' \in [Caller -> Handle \cup {None}]
        /\ state' \in [Proc -> {"new", "refused", "started", "freed"}]
        /\ UNCHANGED <<sem, runs>>
        /\ idle' \cup use' = Handle /\ idle' \cap use' = {}
    BY <1>1, <2>1, <2>2, StartKeeps DEF PoolInv, HandleInv
  <2>4. TypeOK'
    BY <1>1, <2>3 DEF PoolInv, TypeOK, Closing, RecvA
  <2>5. Phases' /\ Closing'
    BY <1>1, <2>3 DEF PoolInv, Phases, Closing, RecvA
  <2> QED
    BY <2>3, <2>4, <2>5 DEF PoolInv, HandleInv
<1>3. CASE UNCHANGED poolVars
  <2>1. HandleInv'
    BY <1>1, <1>3, OtherKeeps DEF PoolInv, HandleInv
  <2>2. TypeOK'
    BY <1>1, <1>3 DEF PoolInv, TypeOK, Closing, RecvA, poolVars
  <2>3. Phases' /\ Closing'
    BY <1>1, <1>3 DEF PoolInv, Phases, Closing, RecvA, poolVars
  <2> QED
    BY <2>1, <2>2, <2>3 DEF PoolInv, HandleInv
<1> QED
  BY <1>2, <1>3 DEF RecvA

\* MainDo() starts a process.
LEMMA MainStartStep ==
  ASSUME PoolInv, MainStart
  PROVE  PoolInv'
<1>1. lpc \notin {"start", "done"} /\ lpc' = lpc /\ UNCHANGED <<hpc, posted>>
  BY DEF MainStart, PoolInv, Phases, loopVars
<1>2. CASE \E p \in Proc : StartWithThread("main", p)
  <2>1. PICK p \in Proc : StartWithThread("main", p)
    BY <1>2
  <2>2. "main" \in Caller
    BY DEF Caller
  <2>3. /\ HandleInv'
        /\ idle' \subseteq Handle /\ use' \subseteq Handle
        /\ process' \in [Handle -> Proc \cup {None}]
        /\ toPost' \in [Caller -> Handle \cup {None}]
        /\ state' \in [Proc -> {"new", "refused", "started", "freed"}]
        /\ UNCHANGED <<sem, runs>>
        /\ idle' \cup use' = Handle /\ idle' \cap use' = {}
    BY <1>1, <2>1, <2>2, StartKeeps DEF PoolInv, HandleInv
  <2>4. TypeOK'
    BY <1>1, <2>3 DEF PoolInv, TypeOK, Closing, MainStart, loopVars
  <2>5. Phases' /\ Closing'
    BY <1>1, <2>3 DEF PoolInv, Phases, Closing, MainStart, loopVars
  <2> QED
    BY <2>3, <2>4, <2>5 DEF PoolInv, HandleInv
<1>3. CASE UNCHANGED poolVars
  <2>1. HandleInv'
    BY <1>1, <1>3, OtherKeeps DEF PoolInv, HandleInv
  <2>2. TypeOK'
    BY <1>1, <1>3 DEF PoolInv, TypeOK, Closing, MainStart, poolVars, loopVars
  <2>3. Phases' /\ Closing'
    BY <1>1, <1>3 DEF PoolInv, Phases, Closing, MainStart, poolVars, loopVars
  <2> QED
    BY <2>1, <2>2, <2>3 DEF PoolInv, HandleInv
<1> QED
  BY <1>2, <1>3 DEF MainStart

\* Run() builds the pool: every handle is idle and has a thread.
LEMMA SetupStep ==
  ASSUME PoolInv, Setup
  PROVE  PoolInv'
<1>1. TypeOK'
  BY DEF PoolInv, TypeOK, Setup
<1>2. Phases'
  BY DEF PoolInv, Phases, Setup
<1>3. Closing'
  BY DEF PoolInv, Closing, Setup
<1>4. Held'
  BY DEF PoolInv, Held, Phases, Setup
<1>5. Wakeups'
  <2>1. \A h \in Handle : process[h] = None /\ sem[h] = 0 /\ ~Pending(h)
    BY PoolAssumption DEF PoolInv, Phases, Setup, Pending
  <2>2. toPost["loop"] = None
    BY DEF PoolInv, Phases, Setup, Caller
  <2> QED
    BY <2>1, <2>2 DEF Wakeups, Pending, Busy, Setup
<1>6. Woken'
  BY DEF PoolInv, Woken, Setup
<1>7. RunOnce'
  BY DEF PoolInv, RunOnce, Setup
<1>8. NoneLost'
  BY DEF PoolInv, NoneLost, StartedHeld, Setup
<1> QED
  BY <1>1, <1>2, <1>3, <1>4, <1>5, <1>6, <1>7, <1>8 DEF PoolInv

\* From here on an idle handle may be woken for nothing.
LEMMA PostIdleStep ==
  ASSUME PoolInv, PostIdle
  PROVE  PoolInv'
<1>1. TypeOK'
  BY DEF PoolInv, TypeOK, PostIdle
<1>2. Phases'
  BY DEF PoolInv, Phases, PostIdle
<1>3. Closing'
  BY DEF PoolInv, Closing, PostIdle
<1>4. Held'
  BY DEF PoolInv, Held, PostIdle
<1>5. Wakeups'
  BY DEF PoolInv, Wakeups, Pending, Busy, PostIdle
<1>6. Woken'
  BY DEF PoolInv, Woken, Wakeups, TypeOK, PostIdle
<1>7. RunOnce'
  BY DEF PoolInv, RunOnce, PostIdle
<1>8. NoneLost'
  BY DEF PoolInv, NoneLost, StartedHeld, PostIdle
<1> QED
  BY <1>1, <1>2, <1>3, <1>4, <1>5, <1>6, <1>7, <1>8 DEF PoolInv

\* Every thread has ended: what the handles hold is freed.
LEMMA JoinAllStep ==
  ASSUME PoolInv, JoinAll
  PROVE  PoolInv'
<1>1. TypeOK'
  BY DEF PoolInv, TypeOK, JoinAll
<1>2. Phases'
  BY DEF PoolInv, Phases, JoinAll
<1>3. Closing'
  BY DEF PoolInv, Closing, JoinAll
<1>4. Held'
  BY DEF PoolInv, Held, JoinAll
<1>5. Wakeups'
  BY DEF PoolInv, Wakeups, Pending, Busy, JoinAll
<1>6. Woken'
  BY DEF PoolInv, Woken, JoinAll
<1>7. RunOnce'
  BY DEF PoolInv, RunOnce, JoinAll
<1>8. NoneLost'
  BY DEF PoolInv, NoneLost, StartedHeld, JoinAll
<1> QED
  BY <1>1, <1>2, <1>3, <1>4, <1>5, <1>6, <1>7, <1>8 DEF PoolInv

\* The wake-up that was pending is now counted by the semaphore.
LEMMA SemPostStep ==
  ASSUME PoolInv, NEW c \in Caller, SemPost(c)
  PROVE  PoolInv'
<1>1. TypeOK'
  BY DEF PoolInv, TypeOK, SemPost, loopVars, Caller
<1>2. Phases'
  BY DEF PoolInv, Phases, SemPost, loopVars, Caller
<1>3. Closing'
  BY DEF PoolInv, Closing, SemPost, loopVars, Caller
<1>4. Held'
  BY DEF PoolInv, Held, SemPost, Caller
<1>5. Wakeups'
  BY PoolAssumption DEF PoolInv, Wakeups, TypeOK, Pending, Busy, SemPost, loopVars, Caller
<1>6. Woken'
  BY DEF PoolInv, Woken, SemPost, loopVars, Caller
<1>7. RunOnce'
  BY DEF PoolInv, RunOnce, SemPost, loopVars, Caller
<1>8. NoneLost'
  BY DEF PoolInv, NoneLost, StartedHeld, SemPost, loopVars, Caller
<1> QED
  BY <1>1, <1>2, <1>3, <1>4, <1>5, <1>6, <1>7, <1>8 DEF PoolInv

\* A thread that looks at the flag after PostIdle ends.
LEMMA DoRunTestStep ==
  ASSUME PoolInv, NEW h \in Handle, DoRunTest(h)
  PROVE  PoolInv'
<1>1. TypeOK'
  BY DEF PoolInv, TypeOK, DoRunTest, poolVars, loopVars
<1>2. Phases'
  BY DEF PoolInv, Phases, DoRunTest, poolVars, loopVars
<1>3. Closing'
  BY DEF PoolInv, Closing, DoRunTest, loopVars
<1>4. Held'
  BY DEF PoolInv, Held, DoRunTest, poolVars
<1>5. Wakeups'
  BY DEF PoolInv, Wakeups, Pending, Busy, DoRunTest, poolVars, loopVars
<1>6. Woken'
  BY DEF PoolInv, Woken, Closing, DoRunTest, poolVars, loopVars
<1>7. RunOnce'
  BY DEF PoolInv, RunOnce, DoRunTest, poolVars, loopVars
<1>8. NoneLost'
  BY DEF PoolInv, NoneLost, StartedHeld, DoRunTest, poolVars, loopVars
<1> QED
  BY <1>1, <1>2, <1>3, <1>4, <1>5, <1>6, <1>7, <1>8 DEF PoolInv

\* The thread takes its one wake-up.
LEMMA SemWaitStep ==
  ASSUME PoolInv, NEW h \in Handle, SemWait(h)
  PROVE  PoolInv'
<1>1. TypeOK'
  BY DEF PoolInv, TypeOK, SemWait, loopVars
<1>2. Phases'
  BY DEF PoolInv, Phases, SemWait, loopVars
<1>3. Closing'
  BY DEF PoolInv, Closing, SemWait, loopVars
<1>4. Held'
  BY DEF PoolInv, Held, SemWait
<1>5. Wakeups'
  BY DEF PoolInv, Wakeups, TypeOK, Pending, Busy, SemWait, loopVars
<1>6. Woken'
  BY DEF PoolInv, Woken, SemWait, loopVars
<1>7. RunOnce'
  BY DEF PoolInv, RunOnce, SemWait, loopVars
<1>8. NoneLost'
  BY DEF PoolInv, NoneLost, StartedHeld, SemWait, loopVars
<1> QED
  BY <1>1, <1>2, <1>3, <1>4, <1>5, <1>6, <1>7, <1>8 DEF PoolInv

\* The process the thread finds was not executed before.
LEMMA ExecuteStep ==
  ASSUME PoolInv, NEW h \in Handle, Execute(h)
  PROVE  PoolInv'
<1>1. CASE process[h] = None
  <2>1. /\ hpc[h] = "woken" /\ hpc' = [hpc EXCEPT ![h] = "return"]
        /\ UNCHANGED <<is_close, poolVars, loopVars, sock, mpc, stop>>
    BY <1>1 DEF Execute, poolVars
  <2>2. TypeOK'
    BY <2>1 DEF PoolInv, TypeOK, poolVars, loopVars
  <2>3. Phases' /\ Closing'
    BY <2>1 DEF PoolInv, Phases, Closing, poolVars, loopVars
  <2>4. Held'
    BY <2>1 DEF PoolInv, Held, poolVars
  <2>5. Wakeups' /\ Woken'
    BY <1>1, <2>1 DEF PoolInv, Wakeups, Woken, Pending, Busy, poolVars, loopVars
  <2>6. RunOnce' /\ NoneLost'
    BY <2>1 DEF PoolInv, RunOnce, NoneLost, StartedHeld, poolVars, loopVars
  <2> QED
    BY <2>2, <2>3, <2>4, <2>5, <2>6 DEF PoolInv
<1>2. CASE process[h] # None
  <2> DEFINE p == process[h]
  <2>1. /\ hpc[h] = "woken" /\ hpc' = [hpc EXCEPT ![h] = "free"]
        /\ runs' = [runs EXCEPT ![p] = @ + 1]
        /\ UNCHANGED <<is_close, idle, use, process, sem, toPost, state, loopVars, sock, mpc, stop>>
    BY <1>2 DEF Execute
  <2>2. p \in Proc /\ runs[p] = 0 /\ state[p] = "started"
    BY <1>2, <2>1 DEF PoolInv, Held, TypeOK
  <2>3. runs' = [runs EXCEPT ![p] = 1]
    BY <2>1, <2>2
  <2> HIDE DEF p
  <2>4. h \in use
    <3>1. h \notin idle
      BY <1>2, <2>1 DEF PoolInv, Wakeups, Woken, Busy
    <3>2. lpc \notin {"start", "done"}
      BY <2>1 DEF PoolInv, Phases
    <3> QED
      BY <3>1, <3>2 DEF PoolInv, Phases
  <2>5. TypeOK'
    BY <2>1, <2>2, <2>3 DEF PoolInv, TypeOK, loopVars
  <2>6. Phases' /\ Closing'
    BY <2>1 DEF PoolInv, Phases, Closing, loopVars
  <2>7. Held'
    <3>1. \A g \in Handle \ {h} : process[g] # p
      BY <1>2 DEF PoolInv, Held, p
    <3>2. runs'[p] = 1 /\ hpc'[h] = "free" /\ process[h] = p
      BY <2>1, <2>2, <2>3 DEF PoolInv, TypeOK, p
    <3>3. \A g \in Handle \ {h} : /\ hpc'[g] = hpc[g]
                                  /\ process[g] # None => runs'[process[g]] = runs[process[g]]
      BY <2>1, <2>3, <3>1 DEF PoolInv
    <3> QED
      BY <1>2, <2>1, <2>4, <3>1, <3>2, <3>3 DEF PoolInv, Held
  <2>8. Wakeups' /\ Woken'
    BY <2>1 DEF PoolInv, Wakeups, Woken, Pending, Busy, loopVars
  <2>9. RunOnce' /\ NoneLost'
    BY <2>1, <2>2, <2>3 DEF PoolInv, RunOnce, NoneLost, StartedHeld, loopVars
  <2> QED
    BY <2>5, <2>6, <2>7, <2>8, <2>9 DEF PoolInv
<1> QED
  BY <1>1, <1>2

\* The process was executed, and only this handle held it.
LEMMA FreeProcessStep ==
  ASSUME PoolInv, NEW h \in Handle, FreeProcess(h)
  PROVE  PoolInv'
<1>1. TypeOK'
  BY DEF PoolInv, TypeOK, FreeProcess, loopVars
<1>2. Phases'
  BY DEF PoolInv, Phases, FreeProcess, loopVars
<1>3. Closing'
  BY DEF PoolInv, Closing, FreeProcess, loopVars
<1>4. Held'
  BY DEF PoolInv, Held, TypeOK, FreeProcess
<1>5. Wakeups'
  BY DEF PoolInv, Wakeups, TypeOK, Pending, Busy, FreeProcess, loopVars
<1>6. Woken'
  BY DEF PoolInv, Woken, FreeProcess, loopVars
<1>7. RunOnce'
  <2>1. process[h] \in Proc /\ runs[process[h]] = 1 /\ state[process[h]] = "started"
    BY DEF PoolInv, Held, TypeOK, FreeProcess
  <2> QED
    BY <2>1 DEF PoolInv, RunOnce, FreeProcess, loopVars
<1>8. NoneLost'
  BY DEF PoolInv, NoneLost, StartedHeld, TypeOK, FreeProcess, loopVars
<1> QED
  BY <1>1, <1>2, <1>3, <1>4, <1>5, <1>6, <1>7, <1>8 DEF PoolInv

\* The handle is idle again.
LEMMA ReturnHandleStep ==
  ASSUME PoolInv, NEW h \in Handle, ReturnHandle(h)
  PROVE  PoolInv'
<1>1. TypeOK'
  BY DEF PoolInv, TypeOK, ReturnHandle, loopVars
<1>2. Phases'
  BY DEF PoolInv, Phases, ReturnHandle, loopVars
<1>3. Closing'
  BY DEF PoolInv, Closing, ReturnHandle, loopVars
<1>4. Held'
  BY DEF PoolInv, Held, ReturnHandle
<1>5. Wakeups'
  BY DEF PoolInv, Wakeups, TypeOK, Pending, Busy, ReturnHandle, loopVars
<1>6. Woken'
  BY DEF PoolInv, Woken, ReturnHandle, loopVars
<1>7. RunOnce'
  BY DEF PoolInv, RunOnce, ReturnHandle, loopVars
<1>8. NoneLost'
  BY DEF PoolInv, NoneLost, StartedHeld, ReturnHandle, loopVars
<1> QED
  BY <1>1, <1>2, <1>3, <1>4, <1>5, <1>6, <1>7, <1>8 DEF PoolInv

------------------------------------------------------------------------------
(* The theorems.                                                           *)

\* Before Run() nothing is held and nobody waits.
LEMMA InitInv == Init => PoolInv
<1> SUFFICES ASSUME Init PROVE PoolInv
  OBVIOUS
<1>1. TypeOK /\ Phases /\ Closing
  <2>1. <<>> \in Seq({"A", "C"})
    OBVIOUS
  <2> QED
    BY <2>1 DEF Init, TypeOK, Phases, Closing
<1>2. Held /\ Wakeups /\ Woken
  BY DEF Init, Held, Wakeups, Woken, Pending, Busy, Caller
<1>3. RunOnce /\ NoneLost
  BY DEF Init, RunOnce, NoneLost, StartedHeld
<1> QED
  BY <1>1, <1>2, <1>3 DEF PoolInv

\* The invariant is inductive.
LEMMA InvStep ==
  ASSUME PoolInv, [Next]_vars
  PROVE  PoolInv'
<1>1. CASE LoopThread
  BY <1>1, SetupStep, LoopTestStep, EpollWaitStep, AcceptFdStep, RecvAStep, RecvCStep, PostIdleStep, EventsDoneStep, JoinAllStep
     DEF LoopThread
<1>2. CASE \E c \in Caller : SemPost(c)
  BY <1>2, SemPostStep
<1>3. CASE MainStart \/ MainDone
  BY <1>3, MainStartStep, MainDoneStep
<1>4. CASE \E h \in Handle : HandleThread(h)
  BY <1>4, DoRunTestStep, SemWaitStep, ExecuteStep, FreeProcessStep, ReturnHandleStep
     DEF HandleThread
<1>5. CASE SendA \/ StopStore \/ StopSend
  BY <1>5, SendAStep, StopStoreStep, StopSendStep
<1>6. CASE UNCHANGED vars
  <2>1. TypeOK' /\ Phases' /\ Closing'
    BY <1>6 DEF PoolInv, TypeOK, Phases, Closing, vars, poolVars, loopVars
  <2>2. HandleInv'
    BY <1>6, OtherKeeps DEF PoolInv, HandleInv, vars, loopVars
  <2> QED
    BY <2>1, <2>2 DEF PoolInv, HandleInv
<1> QED
  BY <1>1, <1>2, <1>3, <1>4, <1>5, <1>6 DEF Next

\* Where a handle's thread is, what its semaphore counts and what the handle
\* holds always agree (Run, StartWithThread, DoRun in sysworker.cpp).
THEOREM PoolInvariant == Spec => []PoolInv
  BY InitInv, InvStep, PTL DEF Spec

\* For every number of handles and of processes, whatever the threads of
\* MainDo(), of Run() and of the handles do: a process StartWithThread accepted
\* is held by one handle until it is freed, is executed at most once, and until
\* the idle handles are posted on 'C' none is lost (sysworker.cpp).
THEOREM ProcessesCorrect == Spec => []ProcessesOK
<1>1. PoolInv => ProcessesOK
  BY DEF PoolInv, ProcessesOK, ProcessOwned, Held, NoneLost
<1> QED
  BY <1>1, PoolInvariant, PTL

\* While the pool exists every handle is idle or in use and never both, and
\* until the idle handles are posted an idle handle holds no process and has no
\* wake-up pending (idle_handles_ and use_handles_ under lock_, sysworker.cpp).
THEOREM HandlesAlwaysKept == Spec => []HandlesKept
<1>1. PoolInv => HandlesKept
  BY DEF PoolInv, HandlesKept, Phases, Wakeups
<1> QED
  BY <1>1, PoolInvariant, PTL

------------------------------------------------------------------------------
(* The blocking calls of a PoolSocket, for any timeouts that are shorter   *)
(* than half of the word they are counted in, or none, and any lengths.    *)

PsCalls == {"idle", "connect", "recv", "recvfrom", "send", "sendto"}

PSTypes ==
  /\ psSocket \in {"none", "open", "closed"} /\ psFd \in {"none", "open", "closed"}
  /\ psErrno \in BOOLEAN /\ psFailed \in BOOLEAN
  /\ psOp \in PsCalls /\ psLen \in Nat /\ psSent \in Nat
  /\ psLimit \in PsTimeouts \cup {0} /\ psWaited \in Nat

\* What is left of a timeout is what was given less what was waited, also on
\* the largest word, which stays one that epoll_wait() takes for ever.
PSCount(limit, waited, timeout) ==
  /\ limit # PsNoTimeout => waited <= limit
  /\ limit = PsNoTimeout => waited <= PsMaxWait
  /\ timeout = limit - waited

\* A receiver or a connect has sent nothing, a datagram is one piece.
PSSending ==
  /\ psWire = Positions(0, psSent)
  /\ psOp \in {"connect", "recv", "recvfrom", "sendto"} => psSent = 0
  /\ psOp = "sendto" => psLen = 1
  /\ psOp = "idle" /\ psRet >= 0 => psSent = 0 \/ psSent = psLen

\* What is watched in each call.
PSWatching ==
  /\ psOp # "idle" => psSocket = "open"
  /\ psSocket = "none" => ~psFailed
  /\ psSocket = "open" =>
       /\ psOp \in {"idle", "recv", "recvfrom"} => psEvents = IF psFailed THEN {"in", "out"} ELSE {"in"}
       /\ psOp \in {"send", "sendto"} => psEvents = {"out"} /\ ~psFailed
       /\ psOp = "connect" => psEvents = {"in", "out"}

\* The socket owns its descriptor.
PSOwner == /\ psSocket = "open" => psFd = "open"
           /\ psSocket = "closed" => psFd = "closed"

\* The inductive invariant.
PSInv ==
  /\ PSTypes /\ PSSending /\ PSWatching /\ PSOwner
  /\ psOp # "idle" => PSCount(psLimit, psWaited, psTimeout)
  /\ psOp = "idle" => PSDeadline
  /\ psRet \in Int

\* The limits are words; one that is a timeout is in the lower half.
LEMMA PsLimits ==
  ASSUME PsAssumption, NEW t \in PsTimeouts \cup {0}
  PROVE  /\ PsMaxWait \in Nat /\ 0 < PsMaxWait /\ PsMaxWait < 32768
         /\ PsNoTimeout = 65535 /\ PsWord \div 2 = 32768 /\ PsWord = 65536
         /\ t \in Nat /\ (t # 65535 => t < 32768)
<1>1. PsNoTimeout = 65535 /\ PsWord \div 2 = 32768 /\ PsWord = 65536
  BY DEF PsWord, PsNoTimeout
<1>2. PsMaxWait \in Nat \ {0} /\ PsMaxWait < PsWord \div 2 /\ PsTimeouts \subseteq (0..(PsMaxWait - 1)) \cup {PsNoTimeout}
  BY DEF PsAssumption
<1>3. PsMaxWait \in Nat /\ 0 < PsMaxWait /\ PsMaxWait < 32768
  BY <1>1, <1>2
<1>4. t \in 0..(PsMaxWait - 1) \/ t = 65535
  <2>1. CASE t = 0
    BY <1>3, <2>1
  <2>2. CASE t \in PsTimeouts
    BY <1>1, <1>2, <2>2
  <2> QED
    BY <2>1, <2>2
<1>5. t \in Nat /\ (t # 65535 => t < 32768)
  BY <1>3, <1>4
<1> QED
  BY <1>1, <1>3, <1>5

\* Nothing is left to take away below a word.
LEMMA BelowWord == ASSUME NEW x \in Nat, x < 65536 PROVE x % 65536 = x
  OBVIOUS

\* Positions continue where they ended.
LEMMA PositionsConcat ==
  ASSUME NEW n \in Nat, NEW k \in Nat
  PROVE  Positions(0, n) \o Positions(n, k) = Positions(0, n + k)
<1> DEFINE p == Positions(0, n)
           r == Positions(n, k)
<1>1. p \in Seq(Nat) /\ Len(p) = n /\ \A i \in 1..n : p[i] = i
  BY DEF Positions
<1>2. r \in Seq(Nat) /\ Len(r) = k /\ \A i \in 1..k : r[i] = n + i
  BY DEF Positions
<1> HIDE DEF p, r
<1>3. /\ p \o r \in Seq(Nat) /\ Len(p \o r) = n + k
      /\ \A i \in 1..(n + k) : (p \o r)[i] = IF i <= n THEN p[i] ELSE r[i - n]
  BY <1>1, <1>2, ConcatProperties
<1>4. \A i \in 1..(n + k) : (p \o r)[i] = i
  BY <1>1, <1>2, <1>3
<1>5. p \o r = [i \in 1..(n + k) |-> i]
  <2>1. \A w \in Seq(Nat) : w = [i \in 1..Len(w) |-> w[i]]
    OBVIOUS
  <2>2. p \o r = [i \in 1..(n + k) |-> (p \o r)[i]]
    BY <1>3, <2>1
  <2> QED
    BY <1>4, <2>2
<1>6. Positions(0, n + k) = [i \in 1..(n + k) |-> i]
  BY DEF Positions
<1> QED
  BY <1>5, <1>6 DEF p, r

\* The empty message, and a first piece.
LEMMA PositionsOf ==
  Positions(0, 0) = << >> /\ Positions(0, 1) = <<1>> /\ \A n \in Nat : Positions(0, n) = << >> <=> n = 0
<1>1. Positions(0, 0) = << >>
  BY DEF Positions
<1>2. Positions(0, 1) = <<1>>
  BY DEF Positions
<1>3. ASSUME NEW n \in Nat, n # 0 PROVE Positions(0, n) # << >>
  <2>1. DOMAIN Positions(0, n) = 1..n /\ 1 \in 1..n
    BY <1>3 DEF Positions
  <2>2. DOMAIN << >> = {}
    OBVIOUS
  <2> QED
    BY <2>1, <2>2
<1> QED
  BY <1>1, <1>2, <1>3

\* The invariant gives the properties.
LEMMA PSHolds == ASSUME PSInv, PsAssumption PROVE PSCorrect
<1>1. PSDeadline
  <2>1. CASE psOp = "idle"
    BY <2>1 DEF PSInv
  <2>2. CASE psOp # "idle"
    BY <2>2 DEF PSInv, PSCount, PSDeadline
  <2> QED
    BY <2>1, <2>2
<1>2. PSSentInOrder
  BY PositionsOf DEF PSInv, PSTypes, PSSending, PSSentInOrder
<1>3. PSWatched
  BY DEF PSInv, PSWatching, PSWatched
<1>4. PSClosedOnce
  BY DEF PSInv, PSTypes, PSOwner, PSClosedOnce
<1> QED
  BY <1>1, <1>2, <1>3, <1>4 DEF PSCorrect

\* What a call that begins sets.
PSBegun(len, timeout) ==
  /\ psSocket = "open" /\ psOp = "idle" /\ psFd = "open" /\ psSocket' = "open" /\ psFd' = "open"
  /\ psLen' = len /\ psTimeout' = timeout /\ psLimit' = timeout /\ psWaited' = 0
  /\ psEvents = IF psFailed THEN {"in", "out"} ELSE {"in"}
  /\ psErrno \in BOOLEAN /\ psFailed \in BOOLEAN /\ psRet \in Int /\ psOp \in PsCalls

LEMMA BeginSets ==
  ASSUME PSInv, PsAssumption, NEW t \in PsTimeouts, NEW len \in Nat, Begin(len, t)
  PROVE  PSBegun(len, t)
  BY DEF Begin, Same, PSBegun, PSInv, PSTypes, PSWatching, PSOwner

\* A call that has begun and waits, or that is over at once.
LEMMA BeginKeeps ==
  ASSUME PSInv, PsAssumption, NEW t \in PsTimeouts, NEW len \in Nat, PSBegun(len, t),
         PSSending', psErrno' \in BOOLEAN, psFailed' \in BOOLEAN, psSent' \in Nat, psRet' \in Int,
         psOp' \in PsCalls, psOp' = "idle" => psRet' # PsTimedOut,
         /\ psOp' \in {"idle", "recv", "recvfrom"} => psEvents' = IF psFailed' THEN {"in", "out"} ELSE {"in"}
         /\ psOp' \in {"send", "sendto"} => psEvents' = {"out"} /\ ~psFailed'
         /\ psOp' = "connect" => psEvents' = {"in", "out"}
  PROVE  PSInv'
<1>1. /\ PsMaxWait \in Nat /\ t \in Nat /\ PsNoTimeout = 65535
  BY PsLimits
<1>2. PSTypes'
  BY DEF PSTypes, PSBegun
<1>3. PSWatching' /\ PSOwner'
  BY DEF PSBegun, PSWatching, PSOwner
<1>4. psLimit' = t /\ psTimeout' = t /\ psWaited' = 0
  BY DEF PSBegun
<1>5. (psOp # "idle" => PSCount(psLimit, psWaited, psTimeout))'
  BY <1>1, <1>4 DEF PSCount
<1>6. (psOp = "idle" => PSDeadline)'
  BY <1>1, <1>4 DEF PSDeadline
<1> QED
  BY <1>2, <1>3, <1>5, <1>6 DEF PSInv

\* What is known when epoll_wait() has come back after d.
PSWoken(d) ==
  /\ psOp \in PsCalls \ {"idle"} /\ psSocket = "open" /\ psSocket' = "open" /\ psFd = "open" /\ psFd' = "open"
  /\ psLen' = psLen /\ psLen \in Nat /\ psLimit' = psLimit /\ psLimit \in PsTimeouts \cup {0}
  /\ psWaited' = psWaited + d /\ psWaited + d \in Nat
  /\ psTimeout \in Nat /\ psTimeout < 65536 /\ d <= psTimeout
  /\ PSCount(psLimit, psWaited + d, psTimeout - d)
  /\ psLimit = PsNoTimeout => d < psTimeout

LEMMA WaitedSets ==
  ASSUME PSInv, PsAssumption, NEW d \in Nat, Waited(d)
  PROVE  PSWoken(d)
<1>1. /\ psOp \in PsCalls \ {"idle"} /\ psSocket = "open" /\ psSocket' = "open" /\ psFd = "open" /\ psFd' = "open"
      /\ psLen' = psLen /\ psLen \in Nat /\ psLimit' = psLimit /\ psLimit \in PsTimeouts \cup {0}
      /\ psWaited' = psWaited + d /\ psWaited \in Nat
  BY DEF PSInv, PSTypes, PSWatching, PSOwner, Waited, Same
<1>2. /\ PsMaxWait \in Nat /\ PsMaxWait < 32768 /\ PsNoTimeout = 65535 /\ PsWord \div 2 = 32768
      /\ psLimit \in Nat /\ (psLimit # 65535 => psLimit < 32768)
  BY <1>1, PsLimits
<1>3. /\ psLimit # 65535 => psWaited <= psLimit
      /\ psLimit = 65535 => psWaited <= PsMaxWait
      /\ psTimeout = psLimit - psWaited
  BY <1>1, <1>2 DEF PSInv, PSCount
<1>4. IF psTimeout >= 32768 THEN psWaited + d <= PsMaxWait ELSE d <= psTimeout
  BY <1>2 DEF Waited, Infinite
<1>5. CASE psLimit = 65535
  <2>1. psTimeout >= 32768 /\ psWaited + d <= PsMaxWait /\ psTimeout \in Nat /\ psTimeout < 65536 /\ d < psTimeout
    BY <1>1, <1>2, <1>3, <1>4, <1>5
  <2>2. PSCount(psLimit, psWaited + d, psTimeout - d)
    BY <1>1, <1>2, <1>3, <1>5, <2>1 DEF PSCount
  <2> QED
    BY <1>1, <2>1, <2>2 DEF PSWoken
<1>6. CASE psLimit # 65535
  <2>1. psTimeout < 32768 /\ d <= psTimeout /\ psTimeout \in Nat
    BY <1>1, <1>2, <1>3, <1>4, <1>6
  <2>2. PSCount(psLimit, psWaited + d, psTimeout - d)
    BY <1>1, <1>2, <1>3, <1>6, <2>1 DEF PSCount
  <2> QED
    BY <1>1, <1>2, <1>6, <2>1, <2>2 DEF PSWoken
<1> QED
  BY <1>5, <1>6

\* The call returns.
LEMMA DoneKeeps ==
  ASSUME PSInv, PsAssumption, NEW d \in Nat, PSWoken(d), NEW ret \in Int, Done(ret),
         ret = PsTimedOut => d = psTimeout /\ psLimit # PsNoTimeout,
         psSent' \in Nat, psWire' = Positions(0, psSent'), psErrno' \in BOOLEAN,
         ret >= 0 => psSent' = 0 \/ psSent' = psLen
  PROVE  PSInv'
<1>1. psOp' = "idle" /\ psRet' = ret /\ psFailed' \in BOOLEAN
  BY DEF Done, Return, PSInv, PSTypes
<1>2. PSTypes'
  BY <1>1 DEF PSTypes, PSWoken, PsCalls
<1>3. PSSending'
  BY <1>1 DEF PSSending, PSWoken
<1>4. psEvents' = IF psFailed' THEN {"in", "out"} ELSE {"in"}
  <2>1. /\ psOp \in {"recv", "recvfrom"} => psEvents = IF psFailed THEN {"in", "out"} ELSE {"in"}
        /\ psOp \in {"send", "sendto"} => psEvents = {"out"} /\ ~psFailed
        /\ psOp = "connect" => psEvents = {"in", "out"}
    BY DEF PSWoken, PSInv, PSWatching
  <2>2. CASE psOp \in {"recv", "recvfrom"}
    BY <2>1, <2>2 DEF Done
  <2>3. CASE psOp \in {"send", "sendto"}
    BY <2>1, <2>3 DEF Done
  <2>4. CASE psOp = "connect"
    BY <2>1, <2>4 DEF Done
  <2> QED
    BY <2>2, <2>3, <2>4 DEF PSWoken, PsCalls
<1>5. PSWatching' /\ PSOwner'
  BY <1>1, <1>4 DEF PSWatching, PSOwner, PSWoken
<1>6. PSDeadline'
  <2>1. PsNoTimeout = 65535 /\ psLimit \in Nat
    BY PsLimits DEF PSWoken
  <2> QED
    BY <1>1, <2>1 DEF PSDeadline, PSWoken, PSCount
<1> QED
  BY <1>1, <1>2, <1>3, <1>5, <1>6 DEF PSInv

\* The call waits again, or its timeout is over.
LEMMA AgainKeeps ==
  ASSUME PSInv, PsAssumption, NEW d \in Nat, PSWoken(d), Again(d),
         psSent' \in Nat, psWire' = Positions(0, psSent'), psErrno' \in BOOLEAN,
         psOp \in {"connect", "recv", "recvfrom", "sendto"} => psSent' = 0
  PROVE  PSInv'
<1>1. CASE d >= psTimeout
  <2>1. Done(PsTimedOut) /\ PsTimedOut \in Int /\ ~(PsTimedOut >= 0)
    BY <1>1 DEF Again, PsTimedOut
  <2>2. d = psTimeout /\ psLimit # PsNoTimeout
    BY <1>1 DEF PSWoken
  <2> QED
    BY <2>1, <2>2, DoneKeeps
<1>2. CASE ~(d >= psTimeout)
  <2>1. psTimeout' = psTimeout - d
    <3>1. psTimeout' = (psTimeout - d) % 65536
      <4>1. psTimeout' = (psTimeout - d) % PsWord
        BY <1>2 DEF Again
      <4> QED
        BY <4>1 DEF PsWord
    <3>2. psTimeout \in Nat /\ psTimeout < 65536
      BY DEF PSWoken
    <3>3. psTimeout - d \in Nat /\ psTimeout - d < 65536
      BY <1>2, <3>2
    <3> QED
      BY <3>1, <3>3, BelowWord
  <2>2. UNCHANGED <<psOp, psRet, psEvents, psFailed>>
    BY <1>2 DEF Again
  <2>3. PSTypes'
    BY <2>2 DEF PSTypes, PSWoken, PSInv
  <2>4. PSSending'
    BY <2>2 DEF PSSending, PSWoken, PSInv
  <2>5. PSWatching' /\ PSOwner'
    BY <2>2 DEF PSWatching, PSOwner, PSWoken, PSInv
  <2>6. PSCount(psLimit, psWaited, psTimeout)'
    BY <2>1 DEF PSCount, PSWoken
  <2>7. psOp' # "idle" /\ psRet' \in Int
    BY <2>2 DEF PSWoken, PSInv
  <2> QED
    BY <2>3, <2>4, <2>5, <2>6, <2>7 DEF PSInv
<1> QED
  BY <1>1, <1>2

\* The message is where it was.
LEMMA NothingSentKeeps ==
  ASSUME PSInv, NothingSent
  PROVE  /\ psSent' \in Nat /\ psWire' = Positions(0, psSent')
         /\ psOp \in {"connect", "recv", "recvfrom", "sendto"} => psSent' = 0
  BY DEF PSInv, PSTypes, PSSending, NothingSent

LEMMA PSSocketKeeps == ASSUME PSInv, PSSocket PROVE PSInv'
<1>1. /\ psFd = "none" /\ psFd' = "open" /\ psSocket' = psSocket
      /\ UNCHANGED <<psEvents, psErrno, psFailed, psOp, psLen, psSent, psTimeout, psRet, psWire, psLimit, psWaited>>
  BY DEF PSSocket, psCall
<1> QED
  BY <1>1 DEF PSInv, PSTypes, PSSending, PSWatching, PSOwner, PSCount, PSDeadline

LEMMA CreateKeeps == ASSUME PSInv, NEW ok \in BOOLEAN, CreateSocket(ok) PROVE PSInv'
<1>1. /\ psFd = "open" /\ psSocket = "none" /\ psOp = "idle" /\ ~psFailed
      /\ UNCHANGED <<psErrno, psFailed, psOp, psLen, psSent, psTimeout, psRet, psWire, psLimit, psWaited>>
  BY DEF CreateSocket, psCall, PSInv, PSWatching
<1>2. \/ psSocket' = "open" /\ psEvents' = {"in"} /\ psFd' = "open"
      \/ psSocket' = "closed" /\ psFd' = "closed"
  BY <1>1 DEF CreateSocket, DeleteSocket, CloseFd
<1> QED
  BY <1>1, <1>2 DEF PSInv, PSTypes, PSSending, PSWatching, PSOwner, PSCount, PSDeadline

LEMMA CloseKeeps == ASSUME PSInv, CloseSocket PROVE PSInv'
<1>1. /\ psSocket = "open" /\ psOp = "idle" /\ psFd = "open" /\ psSocket' = "closed" /\ psFd' = "closed"
      /\ UNCHANGED <<psEvents, psErrno, psFailed, psOp, psLen, psSent, psTimeout, psRet, psWire, psLimit, psWaited>>
  BY DEF CloseSocket, DeleteSocket, CloseFd, psCall, PSInv, PSOwner
<1> QED
  BY <1>1 DEF PSInv, PSTypes, PSSending, PSWatching, PSOwner, PSCount, PSDeadline

LEMMA ConnectKeeps ==
  ASSUME PSInv, PsAssumption, NEW t \in PsTimeouts, NEW hard \in BOOLEAN, PSConnect(t, hard)
  PROVE  PSInv'
<1>1. PSBegun(0, t)
  BY BeginSets DEF PSConnect
<1>2. /\ psEvents' = {"in", "out"} /\ psSent' = 0 /\ psWire' = Positions(0, 0) /\ psErrno' \in BOOLEAN
      /\ \/ psOp' = "idle" /\ psRet' = -1 /\ psFailed' = TRUE
         \/ psOp' = "connect" /\ psRet' \in Int /\ psFailed' \in BOOLEAN
  BY <1>1, PositionsOf DEF PSConnect, Return, PSBegun
<1>3. PSSending'
  BY <1>2 DEF PSSending
<1>4. /\ psOp' \in {"idle", "recv", "recvfrom"} => psEvents' = IF psFailed' THEN {"in", "out"} ELSE {"in"}
      /\ psOp' \in {"send", "sendto"} => psEvents' = {"out"} /\ ~psFailed'
      /\ psOp' = "connect" => psEvents' = {"in", "out"}
  BY <1>2
<1>5. psFailed' \in BOOLEAN
  BY <1>2
<1>6. psSent' \in Nat /\ psRet' \in Int /\ psOp' \in PsCalls /\ (psOp' = "idle" => psRet' # PsTimedOut)
  BY <1>2 DEF PsCalls, PsTimedOut
<1> QED
  BY <1>1, <1>2, <1>3, <1>4, <1>5, <1>6, BeginKeeps

LEMMA BadAddressKeeps ==
  ASSUME PSInv, PsAssumption, NEW t \in PsTimeouts, PSTCPConnectBadAddress(t)
  PROVE  PSInv'
<1>1. PSBegun(0, t)
  BY BeginSets DEF PSTCPConnectBadAddress
<1>2. /\ psEvents' = psEvents /\ psFailed' = psFailed /\ psSent' = 0 /\ psWire' = Positions(0, 0)
      /\ psErrno' \in BOOLEAN /\ psOp' = "idle" /\ psRet' = -1
  BY <1>1, PositionsOf DEF PSTCPConnectBadAddress, Return, PSBegun
<1>3. PSSending'
  BY <1>2 DEF PSSending
<1>4. psEvents' = IF psFailed' THEN {"in", "out"} ELSE {"in"}
  BY <1>1, <1>2 DEF PSBegun
<1> QED
  BY <1>1, <1>2, <1>3, <1>4, BeginKeeps DEF PsCalls, PsTimedOut, PSBegun

LEMMA SendFailsKeeps ==
  ASSUME PSInv, PsAssumption, NEW t \in PsTimeouts, PSSendFails(t)
  PROVE  PSInv'
<1>1. PSBegun(1, t)
  BY BeginSets DEF PSSendFails
<1>2. /\ psEvents' = psEvents /\ psFailed' = psFailed /\ psSent' = 0 /\ psWire' = Positions(0, 0)
      /\ psErrno' \in BOOLEAN /\ psOp' = "idle" /\ psRet' = -1
  BY <1>1, PositionsOf DEF PSSendFails, Return, PSBegun
<1>3. PSSending'
  BY <1>2 DEF PSSending
<1>4. psEvents' = IF psFailed' THEN {"in", "out"} ELSE {"in"}
  BY <1>1, <1>2 DEF PSBegun
<1> QED
  BY <1>1, <1>2, <1>3, <1>4, BeginKeeps DEF PsCalls, PsTimedOut, PSBegun

\* The first attempt of a receiver.
LEMMA RecvKeeps ==
  ASSUME PSInv, PsAssumption, NEW t \in PsTimeouts, NEW rs \in Attempts \cup {"empty"},
         PSRecv(t, rs) \/ PSRecvFrom(t, rs)
  PROVE  PSInv'
<1>1. PSBegun(1, t)
  BY BeginSets DEF PSRecv, PSRecvFrom
<1>2. /\ psEvents' = psEvents /\ psFailed' = psFailed /\ psSent' = 0 /\ psWire' = Positions(0, 0)
  BY PositionsOf DEF PSRecv, PSRecvFrom
<1>3. /\ psErrno' \in BOOLEAN
      /\ \/ psOp' = "idle" /\ psRet' \in {-1, 1}
         \/ psOp' \in {"recv", "recvfrom"} /\ psRet' \in Int
  <2>1. CASE PSRecv(t, rs)
    BY <1>1, <2>1 DEF PSRecv, Return, PSBegun
  <2>2. CASE PSRecvFrom(t, rs)
    BY <1>1, <2>2 DEF PSRecvFrom, Return, PSBegun, Attempts
  <2> QED
    BY <2>1, <2>2
<1>4. PSSending'
  BY <1>2, <1>3 DEF PSSending
<1>5. psEvents' = IF psFailed' THEN {"in", "out"} ELSE {"in"}
  BY <1>1, <1>2 DEF PSBegun
<1> QED
  BY <1>1, <1>2, <1>3, <1>4, <1>5, BeginKeeps DEF PsCalls, PsTimedOut, PSBegun

LEMMA SendKeeps ==
  ASSUME PSInv, PsAssumption, NEW t \in PsTimeouts, NEW len \in Nat \ {0}, NEW k \in Int, k >= -1, PSSend(t, len, k)
  PROVE  PSInv'
<1>1. PSBegun(len, t)
  BY BeginSets DEF PSSend
<1>2. /\ psSent' \in Nat /\ psWire' = Positions(0, psSent') /\ psErrno' \in BOOLEAN /\ (k = len => psSent' = len)
  BY <1>1 DEF PSSend, PSBegun
<1>3. \/ psOp' = "idle" /\ psRet' = len /\ psSent' = len /\ psEvents' = psEvents /\ psFailed' = psFailed
      \/ psOp' = "send" /\ psRet' \in Int /\ psEvents' = {"out"} /\ psFailed' = FALSE
  BY <1>1, <1>2 DEF PSSend, Return, PSBegun
<1>4. PSSending'
  BY <1>1, <1>2, <1>3 DEF PSSending, PSBegun
<1>5. /\ psOp' \in {"idle", "recv", "recvfrom"} => psEvents' = IF psFailed' THEN {"in", "out"} ELSE {"in"}
      /\ psOp' \in {"send", "sendto"} => psEvents' = {"out"} /\ ~psFailed'
      /\ psOp' = "connect" => psEvents' = {"in", "out"}
  BY <1>1, <1>3 DEF PSBegun
<1>6. psFailed' \in BOOLEAN
  BY <1>1, <1>3 DEF PSBegun
<1>7. psRet' \in Int /\ psOp' \in PsCalls /\ (psOp' = "idle" => psRet' # PsTimedOut)
  BY <1>1, <1>3 DEF PsCalls, PsTimedOut, PSBegun
<1> QED
  BY <1>1, <1>2, <1>4, <1>5, <1>6, <1>7, BeginKeeps

LEMMA SendToKeeps ==
  ASSUME PSInv, PsAssumption, NEW t \in PsTimeouts, NEW now \in BOOLEAN, PSSendTo(t, now)
  PROVE  PSInv'
<1>1. PSBegun(1, t) /\ psLen' = 1
  BY BeginSets DEF PSSendTo, Begin
<1>2. /\ psErrno' \in BOOLEAN
      /\ \/ /\ psOp' = "idle" /\ psRet' = 1 /\ psSent' = 1 /\ psWire' = Positions(0, 1)
            /\ psEvents' = psEvents /\ psFailed' = psFailed
         \/ /\ psOp' = "sendto" /\ psRet' \in Int /\ psSent' = 0 /\ psWire' = Positions(0, 0)
            /\ psEvents' = {"out"} /\ psFailed' = FALSE
  BY <1>1, PositionsOf DEF PSSendTo, Return, PSBegun
<1>3. PSSending'
  BY <1>1, <1>2 DEF PSSending
<1>4. /\ psOp' \in {"idle", "recv", "recvfrom"} => psEvents' = IF psFailed' THEN {"in", "out"} ELSE {"in"}
      /\ psOp' \in {"send", "sendto"} => psEvents' = {"out"} /\ ~psFailed'
      /\ psOp' = "connect" => psEvents' = {"in", "out"}
  BY <1>1, <1>2 DEF PSBegun
<1>5. psFailed' \in BOOLEAN
  BY <1>1, <1>2 DEF PSBegun
<1>6. psSent' \in Nat /\ psRet' \in Int /\ psOp' \in PsCalls /\ (psOp' = "idle" => psRet' # PsTimedOut)
  BY <1>1, <1>2 DEF PsCalls, PsTimedOut, PSBegun
<1> QED
  BY <1>1, <1>2, <1>3, <1>4, <1>5, <1>6, BeginKeeps

LEMMA TimeoutKeeps == ASSUME PSInv, PsAssumption, PSTimeout PROVE PSInv'
<1>1. psTimeout \in Nat /\ psTimeout < 32768 /\ psLimit # PsNoTimeout
  <2>1. psOp # "idle" /\ psTimeout < 32768
    BY PsLimits DEF PSTimeout, Waited, Infinite, PSInv, PSTypes, PSCount
  <2>2. /\ PSCount(psLimit, psWaited, psTimeout) /\ psLimit \in PsTimeouts \cup {0} /\ psWaited \in Nat
    BY <2>1 DEF PSInv, PSTypes
  <2>3. /\ PsMaxWait \in Nat /\ PsMaxWait < 32768 /\ PsNoTimeout = 65535 /\ psLimit \in Nat
    BY <2>2, PsLimits
  <2> QED
    BY <2>1, <2>2, <2>3 DEF PSCount
<1>2. PSWoken(psTimeout)
  BY <1>1, WaitedSets DEF PSTimeout
<1>3. /\ psSent' \in Nat /\ psWire' = Positions(0, psSent') /\ psErrno' \in BOOLEAN
  BY NothingSentKeeps DEF PSTimeout, PSInv, PSTypes
<1> QED
  BY <1>1, <1>2, <1>3, DoneKeeps DEF PSTimeout, PsTimedOut

\* A call that neither sends nor receives when it is woken.
LEMMA WakeKeeps ==
  ASSUME PSInv, PsAssumption, NEW d \in Nat,
         PSInterrupted(d) \/ PSError(d) \/ PSConnected(d) \/ PSOtherEvent(d)
  PROVE  PSInv'
<1>1. PSWoken(d)
  BY WaitedSets DEF PSInterrupted, PSError, PSConnected, PSOtherEvent
<1>2. /\ psSent' \in Nat /\ psWire' = Positions(0, psSent') /\ psErrno' \in BOOLEAN
      /\ psOp \in {"connect", "recv", "recvfrom", "sendto"} => psSent' = 0
  BY NothingSentKeeps DEF PSInterrupted, PSError, PSConnected, PSOtherEvent, PSInv, PSTypes
<1>3. CASE PSInterrupted(d) \/ PSOtherEvent(d)
  BY <1>1, <1>2, <1>3, AgainKeeps DEF PSInterrupted, PSOtherEvent
<1>4. CASE PSError(d)
  BY <1>1, <1>2, <1>4, DoneKeeps DEF PSError, PsTimedOut
<1>5. CASE PSConnected(d)
  BY <1>1, <1>2, <1>5, DoneKeeps DEF PSConnected, PsTimedOut
<1> QED
  BY <1>3, <1>4, <1>5

LEMMA ReadableKeeps ==
  ASSUME PSInv, PsAssumption, NEW d \in Nat, NEW rs \in Attempts \cup {"empty"}, PSReadable(d, rs)
  PROVE  PSInv'
<1>1. PSWoken(d) /\ psOp \in {"recv", "recvfrom"}
  BY WaitedSets DEF PSReadable
<1>2. /\ psSent' \in Nat /\ psWire' = Positions(0, psSent') /\ psSent' = 0
  BY <1>1, NothingSentKeeps DEF PSReadable
<1>3. /\ psErrno' \in BOOLEAN
      /\ Again(d) \/ Done(-1) \/ Done(1)
  BY DEF PSReadable, PSInv, PSTypes, Attempts
<1>4. CASE Again(d)
  BY <1>1, <1>2, <1>3, <1>4, AgainKeeps
<1>5. CASE Done(-1)
  BY <1>1, <1>2, <1>3, <1>5, DoneKeeps DEF PsTimedOut
<1>6. CASE Done(1)
  BY <1>1, <1>2, <1>3, <1>6, DoneKeeps DEF PsTimedOut
<1> QED
  BY <1>3, <1>4, <1>5, <1>6

LEMMA WritableKeeps ==
  ASSUME PSInv, PsAssumption, NEW d \in Nat, NEW k \in Int, k >= -1, PSWritable(d, k)
  PROVE  PSInv'
<1>1. PSWoken(d) /\ psOp = "send" /\ psSent \in Nat /\ psWire = Positions(0, psSent) /\ psLen \in Nat
  BY WaitedSets DEF PSWritable, PSInv, PSTypes, PSSending
<1>2. psSent' \in Nat /\ psErrno' \in BOOLEAN
  BY <1>1 DEF PSWritable, PSInv, PSTypes
<1>3. psWire' = Positions(0, psSent')
  <2>1. CASE k < 0
    BY <1>1, <2>1 DEF PSWritable
  <2>2. CASE ~(k < 0)
    <3>1. k \in Nat /\ psSent' = psSent + k /\ psWire' = psWire \o Positions(psSent, k)
      BY <2>2 DEF PSWritable
    <3> QED
      BY <1>1, <3>1, PositionsConcat
  <2> QED
    BY <2>1, <2>2
<1>4. CASE psSent' = psLen /\ k >= 0
  <2>1. Done(psLen)
    BY <1>4 DEF PSWritable
  <2> QED
    BY <1>1, <1>2, <1>3, <1>4, <2>1, DoneKeeps DEF PsTimedOut
<1>5. CASE ~(psSent' = psLen /\ k >= 0)
  <2>1. Again(d)
    BY <1>5 DEF PSWritable
  <2> QED
    BY <1>1, <1>2, <1>3, <2>1, AgainKeeps
<1> QED
  BY <1>4, <1>5

LEMMA WritableToKeeps ==
  ASSUME PSInv, PsAssumption, NEW d \in Nat, NEW now \in BOOLEAN, PSWritableTo(d, now)
  PROVE  PSInv'
<1>1. PSWoken(d) /\ psOp = "sendto" /\ psLen = 1 /\ psErrno' \in BOOLEAN
  BY WaitedSets DEF PSWritableTo, PSInv, PSTypes, PSSending
<1>2. CASE now
  <2>1. psSent' = 1 /\ psWire' = Positions(0, 1) /\ Done(1)
    BY <1>2, PositionsOf DEF PSWritableTo
  <2> QED
    BY <1>1, <2>1, DoneKeeps DEF PsTimedOut
<1>3. CASE ~now
  <2>1. NothingSent /\ Again(d)
    BY <1>3 DEF PSWritableTo
  <2> QED
    BY <1>1, <2>1, NothingSentKeeps, AgainKeeps
<1> QED
  BY <1>2, <1>3

LEMMA PSStep == ASSUME PSInv, [PSNext]_psVars, PsAssumption PROVE PSInv'
<1>1. CASE PSSocket \/ CloseSocket \/ PSTimeout \/ \E ok \in BOOLEAN : CreateSocket(ok)
  BY <1>1, PSSocketKeeps, CloseKeeps, TimeoutKeeps, CreateKeeps
<1>2. ASSUME NEW t \in PsTimeouts,
             \/ \E hard \in BOOLEAN : PSTCPConnect(t, hard)
             \/ \E hard \in BOOLEAN : PSUNIXConnect(t, hard)
             \/ PSTCPConnectBadAddress(t)
             \/ \E rs \in Attempts : PSRecv(t, rs)
             \/ \E rs \in Attempts \cup {"empty"} : PSRecvFrom(t, rs)
             \/ \E len \in 1..PsMaxLen, k \in -1..PsMaxLen : PSSend(t, len, k)
             \/ \E now \in BOOLEAN : PSSendTo(t, now)
             \/ PSSendFails(t)
      PROVE  PSInv'
  <2>1. ASSUME NEW hard \in BOOLEAN, PSTCPConnect(t, hard) \/ PSUNIXConnect(t, hard) PROVE PSInv'
    BY <2>1, ConnectKeeps DEF PSTCPConnect, PSUNIXConnect
  <2>2. ASSUME NEW rs \in Attempts \cup {"empty"}, PSRecv(t, rs) \/ PSRecvFrom(t, rs) PROVE PSInv'
    BY <2>2, RecvKeeps
  <2>3. ASSUME NEW len \in 1..PsMaxLen, NEW k \in -1..PsMaxLen, PSSend(t, len, k) PROVE PSInv'
    <3>1. len \in Nat \ {0} /\ k \in Int /\ k >= -1
      BY DEF PsAssumption
    <3> QED
      BY <2>3, <3>1, SendKeeps
  <2>4. ASSUME NEW now \in BOOLEAN, PSSendTo(t, now) PROVE PSInv'
    BY <2>4, SendToKeeps
  <2>5. ASSUME PSTCPConnectBadAddress(t) \/ PSSendFails(t) PROVE PSInv'
    BY <2>5, BadAddressKeeps, SendFailsKeeps
  <2> QED
    BY <1>2, <2>1, <2>2, <2>3, <2>4, <2>5
<1>3. ASSUME NEW d \in 0..PsMaxWait,
             \/ PSInterrupted(d)
             \/ PSError(d)
             \/ PSConnected(d)
             \/ PSOtherEvent(d)
             \/ \E rs \in Attempts \cup {"empty"} : PSReadable(d, rs)
             \/ \E k \in -1..PsMaxLen : PSWritable(d, k)
             \/ \E now \in BOOLEAN : PSWritableTo(d, now)
      PROVE  PSInv'
  <2>1. d \in Nat /\ \A k \in -1..PsMaxLen : k \in Int /\ k >= -1
    BY DEF PsAssumption
  <2>2. ASSUME NEW k \in -1..PsMaxLen, PSWritable(d, k) PROVE PSInv'
    BY <2>1, <2>2, WritableKeeps
  <2>3. ASSUME NEW rs \in Attempts \cup {"empty"}, PSReadable(d, rs) PROVE PSInv'
    BY <2>1, <2>3, ReadableKeeps
  <2>4. ASSUME NEW now \in BOOLEAN, PSWritableTo(d, now) PROVE PSInv'
    BY <2>1, <2>4, WritableToKeeps
  <2>5. ASSUME PSInterrupted(d) \/ PSError(d) \/ PSConnected(d) \/ PSOtherEvent(d) PROVE PSInv'
    BY <2>1, <2>5, WakeKeeps
  <2> QED
    BY <1>3, <2>2, <2>3, <2>4, <2>5
<1>4. CASE UNCHANGED psVars
  BY <1>4 DEF psVars, psCall, PSInv, PSTypes, PSSending, PSWatching, PSOwner, PSCount, PSDeadline
<1> QED
  BY <1>1, <1>2, <1>3, <1>4 DEF PSNext

\* For any timeouts and lengths, and however a call is interrupted, woken for
\* nothing or served in pieces: it keeps its deadline and its place in the
\* message, watches for what it waits for, and the descriptor is closed once.
THEOREM SocketCallsCorrect == PSSpec => []PSCorrect
<1>1. PSInit => PSInv
  <2>1. SUFFICES ASSUME PSInit PROVE PSInv
    OBVIOUS
  <2>2. PSTypes /\ PSWatching /\ PSOwner /\ psOp = "idle" /\ psRet = 0
    BY <2>1 DEF PSInit, PSTypes, PSWatching, PSOwner, PsCalls
  <2>3. PSSending
    BY <2>1, PositionsOf DEF PSInit, PSSending
  <2>4. PSDeadline
    BY <2>1 DEF PSInit, PSDeadline, PsTimedOut
  <2> QED
    BY <2>2, <2>3, <2>4 DEF PSInv
<1>2. PSInv /\ [PSNext]_psVars => PSInv'
  BY PSStep, PsAssumption
<1>3. PSInv => PSCorrect
  BY PSHolds, PsAssumption
<1> QED
  BY <1>1, <1>2, <1>3, PTL DEF PSSpec
==============================================================================
