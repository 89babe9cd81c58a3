---------------------------- MODULE SysPoolWorker ----------------------------
(***************************************************************************)
(* A worker process of PoolManager in system-thread mode                   *)
(* (src/pooldrive/sysworker.cpp): Run() waits for connections and messages *)
(* and starts a PoolProcess on an idle handle for each; every handle has a *)
(* thread that waits on its semaphore and executes what it is given; the   *)
(* thread of MainDo() starts processes too.  The master process closes the *)
(* pool: Stop() stores the shared flag is_close_ and sends 'C'.            *)
(*                                                                         *)
(* The sections under lock_ are one step each.  h->process is also touched *)
(* without the lock, and is_close_ has none: each access is a step.        *)
(*                                                                         *)
(* runs and posted are auxiliary: no step reads them.                      *)
(***************************************************************************)
EXTENDS Naturals, Sequences, FiniteSets

CONSTANTS Handle,    \* the handles, thread_count_ of them
          Proc,      \* the PoolProcess objects
          None,      \* NULL
          SockCap    \* how many messages the kernel queues at unix_sock_wait_

ASSUME PoolAssumption == /\ None \notin Handle \cup Proc
                         /\ SockCap \in Nat \ {0}

\* The threads that call StartWithThread.
Caller == {"loop", "main"}

VARIABLES is_close,   \* *is_close_, in memory shared with the master
          idle, use,  \* idle_handles_, use_handles_
          process,    \* h->process
          sem,        \* h->signal
          hpc,        \* where the thread of a handle is in DoRun
          lpc,        \* where Run() is
          ready,      \* what epoll_wait returned and Run() did not handle yet
          sock,       \* the messages waiting at unix_sock_wait_
          mpc,        \* where the thread of MainDo() is
          toPost,     \* the handle a caller of StartWithThread is to sem_post
          state,      \* what became of a PoolProcess
          closed,     \* ex_->Close() was called
          stop,       \* where the master is in Stop()
          runs,       \* how many times a PoolProcess was executed
          posted      \* the idle handles were posted on 'C'

poolVars == <<idle, use, process, sem, toPost, state, runs>>
loopVars == <<lpc, ready, closed, posted>>
vars == <<is_close, poolVars, hpc, loopVars, sock, mpc, stop>>

Init == /\ is_close = FALSE
        /\ idle = {} /\ use = {}
        /\ process = [h \in Handle |-> None]
        /\ sem = [h \in Handle |-> 0]
        /\ hpc = [h \in Handle |-> "none"]
        /\ lpc = "start" /\ ready = {}
        /\ sock = <<>>
        /\ mpc = "none"
        /\ toPost = [c \in Caller |-> None]
        /\ state = [p \in Proc |-> "new"]
        /\ closed = FALSE
        /\ stop = "no"
        /\ runs = [p \in Proc |-> 0]
        /\ posted = FALSE

------------------------------------------------------------------------------
(* StartWithThread.                                                        *)

\* Mutant: the handle stays idle while its thread works.
StartWithThread_StaysIdle(c, p) ==
  /\ toPost[c] = None
  /\ state[p] = "new"
  /\ \/ /\ idle = {}
        /\ state' = [state EXCEPT ![p] = "refused"]
        /\ UNCHANGED <<idle, use, process, toPost>>
     \/ \E h \in idle :
          /\ process' = [process EXCEPT ![h] = p]
          /\ use' = use \cup {h}
          /\ state' = [state EXCEPT ![p] = "started"]
          /\ toPost' = [toPost EXCEPT ![c] = h]
          /\ UNCHANGED idle
  /\ UNCHANGED <<sem, runs>>

\* The section under lock_: take an idle handle, or delete the process.
StartWithThread(c, p) ==
  /\ toPost[c] = None
  /\ state[p] = "new"
  /\ \/ /\ idle = {}
        /\ state' = [state EXCEPT ![p] = "refused"]
        /\ UNCHANGED <<idle, use, process, toPost>>
     \/ \E h \in idle :
          /\ process' = [process EXCEPT ![h] = p]
          /\ idle' = idle \ {h}
          /\ use' = use \cup {h}
          /\ state' = [state EXCEPT ![p] = "started"]
          /\ toPost' = [toPost EXCEPT ![c] = h]
  /\ UNCHANGED <<sem, runs>>

\* Mutant: the handle is not posted.
SemPost_Forgotten(c) ==
  /\ toPost[c] # None
  /\ toPost' = [toPost EXCEPT ![c] = None]
  /\ UNCHANGED <<is_close, idle, use, process, sem, state, runs, hpc, loopVars, sock, mpc, stop>>

\* sem_post(&h->signal);
SemPost(c) ==
  /\ toPost[c] # None
  /\ sem' = [sem EXCEPT ![toPost[c]] = @ + 1]
  /\ toPost' = [toPost EXCEPT ![c] = None]
  /\ UNCHANGED <<is_close, idle, use, process, state, runs, hpc, loopVars, sock, mpc, stop>>

------------------------------------------------------------------------------
(* Run(): the thread that waits for events.                                *)

\* Up to the loop: bind, the threads of the handles, the thread of MainDo().
Setup ==
  /\ lpc = "start"
  /\ idle' = Handle
  /\ hpc' = [h \in Handle |-> "test"]
  /\ mpc' = "run"
  /\ lpc' = "test"
  /\ UNCHANGED <<is_close, use, process, sem, toPost, state, runs, ready, closed, posted,
                 sock, stop>>

\* while ( false == *ex_->is_close_ )
LoopTest ==
  /\ lpc = "test"
  /\ lpc' = IF is_close THEN "join" ELSE "wait"
  /\ UNCHANGED <<is_close, poolVars, hpc, ready, closed, posted, sock, mpc, stop>>

\* epoll_wait returns what is ready, or nothing after 5000 ms, or fails with
\* EINTR.
EpollWait ==
  /\ lpc = "wait"
  /\ \/ \E e \in SUBSET {"sock", "accept"} :
          /\ "sock" \in e <=> sock # <<>>
          /\ ready' = e
          /\ lpc' = "events"
     \/ /\ lpc' = "test"
        /\ UNCHANGED ready
  /\ UNCHANGED <<is_close, poolVars, hpc, closed, posted, sock, mpc, stop>>

\* PoolAccept::Process: the connection is for this worker, and ProcessFd
\* starts a process for it, or it is sent to another one or closed.
AcceptFd ==
  /\ lpc = "events" /\ toPost["loop"] = None
  /\ "accept" \in ready
  /\ ready' = ready \ {"accept"}
  /\ \/ \E p \in Proc : StartWithThread("loop", p)
     \/ UNCHANGED poolVars
  /\ UNCHANGED <<is_close, hpc, lpc, closed, posted, sock, mpc, stop>>

\* recvmsg returns 'A' and a descriptor: ProcessFd.
RecvA ==
  /\ lpc = "events" /\ toPost["loop"] = None
  /\ "sock" \in ready
  /\ Head(sock) = "A"
  /\ sock' = Tail(sock)
  /\ ready' = ready \ {"sock"}
  /\ \/ \E p \in Proc : StartWithThread("loop", p)
     \/ UNCHANGED poolVars
  /\ UNCHANGED <<is_close, hpc, lpc, closed, posted, mpc, stop>>

\* recvmsg returns 'C': the flag, then ex_->Close().
RecvC ==
  /\ lpc = "events" /\ toPost["loop"] = None
  /\ "sock" \in ready
  /\ Head(sock) = "C"
  /\ sock' = Tail(sock)
  /\ is_close' = TRUE
  /\ closed' = TRUE
  /\ lpc' = "post"
  /\ UNCHANGED <<poolVars, hpc, ready, posted, mpc, stop>>

\* Mutant: the handles in use are posted instead of the idle ones.
PostIdle_Use ==
  /\ lpc = "post"
  /\ sem' = [h \in Handle |-> IF h \in use THEN sem[h] + 1 ELSE sem[h]]
  /\ posted' = TRUE
  /\ ready' = {}
  /\ lpc' = "test"
  /\ UNCHANGED <<is_close, idle, use, process, toPost, state, runs, hpc, closed, sock, mpc, stop>>

\* Under lock_, sem_post for every idle handle; break leaves the events.
PostIdle ==
  /\ lpc = "post"
  /\ sem' = [h \in Handle |-> IF h \in idle THEN sem[h] + 1 ELSE sem[h]]
  /\ posted' = TRUE
  /\ ready' = {}
  /\ lpc' = "test"
  /\ UNCHANGED <<is_close, idle, use, process, toPost, state, runs, hpc, closed, sock, mpc, stop>>

EventsDone ==
  /\ lpc = "events" /\ toPost["loop"] = None
  /\ ready = {}
  /\ lpc' = "test"
  /\ UNCHANGED <<is_close, poolVars, hpc, ready, closed, posted, sock, mpc, stop>>

\* pthread_join of main_thread and of every handle; what a handle still
\* holds is deleted.
JoinAll ==
  /\ lpc = "join"
  /\ mpc = "done"
  /\ \A h \in Handle : hpc[h] = "exit"
  /\ state' = [p \in Proc |-> IF \E h \in Handle : process[h] = p THEN "freed" ELSE state[p]]
  /\ process' = [h \in Handle |-> None]
  /\ idle' = {} /\ use' = {}
  /\ lpc' = "done"
  /\ UNCHANGED <<is_close, sem, toPost, runs, hpc, ready, closed, posted, sock, mpc, stop>>

------------------------------------------------------------------------------
(* MainRun: the application's MainDo().                                    *)

MainStart ==
  /\ mpc = "run"
  /\ \E p \in Proc : StartWithThread("main", p)
  /\ UNCHANGED <<is_close, hpc, loopVars, sock, mpc, stop>>

MainDone ==
  /\ mpc = "run" /\ toPost["main"] = None
  /\ mpc' = "done"
  /\ UNCHANGED <<is_close, poolVars, hpc, loopVars, sock, stop>>

------------------------------------------------------------------------------
(* DoRun: the thread of handle h.                                          *)

\* while ( false == *h->worker->ex_->is_close_ )
DoRunTest(h) ==
  /\ hpc[h] = "test"
  /\ hpc' = [hpc EXCEPT ![h] = IF is_close THEN "exit" ELSE "wait"]
  /\ UNCHANGED <<is_close, poolVars, loopVars, sock, mpc, stop>>

\* sem_wait(&h->signal);
SemWait(h) ==
  /\ hpc[h] = "wait"
  /\ sem[h] > 0
  /\ sem' = [sem EXCEPT ![h] = @ - 1]
  /\ hpc' = [hpc EXCEPT ![h] = "woken"]
  /\ UNCHANGED <<is_close, idle, use, process, toPost, state, runs, loopVars, sock, mpc, stop>>

\* if ( h->process ) h->process->Process();
Execute(h) ==
  /\ hpc[h] = "woken"
  /\ \/ /\ process[h] = None
        /\ hpc' = [hpc EXCEPT ![h] = "return"]
        /\ UNCHANGED runs
     \/ /\ process[h] # None
        /\ runs' = [runs EXCEPT ![process[h]] = @ + 1]
        /\ hpc' = [hpc EXCEPT ![h] = "free"]
  /\ UNCHANGED <<is_close, idle, use, process, sem, toPost, state, loopVars, sock, mpc, stop>>

\* Mutant: h->process is not reset.
FreeProcess_NoReset(h) ==
  /\ hpc[h] = "free"
  /\ state' = [state EXCEPT ![process[h]] = "freed"]
  /\ hpc' = [hpc EXCEPT ![h] = "return"]
  /\ UNCHANGED <<is_close, idle, use, process, sem, toPost, runs, loopVars, sock, mpc, stop>>

\* delete h->process; h->process = NULL;
FreeProcess(h) ==
  /\ hpc[h] = "free"
  /\ state' = [state EXCEPT ![process[h]] = "freed"]
  /\ process' = [process EXCEPT ![h] = None]
  /\ hpc' = [hpc EXCEPT ![h] = "return"]
  /\ UNCHANGED <<is_close, idle, use, sem, toPost, runs, loopVars, sock, mpc, stop>>

\* Under lock_: use_handles_.erase(...); idle_handles_[...] = h;
ReturnHandle(h) ==
  /\ hpc[h] = "return"
  /\ use' = use \ {h}
  /\ idle' = idle \cup {h}
  /\ hpc' = [hpc EXCEPT ![h] = "test"]
  /\ UNCHANGED <<is_close, process, sem, toPost, state, runs, loopVars, sock, mpc, stop>>

------------------------------------------------------------------------------
(* The other processes.                                                    *)

\* SendFd of another worker; sendmsg fails while the queue is full.
SendA ==
  /\ lpc \notin {"start", "done"}
  /\ Len(sock) < SockCap
  /\ \E p \in Proc : state[p] = "new"
  /\ sock' = Append(sock, "A")
  /\ UNCHANGED <<is_close, poolVars, hpc, loopVars, mpc, stop>>

\* PoolManager::Stop(): *is_close_ = true;
StopStore ==
  /\ stop = "no"
  /\ is_close' = TRUE
  /\ stop' = "send"
  /\ UNCHANGED <<poolVars, hpc, loopVars, sock, mpc>>

\* sendto(fd, "C", ...): waits while the queue is full, and fails when
\* nothing is bound to the address.
StopSend ==
  /\ stop = "send"
  /\ \/ /\ lpc \notin {"start", "done"}
        /\ Len(sock) < SockCap
        /\ sock' = Append(sock, "C")
     \/ /\ lpc \in {"start", "done"}
        /\ UNCHANGED sock
  /\ stop' = "sent"
  /\ UNCHANGED <<is_close, poolVars, hpc, loopVars, mpc>>

------------------------------------------------------------------------------
LoopThread == \/ Setup \/ LoopTest \/ EpollWait \/ AcceptFd \/ RecvA \/ RecvC
              \/ PostIdle \/ EventsDone \/ JoinAll
HandleThread(h) == \/ DoRunTest(h) \/ SemWait(h) \/ Execute(h) \/ FreeProcess(h)
                   \/ ReturnHandle(h)

Next == \/ LoopThread
        \/ \E c \in Caller : SemPost(c)
        \/ MainStart \/ MainDone
        \/ \E h \in Handle : HandleThread(h)
        \/ SendA \/ StopStore \/ StopSend

Spec == Init /\ [][Next]_vars

\* Every thread that can go on does, and MainDo() returns.  Nothing makes
\* the master stop the pool or another worker send.
FairSpec == /\ Spec
            /\ WF_vars(LoopThread)
            /\ \A c \in Caller : WF_vars(SemPost(c))
            /\ WF_vars(MainDone)
            /\ \A h \in Handle : WF_vars(HandleThread(h))
            /\ WF_vars(StopSend)

------------------------------------------------------------------------------
(* Properties.                                                             *)

\* The types of the variables.
TypeOK == /\ is_close \in BOOLEAN /\ closed \in BOOLEAN /\ posted \in BOOLEAN
          /\ idle \subseteq Handle /\ use \subseteq Handle
          /\ process \in [Handle -> Proc \cup {None}]
          /\ sem \in [Handle -> Nat]
          /\ hpc \in [Handle -> {"none", "test", "wait", "woken", "free", "return", "exit"}]
          /\ lpc \in {"start", "test", "wait", "events", "post", "join", "done"}
          /\ ready \subseteq {"sock", "accept"}
          /\ sock \in Seq({"A", "C"})
          /\ mpc \in {"none", "run", "done"}
          /\ toPost \in [Caller -> Handle \cup {None}]
          /\ state \in [Proc -> {"new", "refused", "started", "freed"}]
          /\ stop \in {"no", "send", "sent"}
          /\ runs \in [Proc -> Nat]

\* "gsdm will free this process" (include/pooldrive/poolworkerex.h, on
\* StartWithThread): what StartWithThread accepted is held by a handle, whose
\* thread or Run() frees it, until it is freed.
StartedHeld ==
  \A p \in Proc : state[p] = "started" => \E h \in Handle : process[h] = p

\* No two handles hold the same process, no handle holds one that is freed,
\* and until the pool closes every process StartWithThread accepted is held
\* by a handle: none is stored over another (StartWithThread under lock_,
\* DoRun without it).
ProcessOwned ==
  /\ \A g, h \in Handle : process[g] = process[h] /\ process[g] # None => g = h
  /\ \A h \in Handle : process[h] # None => state[process[h]] = "started"
  /\ ~posted => StartedHeld

\* A process is executed at most once, and freed without having been
\* executed only when the pool closes ("gsdm will free this process").
RunOnce ==
  \A p \in Proc : /\ runs[p] <= 1
                  /\ state[p] = "freed" /\ runs[p] = 0 => lpc = "done"
                  /\ state[p] \in {"new", "refused"} => runs[p] = 0

\* No sequence of StartWithThread, DoRun and 'C', with or without lock_, loses
\* a process, hands it to two handles or executes it twice.
ProcessesOK == TypeOK /\ ProcessOwned /\ RunOnce

\* Between Setup and the end every handle is idle or in use, never both, so
\* none is lost to the pool; before the pool closes an idle handle holds no
\* process and has no wake-up pending.
HandlesKept ==
  lpc \notin {"start", "done"} =>
    /\ idle \cup use = Handle /\ idle \cap use = {}
    /\ ~posted => \A h \in idle : process[h] = None /\ sem[h] = 0

\* A process StartWithThread accepted is executed, unless the pool closes.
StartedRuns == \A p \in Proc : state[p] = "started" ~> (runs[p] = 1 \/ is_close)

\* Once Run() has read 'C', every thread ends and Run() returns, whatever
\* the threads were doing: a handle at work sees the flag, an idle one is
\* posted (Run, DoRun, StartWithThread).
ClosesAfterC == lpc = "post" ~> lpc = "done"

\* "When this process is Closing, gsdm will call this function."
\* (include/pooldrive/poolworkerex.h, on Close): after the master stored
\* is_close_, the running worker calls ex_->Close().
CloseCalled == (is_close /\ lpc \in {"test", "wait", "events"}) ~> closed

==============================================================================
