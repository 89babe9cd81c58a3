---------------------------- MODULE StPoolWorker ----------------------------
(***************************************************************************)
(* A worker process of PoolManager in state-thread mode                    *)
(* (src/pooldrive/stworker.cpp).  The threads of the worker take turns: a   *)
(* thread runs until it blocks, the next one is the head of the run queue,  *)
(* and only when that is empty the descriptors are polled.  So every        *)
(* action below is what a thread does between two blocking calls.  Only     *)
(* is_close_, in memory shared with the master, changes at any time.        *)
(*                                                                         *)
(* The state-thread library is external: runq is its run queue, and a       *)
(* condition signalled while nobody waits is forgotten.                    *)
(***************************************************************************)
EXTENDS Naturals, Sequences, FiniteSets

CONSTANTS Handle,   \* the handles, thread_count_ of them
          Proc,     \* the PoolProcess objects
          None,     \* NULL
          SockCap   \* how many messages the kernel queues at unix_sock_wait_

ASSUME StPoolAssumption == /\ IsFiniteSet(Handle)
                           /\ {"run", "main"} \cap Handle = {}
                           /\ None \notin Handle \cup Proc
                           /\ SockCap \in Nat \ {0}

Thread == {"run", "main"} \cup Handle

VARIABLES
  is_close,   \* *is_close_
  idle, use,  \* idle_handles_, use_handles_
  process,    \* h->process
  th,         \* what a thread is at
  runq,       \* the threads that can run, in the order they will
  sock,       \* the messages waiting at unix_sock_wait_
  freed,      \* handles Run() has joined and deleted
  stop,       \* where the master is in Stop()
  state,      \* auxiliary: what became of a PoolProcess
  early,      \* auxiliary: handles given a process before their thread ran
  byC,        \* auxiliary: Run() has read 'C'
  fault       \* the worker has used memory it must not

vars == <<is_close, idle, use, process, th, runq, sock, freed, stop, state, early, byC, fault>>

\* The orders in which an unordered_map may be walked.
Orders(S) == {s \in [1..Cardinality(S) -> S] : \A i, j \in DOMAIN s : s[i] = s[j] => i = j}

\* StPoolWorker::Run up to the loop: the threads exist and have not run.
Init == /\ is_close = FALSE
        /\ idle = Handle /\ use = {}
        /\ process = [h \in Handle |-> None]
        /\ th = [t \in Thread |-> IF t = "run" THEN "test" ELSE "new"]
        /\ \E order \in Orders(Handle) : runq = <<"run", "main">> \o order
        /\ sock = <<>> /\ freed = {} /\ stop = "no"
        /\ state = [p \in Proc |-> "new"]
        /\ early = {} /\ byC = FALSE /\ fault = "none"

\* Thread t has the processor, at place at.
Turn(t, at) == runq # <<>> /\ Head(runq) = t /\ th[t] = at /\ fault = "none"

\* Thread t blocks, or ends, and the threads of the sequence woken can run.
Yield(to, t, woken) == /\ th' = [u \in Thread |-> CASE u = t -> to
                                                     [] u # t /\ \E i \in DOMAIN woken : woken[i] = u -> "ready"
                                                     [] OTHER -> th[u]]
                       /\ runq' = Tail(runq) \o woken

\* Thread t goes on at to; the handle woken, if any, can run.
GoOn(to, t, woken) == /\ th' = [u \in Thread |-> CASE u = t -> to
                                                   [] u # t /\ \E i \in DOMAIN woken : woken[i] = u -> "ready"
                                                   [] OTHER -> th[u]]
                      /\ runq' = runq \o woken

\* Whom st_cond_signal wakes.
Signal(h) == IF th[h] = "wait" THEN <<h>> ELSE <<>>

-----------------------------------------------------------------------------
\* Mutant: the handle stays idle.
StartKeepsIdle(t, to, p) ==
  /\ state[p] = "new"
  /\ \E h \in idle :
       /\ process' = [process EXCEPT ![h] = p]
       /\ use' = use \cup {h} /\ UNCHANGED idle
       /\ state' = [state EXCEPT ![p] = "started"]
       /\ early' = IF th[h] = "new" THEN early \cup {h} ELSE early
       /\ fault' = IF h \in freed THEN "freed" ELSE "none"
       /\ GoOn(to, t, Signal(h))

\* Mutant: the handle is not signalled.
StartNoSignal(t, to, p) ==
  /\ state[p] = "new"
  /\ \E h \in idle :
       /\ process' = [process EXCEPT ![h] = p]
       /\ idle' = idle \ {h} /\ use' = use \cup {h}
       /\ state' = [state EXCEPT ![p] = "started"]
       /\ early' = IF th[h] = "new" THEN early \cup {h} ELSE early
       /\ fault' = IF h \in freed THEN "freed" ELSE "none"
       /\ GoOn(to, t, <<>>)

(***************************************************************************)
(* StartWithThread, called by thread t.  An idle handle gets the process    *)
(* and is signalled; with none the process is deleted.                      *)
(***************************************************************************)
StartWithThread(t, to, p) ==
  /\ state[p] = "new"
  /\ \/ /\ idle = {}
        /\ state' = [state EXCEPT ![p] = "refused"]
        /\ GoOn(to, t, <<>>)
        /\ UNCHANGED <<idle, use, process, early, fault>>
     \/ \E h \in idle :
          /\ process' = [process EXCEPT ![h] = p]
          /\ idle' = idle \ {h} /\ use' = use \cup {h}
          /\ state' = [state EXCEPT ![p] = "started"]
          /\ early' = IF th[h] = "new" THEN early \cup {h} ELSE early
          /\ fault' = IF h \in freed THEN "freed" ELSE "none"
          /\ GoOn(to, t, Signal(h))

\* ProcessFd: a process that CreateTCPProcess refuses is used all the same.
ProcessFd(to) ==
  \/ \E p \in Proc : StartWithThread("run", to, p)
  \/ /\ fault' = "null"
     /\ UNCHANGED <<idle, use, process, state, early, th, runq>>

-----------------------------------------------------------------------------
(***************************************************************************)
(* Run().                                                                  *)
(***************************************************************************)
\* while ( false == *ex_->is_close_ ), then st_poll, or st_thread_join(main_thread).
LoopTest ==
  /\ Turn("run", "test")
  /\ Yield(IF is_close THEN "join" ELSE "poll", "run", <<>>)
  /\ UNCHANGED <<is_close, idle, use, process, sock, freed, stop, state, early, byC, fault>>

\* st_poll has returned: the socket first, one message of it.
RecvA ==
  /\ Turn("run", "ready") /\ sock # <<>> /\ Head(sock) = "A"
  /\ sock' = Tail(sock)
  /\ ProcessFd("accept")
  /\ UNCHANGED <<is_close, freed, stop, byC>>

\* Mutant: the handles in use are signalled instead of the idle ones.
RecvCUse ==
  /\ Turn("run", "ready") /\ sock # <<>> /\ Head(sock) = "C"
  /\ sock' = Tail(sock)
  /\ is_close' = TRUE /\ byC' = TRUE
  /\ \E woken \in Orders({h \in use : th[h] = "wait"}) : Yield("join", "run", woken)
  /\ UNCHANGED <<idle, use, process, freed, stop, state, early, fault>>

\* 'C': the flag, ex_->Close(), a signal for every idle handle, and the loop is left.
RecvC ==
  /\ Turn("run", "ready") /\ sock # <<>> /\ Head(sock) = "C"
  /\ sock' = Tail(sock)
  /\ is_close' = TRUE /\ byC' = TRUE
  /\ \E woken \in Orders({h \in idle : th[h] = "wait"}) : Yield("join", "run", woken)
  /\ UNCHANGED <<idle, use, process, freed, stop, state, early, fault>>

\* A listening socket is ready: StPoolAccept::Process for this worker or another.
AcceptFd ==
  /\ Turn("run", "accept") \/ (Turn("run", "ready") /\ sock = <<>>)
  /\ ProcessFd("test")
  /\ UNCHANGED <<is_close, sock, freed, stop, byC>>

\* No listening socket is ready, or its connection went to another worker.
NoAccept ==
  /\ Turn("run", "accept") \/ (Turn("run", "ready") /\ sock = <<>>)
  /\ GoOn("test", "run", <<>>)
  /\ UNCHANGED <<is_close, idle, use, process, sock, freed, stop, state, early, byC, fault>>

\* Mutant: the handles are joined before the thread of MainDo().
JoinHandlesFirst(h) ==
  /\ fault = "none" /\ th["run"] = "join"
  /\ h \in Handle \ freed /\ th[h] = "done"
  /\ freed' = freed \cup {h}
  /\ state' = [p \in Proc |-> IF process[h] = p THEN "freed" ELSE state[p]]
  /\ process' = [process EXCEPT ![h] = None]
  /\ IF freed' = Handle
       THEN th' = [th EXCEPT !["run"] = "done"] /\ idle' = {} /\ use' = {}
       ELSE UNCHANGED <<th, idle, use>>
  /\ UNCHANGED <<is_close, runq, sock, stop, early, byC, fault>>

\* st_thread_join returns for a thread that has ended; a handle is deleted with
\* the process it still has.  When all are joined Run() returns.
Join(h) ==
  /\ fault = "none" /\ th["run"] = "join" /\ th["main"] = "done"
  /\ h \in Handle \ freed /\ th[h] = "done"
  /\ freed' = freed \cup {h}
  /\ state' = [p \in Proc |-> IF process[h] = p THEN "freed" ELSE state[p]]
  /\ process' = [process EXCEPT ![h] = None]
  /\ IF freed' = Handle
       THEN th' = [th EXCEPT !["run"] = "done"] /\ idle' = {} /\ use' = {}
       ELSE UNCHANGED <<th, idle, use>>
  /\ UNCHANGED <<is_close, runq, sock, stop, early, byC, fault>>

-----------------------------------------------------------------------------
(***************************************************************************)
(* The other threads.                                                      *)
(***************************************************************************)
\* MainDo() starts processes, may block between two of them, and returns (MainDone).
MainDo ==
  /\ Turn("main", "new") \/ Turn("main", "ready")
  /\ \/ \E p \in Proc : StartWithThread("main", "ready", p)
     \/ /\ Yield("io", "main", <<>>)
        /\ UNCHANGED <<idle, use, process, state, early, fault>>
  /\ UNCHANGED <<is_close, sock, freed, stop, byC>>

MainDone ==
  /\ Turn("main", "new") \/ Turn("main", "ready")
  /\ Yield("done", "main", <<>>)
  /\ UNCHANGED <<is_close, idle, use, process, sock, freed, stop, state, early, byC, fault>>

\* DoRun starts: while ( false == *is_close_ ) st_cond_wait(h->signal).
DoRun(h) ==
  /\ Turn(h, "new")
  /\ Yield(IF is_close THEN "done" ELSE "wait", h, <<>>)
  /\ UNCHANGED <<is_close, idle, use, process, sock, freed, stop, state, early, byC, fault>>

\* The handle is woken with a process: Process() runs, blocks, starts others.
Process(h) ==
  /\ Turn(h, "ready") /\ process[h] # None
  /\ \/ /\ Yield("io", h, <<>>)
        /\ UNCHANGED <<idle, use, process, state, early, fault>>
     \/ \E p \in Proc : StartWithThread(h, "ready", p)
  /\ UNCHANGED <<is_close, sock, freed, stop, byC>>

\* Process() has returned, or there is none: the process is deleted, the handle
\* is idle again, and waits unless the flag is set.
ProcessDone(h) ==
  /\ Turn(h, "ready")
  /\ state' = [p \in Proc |-> IF process[h] = p THEN "done" ELSE state[p]]
  /\ process' = [process EXCEPT ![h] = None]
  /\ use' = use \ {h} /\ idle' = idle \cup {h}
  /\ Yield(IF is_close THEN "done" ELSE "wait", h, <<>>)
  /\ UNCHANGED <<is_close, sock, freed, stop, early, byC, fault>>

\* Nobody can run: the library polls.  Run()'s st_poll returns when a message or a
\* connection is there, or after five seconds.
Poll(t) ==
  /\ runq = <<>> /\ fault = "none"
  /\ th[t] \in {"poll", "io"}
  /\ th' = [th EXCEPT ![t] = "ready"]
  /\ runq' = <<t>>
  /\ UNCHANGED <<is_close, idle, use, process, sock, freed, stop, state, early, byC, fault>>

\* SendFd of another worker.
SendA ==
  /\ Len(sock) < SockCap /\ th["run"] # "done" /\ stop = "no"
  /\ sock' = Append(sock, "A")
  /\ UNCHANGED <<is_close, idle, use, process, th, runq, freed, stop, state, early, byC, fault>>

\* PoolManager::Stop(): the flag, then 'C', for which sendto waits for room.
StopStore ==
  /\ stop = "no"
  /\ is_close' = TRUE /\ stop' = "send"
  /\ UNCHANGED <<idle, use, process, th, runq, sock, freed, state, early, byC, fault>>

StopSend ==
  /\ stop = "send" /\ Len(sock) < SockCap
  /\ stop' = "sent" /\ sock' = Append(sock, "C")
  /\ UNCHANGED <<is_close, idle, use, process, th, runq, freed, state, early, byC, fault>>

RunThread == LoopTest \/ RecvA \/ RecvC \/ AcceptFd \/ NoAccept \/ \E h \in Handle : Join(h)
HandleThread(h) == DoRun(h) \/ Process(h) \/ ProcessDone(h)

Next == \/ RunThread \/ MainDo \/ MainDone
        \/ \E h \in Handle : HandleThread(h)
        \/ \E t \in Thread : Poll(t)
        \/ SendA \/ StopStore \/ StopSend

Spec == Init /\ [][Next]_vars

\* The threads that can run do, and MainDo() and every Process() return in the end.
\* Nothing makes the master stop the pool or another worker send.
FairSpec == /\ Spec
            /\ WF_vars(RunThread) /\ WF_vars(MainDo) /\ SF_vars(MainDone)
            /\ \A h \in Handle : WF_vars(HandleThread(h)) /\ SF_vars(ProcessDone(h))
            /\ \A t \in Thread : SF_vars(Poll(t))
            /\ WF_vars(StopSend)

-----------------------------------------------------------------------------
\* Every member has a value the code can give it; the socket holds what the
\* kernel queues at most.
TypeOK ==
  /\ is_close \in BOOLEAN /\ byC \in BOOLEAN
  /\ idle \subseteq Handle /\ use \subseteq Handle /\ freed \subseteq Handle /\ early \subseteq Handle
  /\ process \in [Handle -> Proc \cup {None}]
  /\ th \in [Thread -> {"new", "test", "poll", "ready", "accept", "io", "wait", "join", "done"}]
  /\ runq \in Seq(Thread) /\ sock \in Seq({"A", "C"})
  /\ state \in [Proc -> {"new", "refused", "started", "done", "freed"}]
  /\ Len(sock) <= SockCap
  /\ stop \in {"no", "send", "sent"} /\ fault \in {"none", "null", "freed"}

(***************************************************************************)
(* The run queue and the states of the threads agree: a thread is queued    *)
(* once exactly when it can run, so no signal resumes a thread that is not  *)
(* waiting and none that was woken is left out.                            *)
(***************************************************************************)
RunQueueOK ==
  /\ \A i, j \in DOMAIN runq : runq[i] = runq[j] => i = j
  /\ \A t \in Thread : (\E i \in DOMAIN runq : runq[i] = t)
                           <=> th[t] \in {"new", "test", "ready", "accept"}

(***************************************************************************)
(* Every handle is idle or in use and not both, a process that was accepted *)
(* is held by exactly one handle until it was executed, and an idle handle  *)
(* holds none (StartWithThread, DoRun).                                    *)
(***************************************************************************)
HandlesKept ==
  /\ th["run"] # "done" => idle \cup use = Handle
  /\ idle \cap use = {}
  /\ \A h \in idle : process[h] = None
  /\ \A p \in Proc : state[p] = "started" <=> \E h \in Handle : process[h] = p
  /\ \A g, h \in Handle : process[g] = process[h] /\ process[g] # None => g = h

\* The scheduler's queue and the pool's bookkeeping agree at every switch of
\* threads: no handle and no accepted process is lost to the pool.
HandlesOK == TypeOK /\ RunQueueOK /\ HandlesKept

\* A handle that waits with a process, and that nobody will wake.
Stuck(h) == th[h] = "wait" /\ process[h] # None

(***************************************************************************)
(* A wake-up is lost in one way only: MainDo() ran before the thread of the *)
(* handle did, so that st_cond_signal found nobody waiting.  A handle that  *)
(* has waited once is never left with a process it does not execute.        *)
(***************************************************************************)
LostWakeup == \A h \in Handle : Stuck(h) => h \in early

(***************************************************************************)
(* A handle that Run() has deleted is used in one way only: after the end   *)
(* of MainDo(), while the pool closes, by a process that still runs and     *)
(* starts another one (Run, StartWithThread).                              *)
(***************************************************************************)
Blame == fault = "freed" => /\ is_close /\ th["main"] = "done"
                            /\ \E h \in use \ freed : process[h] # None /\ th[h] = "ready"

\* The two ways in which this pool can fail, a wake-up nobody waits for and a
\* handle used after Run() deleted it, have no other cause than those named.
WhatFails == LostWakeup /\ Blame

\* What StartWithThread accepted is executed, unless the pool closes, the worker
\* crashes, or the wake-up was lost before the handle's thread ran.
StartedRuns ==
  \A p \in Proc : state[p] = "started" ~>
    (state[p] = "done" \/ is_close \/ fault # "none" \/ \E h \in early : process[h] = p)

\* Once Run() has read 'C', all threads end and Run() returns, unless a handle is
\* stuck with a process whose wake-up was lost: 'C' signals the idle handles only.
ClosesAfterC ==
  byC ~> (th["run"] = "done" \/ fault # "none" \/ \E h \in Handle : Stuck(h))
=============================================================================
