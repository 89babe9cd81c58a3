----------------------------- MODULE PoolManager -----------------------------
(***************************************************************************)
(* The processes of a pool (src/pooldrive/manager.cpp): the master forks    *)
(* the log process and one process per worker, forks a worker again when it *)
(* dies, stops them all on SIGINT and waits for them.  Of a worker process  *)
(* only what the master can tell is here: its socket, its test of the      *)
(* shared flag is_close_, whether threads of it wait for a process         *)
(* (SysPoolWorker and StPoolWorker have the rest); of the log process its   *)
(* queue (GLogger::LogRun).                                                *)
(*                                                                         *)
(* SIGINT runs Stop() on the master's only thread, between any two of its   *)
(* steps, and interrupts wait() and waitpid() (sa_flags is 0).             *)
(***************************************************************************)
EXTENDS Naturals, Sequences, FiniteSets

CONSTANTS N,          \* the number of workers
          MaxSignal,  \* bound: how often SIGINT arrives
          MaxCrash,   \* bound: how many processes die by themselves
          MaxFail,    \* bound: how many forks fail
          MaxLog      \* bound: how many messages the workers log

ASSUME PoolManagerAssumption ==
  N \in Nat \ {0} /\ {MaxSignal, MaxCrash, MaxFail, MaxLog} \subseteq Nat

W == 1..N
Living == {"boot", "test", "poll", "leave", "hung"}

VARIABLES
  mpc,       \* where the master is in Loop() and Close()
  at,        \* the worker its loop is at
  sig,       \* the worker Stop() is at, or 0 when no signal is handled
  intr,      \* a handler has returned into the call the master is in
  is_close,  \* is_close_: "null" before shmat and after shmdt
  pid,       \* workers with pool_pid_ # -1
  hash,      \* w_hash
  deleted,   \* workers Close() has deleted
  child,     \* the process of a worker; "none" before the fork and when reaped
  inbox,     \* how many 'C' wait at the socket of a worker
  parked,    \* workers some thread of which waits for a process
  log,       \* the log process
  logq,      \* what waits at its socket
  count,     \* signals, crashes, failures and messages so far
  skipped,   \* auxiliary: a child was not waited for, because of EINTR
  fault

pmVars == <<mpc, at, sig, intr, is_close, pid, hash, deleted, child, inbox, parked, log, logq,
            count, skipped, fault>>
master == <<mpc, at, intr, is_close, pid, hash, deleted, skipped>>

PMInit == /\ mpc = "log" /\ at = 1 /\ sig = 0 /\ intr = FALSE
          /\ is_close = "null"
          /\ pid = {} /\ hash = {} /\ deleted = {}
          /\ child = [w \in W |-> "none"]
          /\ inbox = [w \in W |-> 0]
          /\ parked = {}
          /\ log = "none" /\ logq = <<>>
          /\ count = [signal |-> 0, crash |-> 0, fail |-> 0, log |-> 0]
          /\ skipped = FALSE /\ fault = "none"

\* The master runs its own code, not a handler.
Master(where) == mpc = where /\ sig = 0 /\ fault = "none"

-----------------------------------------------------------------------------
(***************************************************************************)
(* Loop().                                                                 *)
(***************************************************************************)
ForkLog ==
  /\ Master("log")
  /\ log' = "setup" /\ mpc' = "shm"
  /\ UNCHANGED <<at, sig, intr, is_close, pid, hash, deleted, child, inbox, parked, logq, count, skipped, fault>>

Shm ==
  /\ Master("shm")
  /\ is_close' = "no" /\ mpc' = "fork"
  /\ UNCHANGED <<at, sig, intr, pid, hash, deleted, child, inbox, parked, log, logq, count, skipped, fault>>

\* fork(): the child is to execute Run(), the parent knows its pid.
Fork(w) ==
  /\ child' = [child EXCEPT ![w] = "boot"]
  /\ inbox' = [inbox EXCEPT ![w] = 0]
  /\ parked' = parked \ {w}
  /\ hash' = hash \cup {w} /\ pid' = pid \cup {w}

ForkWorker ==
  /\ Master("fork")
  /\ Fork(at)
  /\ mpc' = IF at = N THEN "wait" ELSE "fork"
  /\ at' = IF at = N THEN 1 ELSE at + 1
  /\ intr' = FALSE
  /\ UNCHANGED <<sig, is_close, deleted, log, logq, count, skipped, fault>>

\* fork() fails: Loop() returns false and the program calls Close().  The workers
\* there are go on.
ForkFails ==
  /\ Master("log") \/ Master("fork") \/ Master("refork")
  /\ count.fail < MaxFail
  /\ count' = [count EXCEPT !.fail = @ + 1]
  /\ pid' = pid \ {at} /\ mpc' = "close" /\ at' = 1
  /\ UNCHANGED <<sig, intr, is_close, hash, deleted, child, inbox, parked, log, logq, skipped, fault>>

\* Mutant: a worker that ends is always forked again.
WaitWorkerAlways(w) ==
  /\ Master("wait") /\ child[w] = "zombie" /\ w \in hash
  /\ child' = [child EXCEPT ![w] = "none"]
  /\ hash' = hash \ {w}
  /\ mpc' = "refork" /\ at' = w /\ intr' = FALSE
  /\ UNCHANGED <<sig, is_close, pid, deleted, inbox, parked, log, logq, count, skipped, fault>>

\* Mutant: a worker that died is not forked again.
WaitWorkerNever(w) ==
  /\ Master("wait") /\ child[w] = "zombie" /\ w \in hash
  /\ child' = [child EXCEPT ![w] = "none"]
  /\ hash' = hash \ {w} /\ pid' = pid \ {w}
  /\ mpc' = IF is_close = "yes" THEN "close" ELSE "wait"
  /\ at' = 1 /\ intr' = FALSE
  /\ UNCHANGED <<sig, is_close, deleted, inbox, parked, log, logq, count, skipped, fault>>

\* wait() returns a worker: Loop() ends if the pool closes.
WaitWorker(w) ==
  /\ Master("wait") /\ child[w] = "zombie" /\ w \in hash
  /\ child' = [child EXCEPT ![w] = "none"]
  /\ hash' = hash \ {w}
  /\ IF is_close = "yes" THEN mpc' = "close" /\ at' = 1 /\ pid' = pid \ {w}
                         ELSE mpc' = "refork" /\ at' = w /\ UNCHANGED pid
  /\ intr' = FALSE
  /\ UNCHANGED <<sig, is_close, deleted, inbox, parked, log, logq, count, skipped, fault>>

\* wait() returns a process that is no worker: the log process, which is not
\* started again, or -1 after a signal.
WaitOther ==
  /\ Master("wait")
  /\ \/ log = "zombie" /\ log' = "reaped"
     \/ intr /\ UNCHANGED log
  /\ mpc' = IF is_close = "yes" THEN "close" ELSE "wait"
  /\ at' = 1 /\ intr' = FALSE
  /\ UNCHANGED <<sig, is_close, pid, hash, deleted, child, inbox, parked, logq, count, skipped, fault>>

Refork ==
  /\ Master("refork")
  /\ Fork(at)
  /\ mpc' = "wait" /\ at' = 1 /\ intr' = FALSE
  /\ UNCHANGED <<sig, is_close, deleted, log, logq, count, skipped, fault>>

-----------------------------------------------------------------------------
\* Mutant: a worker is deleted without waitpid.
CloseWorkerNoWait ==
  /\ Master("close")
  /\ UNCHANGED child
  /\ skipped' = skipped
  /\ deleted' = deleted \cup {at}
  /\ mpc' = IF at = N THEN "closelog" ELSE "close"
  /\ at' = IF at = N THEN 1 ELSE at + 1
  /\ intr' = FALSE
  /\ UNCHANGED <<sig, is_close, pid, hash, inbox, parked, log, logq, count, fault>>

(***************************************************************************)
(* Close(): waitpid for every worker that has a pid, then the log.          *)
(***************************************************************************)
CloseWorker ==
  /\ Master("close")
  /\ at \in pid => child[at] \notin Living \/ intr
  /\ child' = IF at \in pid /\ child[at] = "zombie" THEN [child EXCEPT ![at] = "none"] ELSE child
  /\ skipped' = (skipped \/ child'[at] # "none")
  /\ deleted' = deleted \cup {at}
  /\ mpc' = IF at = N THEN "closelog" ELSE "close"
  /\ at' = IF at = N THEN 1 ELSE at + 1
  /\ intr' = FALSE
  /\ UNCHANGED <<sig, is_close, pid, hash, inbox, parked, log, logq, count, fault>>

\* GLogger::Close: 'c' for the log process, if that has its socket.
CloseLog ==
  /\ Master("closelog")
  /\ logq' = IF log = "run" THEN Append(logq, "c") ELSE logq
  /\ mpc' = "waitlog" /\ intr' = FALSE
  /\ UNCHANGED <<at, sig, is_close, pid, hash, deleted, child, inbox, parked, log, count, skipped, fault>>

WaitLog ==
  /\ Master("waitlog")
  /\ log \in {"zombie", "reaped", "none"} \/ intr
  /\ log' = IF log = "zombie" THEN "reaped" ELSE log
  /\ skipped' = (skipped \/ log \in {"setup", "run"})
  /\ is_close' = "null" /\ mpc' = "done" /\ intr' = FALSE
  /\ UNCHANGED <<at, sig, pid, hash, deleted, child, inbox, parked, logq, count, fault>>

-----------------------------------------------------------------------------
\* Mutant: the flag is not stored.
SignalSendsOnly ==
  /\ sig = 0 /\ fault = "none" /\ mpc # "done"
  /\ count.signal < MaxSignal
  /\ count' = [count EXCEPT !.signal = @ + 1]
  /\ IF is_close = "null" THEN fault' = "null" /\ UNCHANGED <<sig, intr>>
     ELSE /\ sig' = IF mpc \in {"closelog", "waitlog"} THEN 0 ELSE 1
          /\ intr' = TRUE /\ UNCHANGED fault
  /\ UNCHANGED <<mpc, at, is_close, pid, hash, deleted, child, inbox, parked, log, logq, skipped>>

(***************************************************************************)
(* SIGINT: Stop() stores the flag, then sends 'C' to every worker.          *)
(***************************************************************************)
Signal ==
  /\ sig = 0 /\ fault = "none" /\ mpc # "done"
  /\ count.signal < MaxSignal
  /\ count' = [count EXCEPT !.signal = @ + 1]
  /\ IF is_close = "null"
       THEN fault' = "null" /\ UNCHANGED <<sig, intr, is_close>>
       ELSE /\ is_close' = "yes"
            /\ sig' = IF mpc \in {"closelog", "waitlog"} THEN 0 ELSE 1   \* worker_.clear()
            /\ intr' = TRUE /\ UNCHANGED fault
  /\ UNCHANGED <<mpc, at, pid, hash, deleted, child, inbox, parked, log, logq, skipped>>

\* sendto: fails when the worker's process has no socket.
StopSend ==
  /\ sig # 0 /\ fault = "none"
  /\ IF sig \in deleted THEN fault' = "freed" /\ UNCHANGED <<sig, inbox>>
     ELSE /\ inbox' = IF child[sig] \in Living \ {"boot"} THEN [inbox EXCEPT ![sig] = @ + 1] ELSE inbox
          /\ sig' = IF sig = N THEN 0 ELSE sig + 1
          /\ UNCHANGED fault
  /\ UNCHANGED <<master, child, parked, log, logq, count>>

-----------------------------------------------------------------------------
(***************************************************************************)
(* The worker processes and the log process.                               *)
(***************************************************************************)
env == <<mpc, at, sig, intr, is_close, pid, hash, deleted, log, skipped, fault>>

\* Run(): remove and bind the socket, create the threads.
Boot(w) ==
  /\ child[w] = "boot"
  /\ child' = [child EXCEPT ![w] = "test"]
  /\ UNCHANGED <<env, inbox, parked, logq, count>>

\* A thread of the worker reads is_close_ and waits for a process.
Park(w) ==
  /\ child[w] \in {"test", "poll"} /\ w \notin parked /\ is_close = "no"
  /\ parked' = parked \cup {w}
  /\ UNCHANGED <<env, child, inbox, logq, count>>

\* while ( false == *ex_->is_close_ )
Test(w) ==
  /\ child[w] = "test"
  /\ child' = [child EXCEPT ![w] = IF is_close = "no" THEN "poll" ELSE "leave"]
  /\ UNCHANGED <<env, inbox, parked, logq, count>>

\* The wait ends with 'C', which wakes the threads, or after five seconds.
RecvC(w) ==
  /\ child[w] = "poll" /\ inbox[w] > 0
  /\ inbox' = [inbox EXCEPT ![w] = @ - 1]
  /\ is_close' = IF is_close = "null" THEN "null" ELSE "yes"
  /\ parked' = parked \ {w}
  /\ child' = [child EXCEPT ![w] = "leave"]
  /\ UNCHANGED <<mpc, at, sig, intr, pid, hash, deleted, log, skipped, fault, logq, count>>

PollTimeout(w) ==
  /\ child[w] = "poll" /\ inbox[w] = 0
  /\ child' = [child EXCEPT ![w] = "test"]
  /\ UNCHANGED <<env, inbox, parked, logq, count>>

\* The joins: of a thread that still waits, for ever.
Leave(w) ==
  /\ child[w] = "leave"
  /\ child' = [child EXCEPT ![w] = IF w \in parked THEN "hung" ELSE "zombie"]
  /\ UNCHANGED <<env, inbox, parked, logq, count>>

\* A worker dies.
Crash(w) ==
  /\ child[w] \in {"boot", "test", "poll", "leave"} /\ count.crash < MaxCrash
  /\ child' = [child EXCEPT ![w] = "zombie"]
  /\ count' = [count EXCEPT !.crash = @ + 1]
  /\ UNCHANGED <<env, inbox, parked, logq>>

\* A worker logs: the datagram is lost when the log process has no socket.
Log(w) ==
  /\ child[w] \in {"test", "poll", "leave"} /\ count.log < MaxLog
  /\ logq' = IF log = "run" THEN Append(logq, "l") ELSE logq
  /\ count' = [count EXCEPT !.log = @ + 1]
  /\ UNCHANGED <<env, child, inbox, parked>>

\* LogRun: its socket, then a datagram at a time until 'c'; or it aborts.
LogRun ==
  /\ \/ /\ log = "setup" /\ log' = "run"
        /\ UNCHANGED <<logq, count>>
     \/ /\ log = "run" /\ logq # <<>>
        /\ logq' = Tail(logq)
        /\ log' = IF Head(logq) = "c" THEN "zombie" ELSE "run"
        /\ UNCHANGED count
  /\ UNCHANGED <<master, sig, child, inbox, parked, fault>>

LogAbort ==
  /\ log \in {"setup", "run"} /\ count.crash < MaxCrash
  /\ log' = "zombie" /\ logq' = <<>>
  /\ count' = [count EXCEPT !.crash = @ + 1]
  /\ UNCHANGED <<master, sig, child, inbox, parked, fault>>

MasterStep == \/ ForkLog \/ Shm \/ ForkWorker \/ WaitOther \/ Refork
              \/ \E w \in W : WaitWorker(w)
              \/ CloseWorker \/ CloseLog \/ WaitLog \/ StopSend
WorkerStep(w) == Boot(w) \/ Test(w) \/ RecvC(w) \/ PollTimeout(w) \/ Leave(w)

PMNext == \/ MasterStep \/ ForkFails \/ Signal
          \/ \E w \in W : WorkerStep(w) \/ Park(w) \/ Crash(w) \/ Log(w)
          \/ LogRun \/ LogAbort

PMSpec == PMInit /\ [][PMNext]_pmVars

\* Every process that can run does; a 'C' that waits is read before the next
\* five seconds are over.
PMFairSpec == /\ PMSpec /\ WF_pmVars(MasterStep) /\ WF_pmVars(LogRun)
              /\ \A w \in W : WF_pmVars(WorkerStep(w))

-----------------------------------------------------------------------------
\* Every member has a value the code can give it; the loops over worker_ stay
\* inside it, also when a fork fails.
PMTypeOK ==
  /\ mpc \in {"log", "shm", "fork", "wait", "refork", "close", "closelog", "waitlog", "done"}
  /\ at \in W /\ sig \in 0..N /\ intr \in BOOLEAN /\ skipped \in BOOLEAN
  /\ is_close \in {"null", "no", "yes"}
  /\ pid \subseteq W /\ hash \subseteq W /\ deleted \subseteq W /\ parked \subseteq W
  /\ child \in [W -> Living \cup {"none", "zombie"}]
  /\ inbox \in [W -> Nat]
  /\ log \in {"none", "setup", "run", "zombie", "reaped"} /\ logq \in Seq({"l", "c"})
  /\ fault \in {"none", "null", "freed"}

(***************************************************************************)
(* No worker sleeps through a stop: one that waits for events when the flag *)
(* is set has a 'C' at its socket or will be sent one, also when it was     *)
(* forked again while Stop() ran (Stop, Loop, Run).                        *)
(***************************************************************************)
StopSeen ==
  fault = "none" =>
    \A w \in W : child[w] = "poll" /\ is_close = "yes" => inbox[w] > 0 \/ sig \in 1..w

(***************************************************************************)
(* While Loop() waits, every process of a worker is known to it, and when   *)
(* Close() returns none is left, unless a signal interrupted its waitpid.   *)
(***************************************************************************)
Reaped ==
  /\ mpc = "wait" => \A w \in W : child[w] # "none" /\ w \in hash \cap pid
  /\ mpc = "done" /\ ~skipped => /\ \A w \in W : child[w] = "none"
                                 /\ log \in {"none", "reaped"}

(***************************************************************************)
(* 'c' is behind every message of every worker, so the log process writes   *)
(* all it was sent before it ends, unless a signal interrupted Close().     *)
(***************************************************************************)
LogComplete ==
  ~skipped => \A i \in DOMAIN logq : logq[i] = "c" => i = Len(logq)

\* Close() leaves no child unreaped and ends the log process last, whatever
\* died and was forked again before.
CloseOK == Reaped /\ LogComplete

(***************************************************************************)
(* A signal is safe from the moment Loop() has the flag until Close()       *)
(* deletes the first worker, and again when all are deleted: only before    *)
(* and between does Stop() use memory that is not there.                   *)
(***************************************************************************)
SignalSafe ==
  /\ fault = "null" => mpc \in {"log", "shm"} \/ log = "none"
  /\ fault = "freed" => mpc = "close" /\ at > 1

\* Wherever SIGINT finds the master, Stop() reaches every process that must
\* stop, and does not touch memory that is not there outside two windows.
StopOK == PMTypeOK /\ StopSeen /\ SignalSafe

\* A worker that dies is forked again, unless the pool closes or a fork fails.
Restarted ==
  \A w \in W : (child[w] = "zombie" /\ is_close = "no") ~>
    (child[w] = "boot" \/ is_close # "no" \/ mpc = "close" \/ fault # "none")

\* After SIGINT the master returns from Close(), unless a worker left its loop on the
\* flag while its threads waited, or 'c' was sent before the log process had a socket.
ShutdownCompletes ==
  (is_close = "yes") ~>
    \/ mpc = "done" \/ fault # "none"
    \/ \E w \in W : child[w] = "hung"
    \/ mpc = "waitlog" /\ \A i \in DOMAIN logq : logq[i] # "c"
=============================================================================
