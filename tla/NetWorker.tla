------------------------------ MODULE NetWorker ------------------------------
(***************************************************************************)
(* The event loops of EventManager (src/eventdrive).  Every NetWorker runs *)
(* Run() in a thread of its own: it waits in epoll_wait, handles the ready *)
(* descriptors, then the commands other workers announced on its datagram  *)
(* socket, then its timers, then looks at status_.  An acceptor hands the  *)
(* connections it accepts to the workers of a list in turn; application    *)
(* callbacks send commands of their own.  SIGINT asks every worker to      *)
(* close, and the main thread, which runs worker 0, joins the others.      *)
(*                                                                         *)
(* A command channel is a CycleList, taken here as the atomic queue that   *)
(* module CycleList implements; as commands differ in nothing the          *)
(* properties of this module speak of, a queue is its length.              *)
(*                                                                         *)
(* lost, closes and asked are auxiliary: no step reads them.               *)
(***************************************************************************)
EXTENDS Naturals, Sequences, FiniteSets

CONSTANTS N,          \* the number of workers, numbered as in worker_
          Chan,       \* the channels SetupQueue made
          src, dst,   \* the worker that sends on a channel, and the one that reads it
          other,      \* the channels of a worker's acceptor, in the order of other_
          Sig,        \* the deliveries of SIGINT
          Wake,       \* the datagram { (uint32_t)-1, -1 } of Close()
          PostCap,    \* how many datagrams the kernel queues on a socket
          MaxCmd      \* bound: how many commands are sent in a behaviour

Worker == 0..(N - 1)

ASSUME WorkerAssumption == /\ N \in Nat \ {0}
                           /\ PostCap \in Nat \ {0}
                           /\ MaxCmd \in Nat
                           /\ Wake \notin Chan
                           /\ src \in [Chan -> Worker]
                           /\ dst \in [Chan -> Worker]
                           /\ other \in [Worker -> Seq(Chan)]
ASSUME OtherAssumption == \A w \in Worker : \A i \in 1..Len(other[w]) :
                            src[other[w][i]] = w

VARIABLES status,   \* status_
          pc,       \* where Run() is
          sleep,    \* sleep_time: at most 1000 ms, or any number after EINTR
          ev,       \* the ready descriptors of query_ not yet handled
          infos,    \* info_vec
          out,      \* the channel of the SendCmd under way
          ret,      \* where Run() goes on after that SendCmd
          acc,      \* accepted_count_
          sock,     \* the datagrams waiting at unix_sock_wait_
          queue,    \* how many commands wait in a channel
          lost,     \* a Post for the channel was dropped since it was last found empty
          closes,   \* how many times ex_->Close() was called
          asked,    \* how many times a signal handler stored CLOSE
          sent,     \* how many commands were sent
          hpc, hat, \* where the handler of a signal is, and at which worker
          mpc, mat  \* where the main thread is after Run(), and at which worker

loopVars == <<sleep, ev, infos, acc>>
sendVars == <<out, ret, sent>>
chanVars == <<sock, queue, lost>>
sigVars == <<hpc, hat, asked>>
mainVars == <<mpc, mat>>
vars == <<status, pc, loopVars, sendVars, chanVars, closes, sigVars, mainVars>>

Status == {"RUN", "CLOSE", "CLEAR", "STOP"}
Event == {"wake", "accept", "user"}
\* The places where Run() is inside application code.
Callback == {"user", "process", "timers", "closing"}
Pc == Callback \cup {"start", "wait", "events", "recv", "cmds", "insert", "post",
                     "check", "check2", "clearing", "done"}

Init == /\ status = [w \in Worker |-> "RUN"]
        /\ pc = [w \in Worker |-> "start"]
        /\ sleep = [w \in Worker |-> "bounded"]
        /\ ev = [w \in Worker |-> {}]
        /\ infos = [w \in Worker |-> <<>>]
        /\ out = [w \in Worker |-> Wake]
        /\ ret = [w \in Worker |-> "wait"]
        /\ acc = [w \in Worker |-> 0]
        /\ sock = [w \in Worker |-> <<>>]
        /\ queue = [c \in Chan |-> 0]
        /\ lost = [c \in Chan |-> FALSE]
        /\ closes = [w \in Worker |-> 0]
        /\ asked = [w \in Worker |-> 0]
        /\ sent = 0
        /\ hpc = [s \in Sig |-> "idle"]
        /\ hat = [s \in Sig |-> 0]
        /\ mpc = "run"
        /\ mat = 1

Goto(w, l) == pc' = [pc EXCEPT ![w] = l]

------------------------------------------------------------------------------
(* IOHandlerManager.                                                       *)

\* sendto() on the non-blocking unix_sock_post_, whose result nobody looks
\* at: the datagram is dropped when the queue of the socket is full, and
\* before Initialize() made the sockets.
CanPost(d) == pc[d] # "start" /\ Len(sock[d]) < PostCap
Deliver(d, info) ==
  sock' = IF CanPost(d) THEN [sock EXCEPT ![d] = Append(@, info)] ELSE sock

\* Run() up to its loop: Initialize(), thread_, StartAccept().
Initialize(w) ==
  /\ pc[w] = "start"
  /\ Goto(w, "wait")
  /\ UNCHANGED <<status, loopVars, sendVars, chanVars, closes, sigVars, mainVars>>

\* epoll_wait returns every ready descriptor: the datagram socket when it
\* holds something, and the acceptor or a connection as the peers like.
Pulse(w) ==
  /\ pc[w] = "wait"
  /\ \E e \in SUBSET Event :
       /\ e # {}
       /\ "wake" \in e <=> sock[w] # <<>>
       /\ "accept" \in e => other[w] # <<>>
       /\ ev' = [ev EXCEPT ![w] = e]
  /\ sleep' = [sleep EXCEPT ![w] = "bounded"]
  /\ Goto(w, "events")
  /\ UNCHANGED <<status, infos, acc, sendVars, chanVars, closes, sigVars, mainVars>>

\* epoll_wait times out; a number that is not one of milliseconds may never.
PulseTimeout(w) ==
  /\ pc[w] = "wait"
  /\ sleep[w] = "bounded"
  /\ sock[w] = <<>>
  /\ Goto(w, "timers")
  /\ UNCHANGED <<status, loopVars, sendVars, chanVars, closes, sigVars, mainVars>>

\* epoll_wait is interrupted: the next timeout is the sum of a delay and of
\* the current time, which as an int may be negative, which is for ever.
PulseEintr(w) ==
  /\ pc[w] = "wait"
  /\ sock[w] = <<>>
  /\ sleep' = [sleep EXCEPT ![w] = "any"]
  /\ Goto(w, "timers")
  /\ UNCHANGED <<status, ev, infos, acc, sendVars, chanVars, closes, sigVars, mainVars>>

\* Mutant: only the last datagram is kept.
RecvInfo_KeepsLast(w) ==
  /\ \/ pc[w] = "events" /\ "wake" \in ev[w]
     \/ pc[w] = "recv"
  /\ \/ /\ sock[w] # <<>>
        /\ infos' = [infos EXCEPT ![w] = <<Head(sock[w])>>]
        /\ sock' = [sock EXCEPT ![w] = Tail(@)]
        /\ Goto(w, "recv")
        /\ UNCHANGED ev
     \/ /\ sock[w] = <<>>
        /\ ev' = [ev EXCEPT ![w] = @ \ {"wake"}]
        /\ Goto(w, "events")
        /\ UNCHANGED <<infos, sock>>
  /\ UNCHANGED <<status, sleep, acc, sendVars, queue, lost, closes, sigVars, mainVars>>

\* while ( sizeof(GsdmCmdInfo) == recvfrom(...) ) info_vec.push_back(...)
RecvInfo(w) ==
  /\ \/ pc[w] = "events" /\ "wake" \in ev[w]
     \/ pc[w] = "recv"
  /\ \/ /\ sock[w] # <<>>
        /\ infos' = [infos EXCEPT ![w] = Append(@, Head(sock[w]))]
        /\ sock' = [sock EXCEPT ![w] = Tail(@)]
        /\ Goto(w, "recv")
        /\ UNCHANGED ev
     \/ /\ sock[w] = <<>>
        /\ ev' = [ev EXCEPT ![w] = @ \ {"wake"}]
        /\ Goto(w, "events")
        /\ UNCHANGED <<infos, sock>>
  /\ UNCHANGED <<status, sleep, acc, sendVars, queue, lost, closes, sigVars, mainVars>>

\* Mutant: the acceptor hands connections out whatever status_ is.
Accept_NoStatus(w) ==
  /\ pc[w] = "events"
  /\ "accept" \in ev[w]
  /\ ev' = [ev EXCEPT ![w] = @ \ {"accept"}]
  /\ sent < MaxCmd
  /\ out' = [out EXCEPT ![w] = other[w][(acc[w] % Len(other[w])) + 1]]
  /\ ret' = [ret EXCEPT ![w] = "events"]
  /\ acc' = [acc EXCEPT ![w] = @ + 1]
  /\ sent' = sent + 1
  /\ Goto(w, "insert")
  /\ UNCHANGED <<status, sleep, infos, chanVars, closes, sigVars, mainVars>>

\* Accept(): the connection goes to the next worker of other_ while status_
\* is RUN, and is closed otherwise (or when accept or setFdOptions fails).
Accept(w) ==
  /\ pc[w] = "events"
  /\ "accept" \in ev[w]
  /\ ev' = [ev EXCEPT ![w] = @ \ {"accept"}]
  /\ \/ /\ status[w] = "RUN"
        /\ sent < MaxCmd
        /\ out' = [out EXCEPT ![w] = other[w][(acc[w] % Len(other[w])) + 1]]
        /\ ret' = [ret EXCEPT ![w] = "events"]
        /\ acc' = [acc EXCEPT ![w] = @ + 1]
        /\ sent' = sent + 1
        /\ Goto(w, "insert")
     \/ UNCHANGED <<pc, out, ret, acc, sent>>
  /\ UNCHANGED <<status, sleep, infos, chanVars, closes, sigVars, mainVars>>

\* OnEvent of a connection calls the application.
OnEvent(w) ==
  /\ pc[w] = "events"
  /\ "user" \in ev[w]
  /\ ev' = [ev EXCEPT ![w] = @ \ {"user"}]
  /\ Goto(w, "user")
  /\ UNCHANGED <<status, sleep, infos, acc, sendVars, chanVars, closes, sigVars, mainVars>>

EventsDone(w) ==
  /\ pc[w] = "events"
  /\ ev[w] = {}
  /\ Goto(w, "cmds")
  /\ UNCHANGED <<status, loopVars, sendVars, chanVars, closes, sigVars, mainVars>>

------------------------------------------------------------------------------
(* Commands.                                                               *)

\* Application code calls SendCmd (TCPTransfer, UNIXTransfer, its own).
SendCmd(w) ==
  /\ pc[w] \in Callback
  /\ sent < MaxCmd
  /\ \E c \in Chan : src[c] = w /\ out' = [out EXCEPT ![w] = c]
  /\ ret' = [ret EXCEPT ![w] = pc[w]]
  /\ sent' = sent + 1
  /\ Goto(w, "insert")
  /\ UNCHANGED <<status, loopVars, chanVars, closes, sigVars, mainVars>>

\* i->second->Insert(cmd);
SendInsert(w) ==
  /\ pc[w] = "insert"
  /\ queue' = [queue EXCEPT ![out[w]] = @ + 1]
  /\ Goto(w, "post")
  /\ UNCHANGED <<status, loopVars, sendVars, sock, lost, closes, sigVars, mainVars>>

\* pIOHandlerManager_->Post((uint8_t *)&info, sizeof(GsdmCmdInfo));
SendPost(w) ==
  /\ pc[w] = "post"
  /\ Deliver(dst[out[w]], out[w])
  /\ lost' = IF CanPost(dst[out[w]]) THEN lost ELSE [lost EXCEPT ![out[w]] = TRUE]
  /\ Goto(w, ret[w])
  /\ out' = [out EXCEPT ![w] = Wake]
  /\ ret' = [ret EXCEPT ![w] = "wait"]
  /\ UNCHANGED <<status, loopVars, sent, queue, closes, sigVars, mainVars>>

\* Mutant: one command is processed per announcement.
ProcessCmd_One(w) ==
  /\ pc[w] = "cmds"
  /\ infos[w] # <<>>
  /\ infos' = [infos EXCEPT ![w] = Tail(@)]
  /\ LET c == Head(infos[w]) IN
       \/ /\ c # Wake /\ queue[c] > 0
          /\ queue' = [queue EXCEPT ![c] = @ - 1]
          /\ Goto(w, "process")
       \/ /\ c # Wake => queue[c] = 0
          /\ UNCHANGED <<queue, pc>>
  /\ UNCHANGED <<status, sleep, ev, acc, sendVars, sock, lost, closes, sigVars, mainVars>>

\* ProcessCmd(&info_vec[i]): GetData until it returns NULL.
ProcessCmd(w) ==
  /\ pc[w] = "cmds"
  /\ infos[w] # <<>>
  /\ LET c == Head(infos[w]) IN
       \/ /\ c = Wake
          /\ infos' = [infos EXCEPT ![w] = Tail(@)]
          /\ UNCHANGED <<queue, lost, pc>>
       \/ /\ c # Wake /\ queue[c] > 0
          /\ queue' = [queue EXCEPT ![c] = @ - 1]
          /\ Goto(w, "process")
          /\ UNCHANGED <<infos, lost>>
       \/ /\ c # Wake /\ queue[c] = 0
          /\ infos' = [infos EXCEPT ![w] = Tail(@)]
          /\ lost' = [lost EXCEPT ![c] = FALSE]
          /\ UNCHANGED <<queue, pc>>
  /\ UNCHANGED <<status, sleep, ev, acc, sendVars, sock, closes, sigVars, mainVars>>

CmdsDone(w) ==
  /\ pc[w] = "cmds"
  /\ infos[w] = <<>>
  /\ Goto(w, "timers")
  /\ UNCHANGED <<status, loopVars, sendVars, chanVars, closes, sigVars, mainVars>>

\* The callback returns: OnEvent to the loop over query_, Process to the
\* loop of ProcessCmd, TimeElapsed() to Run().
CallbackDone(w) ==
  /\ \/ pc[w] = "user" /\ Goto(w, "events")
     \/ pc[w] = "process" /\ Goto(w, "cmds")
     \/ pc[w] = "timers" /\ Goto(w, "check")
  /\ UNCHANGED <<status, loopVars, sendVars, chanVars, closes, sigVars, mainVars>>

------------------------------------------------------------------------------
(* The end of a worker.                                                    *)

\* if ( WORKER_STATUS_CLOSE == status_ ) { sleep_time = 5; ex_->Close();
CheckClose(w) ==
  /\ pc[w] = "check"
  /\ \/ /\ status[w] = "CLOSE"
        /\ sleep' = [sleep EXCEPT ![w] = "bounded"]
        /\ closes' = [closes EXCEPT ![w] = @ + 1]
        /\ Goto(w, "closing")
     \/ /\ status[w] # "CLOSE"
        /\ Goto(w, "check2")
        /\ UNCHANGED <<sleep, closes>>
  /\ UNCHANGED <<status, ev, infos, acc, sendVars, chanVars, sigVars, mainVars>>

\* timer_manager_->Close(); status_ = WORKER_STATUS_CLEAR; }
CloseDone(w) ==
  /\ pc[w] = "closing"
  /\ status' = [status EXCEPT ![w] = "CLEAR"]
  /\ Goto(w, "wait")
  /\ UNCHANGED <<loopVars, sendVars, chanVars, closes, sigVars, mainVars>>

\* Mutant: "else if" tests for anything but RUN.
CheckClear_NotRun(w) ==
  /\ pc[w] = "check2"
  /\ \/ /\ status[w] # "RUN"
        /\ sleep' = [sleep EXCEPT ![w] = "bounded"]
        /\ Goto(w, "clearing")
     \/ /\ status[w] = "RUN"
        /\ Goto(w, "wait")
        /\ UNCHANGED sleep
  /\ UNCHANGED <<status, ev, infos, acc, sendVars, chanVars, closes, sigVars, mainVars>>

\* else if ( WORKER_STATUS_CLEAR == status_ ) { sleep_time = 5; if ( ex_->Clear() )
CheckClear(w) ==
  /\ pc[w] = "check2"
  /\ \/ /\ status[w] = "CLEAR"
        /\ sleep' = [sleep EXCEPT ![w] = "bounded"]
        /\ Goto(w, "clearing")
     \/ /\ status[w] # "CLEAR"
        /\ Goto(w, "wait")
        /\ UNCHANGED sleep
  /\ UNCHANGED <<status, ev, infos, acc, sendVars, chanVars, closes, sigVars, mainVars>>

\* ex_->Clear() is false: the application still has something to finish.
ClearFalse(w) ==
  /\ pc[w] = "clearing"
  /\ Goto(w, "wait")
  /\ UNCHANGED <<status, loopVars, sendVars, chanVars, closes, sigVars, mainVars>>

\* ex_->Clear() is true: status_ = WORKER_STATUS_STOP; break;
ClearTrue(w) ==
  /\ pc[w] = "clearing"
  /\ status' = [status EXCEPT ![w] = "STOP"]
  /\ Goto(w, "done")
  /\ UNCHANGED <<loopVars, sendVars, chanVars, closes, sigVars, mainVars>>

------------------------------------------------------------------------------
(* EventManager.                                                           *)

\* SIGINT is delivered to some thread, which runs Stop(); a second one may
\* be delivered to another thread meanwhile.
Signal(s) ==
  /\ hpc[s] = "idle"
  /\ mpc # "returned"
  /\ hpc' = [hpc EXCEPT ![s] = "store"]
  /\ UNCHANGED <<status, pc, loopVars, sendVars, chanVars, closes, hat, asked, mainVars>>

\* worker_[i]->Close(): status_ = WORKER_STATUS_CLOSE;
CloseStore(s) ==
  /\ hpc[s] = "store"
  /\ status' = [status EXCEPT ![hat[s]] = "CLOSE"]
  /\ asked' = [asked EXCEPT ![hat[s]] = @ + 1]
  /\ hpc' = [hpc EXCEPT ![s] = "post"]
  /\ UNCHANGED <<pc, loopVars, sendVars, chanVars, closes, hat, mainVars>>

\* Mutant: the worker is not woken.
ClosePost_NoPost(s) ==
  /\ hpc[s] = "post"
  /\ \/ /\ hat[s] + 1 \in Worker
        /\ hat' = [hat EXCEPT ![s] = @ + 1]
        /\ hpc' = [hpc EXCEPT ![s] = "store"]
     \/ /\ hat[s] + 1 \notin Worker
        /\ hpc' = [hpc EXCEPT ![s] = "over"]
        /\ UNCHANGED hat
  /\ UNCHANGED <<status, pc, loopVars, sendVars, chanVars, closes, asked, mainVars>>

\* pIOHandlerManager_->Post(...), and on to the next worker.
ClosePost(s) ==
  /\ hpc[s] = "post"
  /\ Deliver(hat[s], Wake)
  /\ \/ /\ hat[s] + 1 \in Worker
        /\ hat' = [hat EXCEPT ![s] = @ + 1]
        /\ hpc' = [hpc EXCEPT ![s] = "store"]
     \/ /\ hat[s] + 1 \notin Worker
        /\ hpc' = [hpc EXCEPT ![s] = "over"]
        /\ UNCHANGED hat
  /\ UNCHANGED <<status, pc, loopVars, sendVars, queue, lost, closes, asked, mainVars>>

\* Loop() after worker_[0]->Run(): worker_[i]->Clear() joins the thread,
\* unless thread_ is not yet set.
Join ==
  /\ mpc = "run"
  /\ pc[0] = "done"
  /\ \/ /\ mat \in Worker
        /\ pc[mat] \in {"done", "start"}
        /\ mat' = mat + 1
        /\ UNCHANGED mpc
     \/ /\ mat \notin Worker
        /\ mpc' = "returned"
        /\ UNCHANGED mat
  /\ UNCHANGED <<status, pc, loopVars, sendVars, chanVars, closes, sigVars>>

------------------------------------------------------------------------------
\* What a worker's thread does by itself; the rest needs a peer or a signal.
Thread(w) ==
  \/ Initialize(w) \/ PulseTimeout(w) \/ RecvInfo(w) \/ Accept(w) \/ OnEvent(w)
  \/ (sock[w] # <<>> /\ Pulse(w))
  \/ EventsDone(w) \/ SendInsert(w) \/ SendPost(w) \/ ProcessCmd(w) \/ CmdsDone(w)
  \/ CallbackDone(w) \/ CheckClose(w) \/ CloseDone(w) \/ CheckClear(w)
  \/ ClearFalse(w) \/ ClearTrue(w)

Handler(s) == CloseStore(s) \/ ClosePost(s)

Next == \/ \E w \in Worker : Thread(w) \/ Pulse(w) \/ PulseEintr(w) \/ SendCmd(w)
        \/ \E s \in Sig : Signal(s) \/ Handler(s)
        \/ Join

Spec == Init /\ [][Next]_vars

\* Threads and handlers run on, application callbacks return, and Clear()
\* does not answer false for ever.  Nothing is assumed of peers, of EINTR
\* or of a timeout that is not one.
FairSpec == /\ Spec
            /\ \A w \in Worker : WF_vars(Thread(w)) /\ SF_vars(ClearTrue(w))
            /\ \A s \in Sig : WF_vars(Handler(s))
            /\ WF_vars(Join)

------------------------------------------------------------------------------
(* Properties.                                                             *)

\* The types of the variables, in the groups the steps change them in.
LoopType == /\ status \in [Worker -> Status]
            /\ pc \in [Worker -> Pc]
            /\ sleep \in [Worker -> {"bounded", "any"}]
            /\ ev \in [Worker -> SUBSET Event]
SendType == /\ out \in [Worker -> Chan \cup {Wake}]
            /\ ret \in [Worker -> Callback \cup {"wait", "events"}]
            /\ acc \in [Worker -> Nat]
            /\ sent \in Nat
ChanType == /\ infos \in [Worker -> Seq(Chan \cup {Wake})]
            /\ sock \in [Worker -> Seq(Chan \cup {Wake})]
            /\ queue \in [Chan -> Nat]
            /\ lost \in [Chan -> BOOLEAN]
StopType == /\ closes \in [Worker -> Nat]
            /\ asked \in [Worker -> Nat]
            /\ hpc \in [Sig -> {"idle", "store", "post", "over"}]
            /\ hat \in [Sig -> Worker]
            /\ mpc \in {"run", "returned"}
            /\ mat \in 1..N

\* Every member has a value the code can give it; the handler of a signal
\* is always at a worker that exists (Stop()'s loop over worker_), and the
\* index into other_ that Accept computes is one of its elements.
TypeOK == LoopType /\ SendType /\ ChanType /\ StopType

Elems(s) == {s[i] : i \in 1..Len(s)}

\* Worker w is between Insert and Post on channel c.
Announcing(w, c) == pc[w] = "post" /\ out[w] = c

\* A SendCmd under way is on a channel of this worker, and Run() goes on in
\* the loop over query_ or in the callback that called it; an acceptor that
\* is ready has workers to deal connections out to.
SendAt(w) ==
  /\ pc[w] \in {"insert", "post"} => /\ out[w] \in Chan /\ src[out[w]] = w
                                     /\ ret[w] \in Callback \cup {"events"}
  /\ "accept" \in ev[w] => other[w] # <<>>

\* ex_->Close() is running (a SendCmd it called included).
InClose(w) == \/ pc[w] = "closing"
              \/ pc[w] \in {"insert", "post"} /\ ret[w] = "closing"

\* What status_ tells of the calls of ex_->Close(), whoever wrote it last.
CloseAt(w) ==
  /\ closes[w] <= asked[w]
  /\ status[w] = "RUN" => asked[w] = 0
  /\ status[w] = "CLOSE" /\ ~InClose(w) => closes[w] < asked[w]
  /\ status[w] \in {"CLEAR", "STOP"} => closes[w] > 0
  /\ pc[w] \in {"clearing", "done"} \/ InClose(w) => closes[w] > 0

SendInv == \A w \in Worker : SendAt(w)
CloseInv == \A w \in Worker : CloseAt(w)

\* The invariant of the event loops that the proofs are by induction on: a
\* worker that sends is on a channel of its own, and status_ and the place
\* of Run() bound the calls of ex_->Close() (Run, Close, SendCmd).
LoopInv == SendInv /\ CloseInv

\* What will still make the reader look at channel c, or lost.
Traced(c) == \/ lost[c]
             \/ Announcing(src[c], c)
             \/ c \in Elems(sock[dst[c]]) \cup Elems(infos[dst[c]])

\* No command waits unannounced: when a channel holds a command, its number
\* is still to be posted, waits at the reader's socket or is in the reader's
\* info_vec, unless a Post of that channel was dropped (SendCmd, Pulse and
\* ProcessCmd together, for any speed of the two threads).
WakePending == \A c \in Chan : queue[c] > 0 => Traced(c)

\* A worker calls ex_->Close() at most once for each signal, and never ends
\* without having called it, whatever signals arrive between its two tests
\* of status_ or while it stores CLEAR or STOP (Run, Close).
CloseBracket ==
  \A w \in Worker : /\ closes[w] <= asked[w]
                    /\ pc[w] = "done" => closes[w] > 0

\* Once a worker has called ex_->Close(), its acceptor hands out no
\* connection, although status_ is written by two threads (Accept).
NoAcceptAfterClose ==
  [][\A w \in Worker : acc'[w] # acc[w] => closes[w] = 0]_vars

\* An announcement that reaches the reader's socket has the channel found
\* empty, unless the reader ends first, so every command sent before it is
\* processed, also those whose own announcement was dropped; no timeout is
\* needed (Post, Pulse, ProcessCmd).
Delivered ==
  \A c \in Chan : c \in Elems(sock[dst[c]]) ~> (queue[c] = 0 \/ pc[dst[c]] = "done")

\* After SIGINT every worker ends and Loop() returns, even if the wake-up
\* datagram is dropped, EINTR left a worker with an endless timeout or
\* another signal overwrites status_ (Stop, Close, Run, Clear, Loop).
ShutdownCompletes ==
  \A s \in Sig : hpc[s] = "store" ~> (mpc = "returned" /\ \A w \in Worker : pc[w] = "done")

==============================================================================
