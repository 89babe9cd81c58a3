----------------------------- MODULE Connection ----------------------------
(***************************************************************************)
(* The connections of one worker: BaseProcess objects, the handlers that    *)
(* serve their descriptors (carriers and connectors), the epoll set, and    *)
(* the commands that bring descriptors accepted or transferred by other     *)
(* workers.  Everything here runs on the worker's thread; what is hard is   *)
(* that handlers and processes delete each other, also from callbacks, and  *)
(* that a message may be sent in pieces by SendMsg and by write events.     *)
(*                                                                         *)
(* A step that would make the code use memory it has deleted stops the      *)
(* model: fault says which.                                                *)
(***************************************************************************)
EXTENDS Integers, Sequences, FiniteSets

CONSTANTS Procs,       \* BaseProcess objects
          Handlers,    \* IOHandler objects
          Fds,         \* descriptors
          NULL,
          Kinds,       \* the kinds of connection there are
          SendBuffer,  \* send_buffer_size_
          MaxMsg,      \* the longest message
          MaxGiven,    \* bound: bytes given to SendMsg on one connection
          Peers        \* bound: processes that send nothing, on TCP connections

ASSUME ConnectionAssumption ==
  /\ Kinds \subseteq {"tcp", "unix", "udp", "pipe"}
  /\ NULL \notin Handlers \cup Procs \cup Fds
  /\ "dangling" \notin Handlers \cup {NULL}
  /\ {SendBuffer, MaxMsg, MaxGiven} \subseteq Nat

VARIABLES
  proc,      \* per process: net status, io_handler_, with_me_, is_write_, output
  hand,      \* per handler: type_, process_, flag_, fd_, the events epoll watches
  stream,    \* per process, auxiliary: what the connection has carried
  open,      \* descriptors that are open
  attached,  \* processes in net_timeout_manager_
  cmds,      \* accept and transfer commands on their way to this worker
  query,     \* handlers epoll_wait reported and Pulse has not served yet
  pc,        \* where the worker is
  cur,       \* the handler and the events OnEvent is at, and the caller of Process
  closed,    \* timer_manager_->Close() was called
  fault

vars == <<proc, hand, stream, open, attached, cmds, query, pc, cur, closed, fault>>

\* A closed connection is DISCONNECT here, PEER_RESET or SYS_ERROR in the code
\* by the reason: only DetachNet() of the application looks at which.
Status == {"DISCONNECT", "CONNECTING", "CONNECTED", "TIMEOUT"}
CLOSE_FD == {"fd"}
CLOSE_ALL == {"fd", "process"}

NoProcess == [st |-> "none", io |-> NULL, me |-> TRUE, wr |-> FALSE, out |-> <<>>]
NoHandler == [ty |-> "none", p |-> NULL, fl |-> {}, fd |-> NULL, ev |-> {}]
NewStream == [wire |-> <<>>, given |-> 0, torn |-> FALSE, stale |-> FALSE]
Nobody == [h |-> NULL, ev |-> {}, at |-> "none"]

Connectors == {"tcp connector", "unix connector"}
IsCarrier(h) == hand[h].ty \in Kinds
Live == {p \in Procs : proc[p].st # "none"}
KindsOf(p) == IF p \in Peers THEN Kinds \cap {"tcp"} ELSE Kinds
FreeHandlers == {h \in Handlers : hand[h].ty = "none"}

Init == /\ proc = [p \in Procs |-> NoProcess]
        /\ hand = [h \in Handlers |-> NoHandler]
        /\ stream = [p \in Procs |-> NewStream]
        /\ open = {} /\ attached = {} /\ cmds = <<>> /\ query = {}
        /\ pc = "timers" /\ cur = Nobody
        /\ closed = FALSE /\ fault = "none"

-----------------------------------------------------------------------------
(***************************************************************************)
(* Construction and destruction.                                           *)
(***************************************************************************)
\* IOHandler's constructor: watched for reading, and the process knows it.
NewHandler(ty, p, fd) ==
  [ty |-> ty, p |-> p, fd |-> fd, ev |-> {"in"},
   fl |-> IF proc[p].me THEN CLOSE_ALL ELSE CLOSE_FD]

\* A carrier's constructor: CONNECTED, and AttachNet().  is_write_ and the
\* output buffer stay as an earlier connection left them.
Carry(p, h) ==
  /\ proc' = [proc EXCEPT ![p].st = "CONNECTED", ![p].io = h]
  /\ attached' = attached \cup {p}
  /\ stream' = [stream EXCEPT ![p] =
       [NewStream EXCEPT !.torn = proc[p].out # <<>>, !.stale = proc[p].wr]]

\* What goes wrong when the handlers D are deleted, other than by Pulse after
\* their own OnEvent, or the processes S.
FaultOf(D, S) ==
  CASE D \cap query # {} -> "query"       \* the rest of query_ points at it
    [] cur.h \in D       -> "callback"    \* OnEvent goes on when Process returns
    [] \E h \in Handlers \ D : hand[h].ty # "none" /\ hand[h].p \in S -> "orphan"
    [] OTHER             -> "none"

\* Mutant: a process that is kept goes on pointing at its handler.
DestroyDangling(D, S, pr) ==
  /\ hand' = [h \in Handlers |-> IF h \in D THEN NoHandler ELSE hand[h]]
  /\ proc' = [p \in Procs |-> IF p \in S THEN NoProcess ELSE pr[p]]
  /\ stream' = [p \in Procs |-> IF p \in S THEN NewStream ELSE stream[p]]
  /\ open' = open \ {hand[h].fd : h \in {x \in D : "fd" \in hand[x].fl}}
  /\ attached' = attached \ {hand[h].p : h \in {x \in D : IsCarrier(x)}}

\* The destructors of the handlers D (a carrier detaches its process, and a
\* process that is not deleted forgets its handler) and of the processes S.
\* pr is the table of processes with the statuses set before.
Destroy(D, S, pr) ==
  /\ hand' = [h \in Handlers |-> IF h \in D THEN NoHandler ELSE hand[h]]
  /\ proc' = [p \in Procs |-> CASE p \in S -> NoProcess
                                [] p \notin S /\ pr[p].io \in D -> [pr[p] EXCEPT !.io = NULL]
                                [] OTHER -> pr[p]]
  /\ stream' = [p \in Procs |-> IF p \in S THEN NewStream ELSE stream[p]]
  /\ open' = open \ {hand[h].fd : h \in {x \in D : "fd" \in hand[x].fl}}
  /\ attached' = attached \ {hand[h].p : h \in {x \in D : IsCarrier(x)}}

\* OnEvent returned false: Pulse calls EnqueueForDelete, which deletes the
\* handler, and with it the process unless that is kept.
End ==
  LET p == hand[cur.h].p IN
  /\ Destroy({cur.h}, IF "process" \in hand[cur.h].fl THEN {p} ELSE {},
             [proc EXCEPT ![p].st = "DISCONNECT"])
  /\ pc' = "events" /\ cur' = Nobody
  /\ UNCHANGED <<cmds, query, closed, fault>>

\* BaseProcess::Free for every process of S: with a connection or a connector
\* the handler is deleted with the process whatever with_me_ says, otherwise
\* the process alone.
FreeAll(S, pr) ==
  LET D == {pr[p].io : p \in {x \in S : pr[x].st \in {"CONNECTED", "CONNECTING", "TIMEOUT"}}}
  IN  /\ Destroy(D, S, pr)
      /\ fault' = FaultOf(D, S)

-----------------------------------------------------------------------------
(***************************************************************************)
(* Output.  Bytes are numbered by the order in which the application gave  *)
(* them, so that stream.wire shows what the peer sees.                     *)
(***************************************************************************)
Watch(h, on) == [hand EXCEPT ![h].ev = IF on THEN {"in", "out"} ELSE {"in"}]

\* The application may be running: in Process(), in a timer, in Close().
InApp == pc \in {"process", "timers"} /\ fault = "none"

\* What the connection has carried after the bytes s went out and n were given.
Carried(p, s, n) ==
  [stream EXCEPT ![p].wire = IF stream[p].torn THEN @ ELSE @ \o s, ![p].given = @ + n,
                 ![p].stale = @ /\ proc'[p].wr]

\* A SendMsg that returned false may have sent part of its bytes.
Torn(p) == [stream EXCEPT ![p] = [NewStream EXCEPT !.torn = TRUE, !.stale = stream[p].stale]]

\* Mutant: the new bytes are kept in front of the old ones.
SaveCacheSwapped(p, rest, sent, new) ==
  LET tail == SubSeq(new, Len(sent) + 1, Len(new))
      flushed == SubSeq(proc[p].out, 1, Len(proc[p].out) - Len(rest)) IN
  /\ Len(rest) + Len(tail) <= SendBuffer
  /\ proc' = [proc EXCEPT ![p].out = tail \o rest, ![p].wr = TRUE]
  /\ stream' = Carried(p, flushed \o sent, Len(new))
  /\ hand' = IF proc[p].wr THEN hand ELSE Watch(proc[p].io, TRUE)

\* SENDMSG_SAVE_CACHE: the rest of the buffer and what is left of the new bytes
\* are kept, unless that is too much; the write event is asked for once.
SaveCache(p, rest, sent, new) ==
  LET h == proc[p].io
      tail == SubSeq(new, Len(sent) + 1, Len(new))
      flushed == SubSeq(proc[p].out, 1, Len(proc[p].out) - Len(rest)) IN
  IF SendBuffer < Len(rest) + Len(tail)
    THEN /\ proc' = [proc EXCEPT ![p].out = rest]
         /\ stream' = Torn(p)
         /\ UNCHANGED hand
    ELSE /\ proc' = [proc EXCEPT ![p].out = rest \o tail, ![p].wr = TRUE]
         /\ stream' = Carried(p, flushed \o sent, Len(new))
         /\ hand' = IF proc[p].wr THEN hand ELSE Watch(h, TRUE)

\* First what is buffered goes out, then the new bytes; what is left is saved.
Send(p, n) ==
  LET out == proc[p].out
      h == proc[p].io
      new == [i \in 1..n |-> stream[p].given + i] IN
  /\ InApp /\ stream[p].given + n <= MaxGiven
  /\ \/ \E k \in 0..Len(out) :
          IF k < Len(out)
            THEN SaveCache(p, SubSeq(out, k + 1, Len(out)), <<>>, new)
            ELSE \E r \in 0..n :
                   IF r < n
                     THEN SaveCache(p, <<>>, SubSeq(new, 1, r), new)
                     ELSE /\ proc' = [proc EXCEPT ![p].out = <<>>, ![p].wr = FALSE]
                          /\ stream' = Carried(p, out \o new, n)
                          /\ hand' = IF proc[p].wr THEN Watch(h, FALSE) ELSE hand
     \/ \* the descriptor fails: false is returned
        /\ stream' = Torn(p)
        /\ UNCHANGED <<proc, hand>>
  /\ UNCHANGED <<open, attached, cmds, query, pc, cur, closed, fault>>

Sender(p) == p \in Live \ Peers /\ proc[p].st = "CONNECTED"

\* SendMsg does nothing, and returns true, when the process is not CONNECTED.
SendMsg(p, n) == Sender(p) /\ hand[proc[p].io].ty # "udp" /\ Send(p, n)

\* SendToMsg: an element of the buffer is a datagram with its address, sent whole.
SendToMsg(p) == Sender(p) /\ hand[proc[p].io].ty = "udp" /\ Send(p, 1)

-----------------------------------------------------------------------------
(***************************************************************************)
(* What the application does from its callbacks.                           *)
(***************************************************************************)
\* new BaseProcess, then SetWithMe as the application likes.
Create(p, me) ==
  /\ InApp /\ p \notin Live
  /\ proc' = [proc EXCEPT ![p] = [NoProcess EXCEPT !.st = "DISCONNECT", !.me = me]]
  /\ UNCHANGED <<hand, stream, open, attached, cmds, query, pc, cur, closed, fault>>

\* SetWithMe writes through io_handler_, which a failed connect left behind.
SetWithMe(p, me) ==
  LET h == proc[p].io IN
  /\ InApp /\ p \in Live /\ proc[p].me # me
  /\ proc' = [proc EXCEPT ![p].me = me]
  /\ hand' = IF h \in Handlers
               THEN [hand EXCEPT ![h].fl = IF me THEN CLOSE_ALL ELSE CLOSE_FD] ELSE hand
  /\ fault' = IF h = "dangling" THEN "dangling" ELSE "none"
  /\ UNCHANGED <<stream, open, attached, cmds, query, pc, cur, closed>>

SetEnableWrite(p) ==
  LET h == proc[p].io IN
  /\ InApp /\ p \in Live /\ h # NULL /\ ~proc[p].wr
  /\ proc' = [proc EXCEPT ![p].wr = TRUE]
  /\ hand' = IF h \in Handlers THEN Watch(h, TRUE) ELSE hand
  /\ fault' = IF h = "dangling" THEN "dangling" ELSE "none"
  /\ UNCHANGED <<stream, open, attached, cmds, query, pc, cur, closed>>

Free(p) ==
  /\ InApp /\ p \in Live
  /\ FreeAll({p}, proc)
  /\ UNCHANGED <<cmds, query, pc, cur, closed>>

\* A process without a connection, for which the application may ask for one.
Idle(p) == /\ InApp /\ p \in Live /\ proc[p].st \notin {"CONNECTING", "CONNECTED", "TIMEOUT"}
           /\ proc[p].io \notin Handlers

\* The connector waits to become writable.  When connect() fails at once it is
\* deleted, and a kept process goes on pointing at it.
Connect(p, ty, h, fd) ==
  /\ Idle(p) /\ h \in FreeHandlers /\ fd \in Fds \ open
  /\ \/ /\ hand' = [hand EXCEPT ![h] = [NewHandler(ty, p, fd) EXCEPT !.ev = {"in", "out"}]]
        /\ proc' = [proc EXCEPT ![p].st = "CONNECTING", ![p].io = h]
        /\ open' = open \cup {fd}
        /\ UNCHANGED stream
     \/ /\ proc' = [proc EXCEPT ![p] = IF proc[p].me THEN NoProcess
                      ELSE [@ EXCEPT !.st = "DISCONNECT", !.io = "dangling"]]
        /\ stream' = IF proc[p].me THEN [stream EXCEPT ![p] = NewStream] ELSE stream
        /\ UNCHANGED <<hand, open>>
  /\ UNCHANGED <<attached, cmds, query, pc, cur, closed, fault>>

TCPConnect(p, h, fd)  == "tcp" \in KindsOf(p) /\ Connect(p, "tcp connector", h, fd)
UNIXConnect(p, h, fd) == "unix" \in KindsOf(p) /\ Connect(p, "unix connector", h, fd)

\* A carrier at once; out: what is watched besides EPOLLIN.
OpenCarrier(p, ty, h, fd, out) ==
  /\ ty \in KindsOf(p) /\ Idle(p) /\ h \in FreeHandlers /\ fd \in Fds \ open
  /\ hand' = [hand EXCEPT ![h] = [NewHandler(ty, p, fd) EXCEPT !.ev = @ \cup out]]
  /\ open' = open \cup {fd}
  /\ Carry(p, h)
  /\ fault' = IF closed THEN "manager" ELSE "none"
  /\ UNCHANGED <<cmds, query, pc, cur, closed>>

UDPListenOrConnect(p, h, fd) == OpenCarrier(p, "udp", h, fd, {})
OpenPipeForRead(p, h, fd)    == OpenCarrier(p, "pipe", h, fd, {})
\* Also watched for writing, which is_write_ does not record.
OpenPipeForWrite(p, h, fd)   == OpenCarrier(p, "pipe", h, fd, {"out"})

\* A duplicate of the descriptor goes to a worker, here this one.
Transfer(p, ty, fd) ==
  /\ InApp /\ p \in Live /\ proc[p].st = "CONNECTED" /\ hand[proc[p].io].ty = ty
  /\ fd \in Fds \ open
  /\ open' = open \cup {fd}
  /\ cmds' = Append(cmds, [ty |-> ty, fd |-> fd, transfer |-> TRUE])
  /\ UNCHANGED <<proc, hand, stream, attached, query, pc, cur, closed, fault>>

TCPTransfer(p, fd)  == Transfer(p, "tcp", fd)
UNIXTransfer(p, fd) == Transfer(p, "unix", fd)

App == \E p \in Procs :
         \/ \E n \in 1..MaxMsg : SendMsg(p, n)
         \/ SendToMsg(p)
         \/ \E me \in BOOLEAN : Create(p, me) \/ SetWithMe(p, me)
         \/ SetEnableWrite(p)
         \/ Free(p)
         \/ \E fd \in Fds : TCPTransfer(p, fd) \/ UNIXTransfer(p, fd)
         \/ \E h \in Handlers, fd \in Fds :
              \/ TCPConnect(p, h, fd) \/ UNIXConnect(p, h, fd)
              \/ UDPListenOrConnect(p, h, fd)
              \/ OpenPipeForRead(p, h, fd) \/ OpenPipeForWrite(p, h, fd)

-----------------------------------------------------------------------------
(***************************************************************************)
(* Pulse.                                                                  *)
(***************************************************************************)
Goto(to) == /\ pc' = to
            /\ UNCHANGED <<proc, hand, stream, open, attached, cmds, query, closed, fault>>

\* process_->Process() is called, for the part "at" of OnEvent.
Callback(at) == cur' = [cur EXCEPT !.at = at, !.ev = @ \ {at}] /\ Goto("process")

\* The rest of OnEvent after its part in pc is over.
Proceed(to) == UNCHANGED cur /\ Goto(to)

\* The timers are done: the next epoll_wait.
EpollWait ==
  /\ pc = "timers" /\ fault = "none"
  /\ query' \in SUBSET {h \in Handlers : hand[h].ev # {}}
  /\ pc' = "events"
  /\ UNCHANGED <<proc, hand, stream, open, attached, cmds, cur, closed, fault>>

\* Mutant: the connector's destructor closes the descriptor.
ConnectedCloseFd(h, p, c) ==
  /\ Carry(p, c)
  /\ hand' = [hand EXCEPT ![h] = NoHandler,
       ![c] = NewHandler(IF hand[h].ty = "tcp connector" THEN "tcp" ELSE "unix", p, hand[h].fd)]
  /\ open' = open \ {hand[h].fd}

\* Connected: a carrier takes the descriptor over and the connector is deleted
\* with IOHT_FLAG_CLOSE_NONE.
Connected(h, p, c) ==
  /\ Carry(p, c)
  /\ hand' = [hand EXCEPT ![h] = NoHandler,
       ![c] = NewHandler(IF hand[h].ty = "tcp connector" THEN "tcp" ELSE "unix", p, hand[h].fd)]
  /\ open' = open

\* A connector's OnEvent: an error ends it (EnqueueForDelete), anything else
\* counts as connected.
ConnectorEvent(h, ev) ==
  LET p == hand[h].p IN
  /\ IF "err" \in ev
       THEN /\ Destroy({h}, IF "process" \in hand[h].fl THEN {p} ELSE {},
                       [proc EXCEPT ![p].st = "DISCONNECT"])
            /\ UNCHANGED fault
       ELSE /\ \E c \in FreeHandlers : Connected(h, p, c)
            /\ fault' = IF closed THEN "manager" ELSE "none"
  /\ UNCHANGED <<cmds, pc, cur, closed>>

TCPConnectorEvent(h, ev)  == hand[h].ty = "tcp connector" /\ ConnectorEvent(h, ev)
UNIXConnectorEvent(h, ev) == hand[h].ty = "unix connector" /\ ConnectorEvent(h, ev)

\* The errors that end OnEvent before it reads (a pipe looks at errors last).
TcpEnds(ev) == ev \cap {"err", "hup"} # {}
UnixEnds(ev) == ev \cap {"err", "hup"} # {}
UdpEnds(ev) == "err" \in ev
EndsAtOnce(h, ev) == \/ proc[hand[h].p].st # "CONNECTED"
                     \/ hand[h].ty = "tcp" /\ TcpEnds(ev)
                     \/ hand[h].ty = "unix" /\ UnixEnds(ev)
                     \/ hand[h].ty = "udp" /\ UdpEnds(ev)

\* Where OnEvent goes on after it has read: a pipe asks its process before it
\* writes.
AfterRead(h, ev) == CASE "out" \notin ev -> "tail"
                      [] "out" \in ev /\ hand[h].ty = "pipe" -> "write"
                      [] OTHER -> "flush"

\* A carrier's OnEvent up to its reading.
CarrierEvent(h, ev) ==
  /\ IsCarrier(h)
  /\ cur' = [h |-> h, ev |-> IF hand[h].ty = "pipe" THEN ev ELSE ev \cap {"in", "out"}, at |-> "none"]
  /\ pc' = CASE EndsAtOnce(h, ev) -> "end"
              [] ~EndsAtOnce(h, ev) /\ "in" \in ev -> "read"
              [] OTHER -> AfterRead(h, ev)
  /\ UNCHANGED <<proc, hand, stream, open, attached, cmds, closed, fault>>

\* The next entry of query_.  Its events are those of the time of epoll_wait;
\* one that is out of date by now is as if it were spurious.
OnEvent(h, ev) ==
  /\ pc = "events" /\ fault = "none" /\ h \in query
  /\ query' = query \ {h}
  /\ TCPConnectorEvent(h, ev) \/ UNIXConnectorEvent(h, ev) \/ CarrierEvent(h, ev)

EndAtOnce == pc = "end" /\ fault = "none" /\ End

\* EAGAIN: nothing to read after all.
NothingRead == /\ cur' = [cur EXCEPT !.ev = @ \ {"in"}]
               /\ Goto(AfterRead(cur.h, cur.ev))

\* Bytes for Process(); or the peer has closed, or the read fails; or nothing
\* is there, which a UNIX carrier and a pipe pass on to Process() like data, and
\* so does a pipe the end of its file.
TcpRead  == hand[cur.h].ty = "tcp" /\ (Callback("in") \/ End \/ NothingRead)
UnixRead == hand[cur.h].ty = "unix" /\ (Callback("in") \/ End)
UdpRead  == hand[cur.h].ty = "udp" /\ (Callback("in") \/ End \/ NothingRead)
PipeRead == hand[cur.h].ty = "pipe" /\ (Callback("in") \/ End)

Read == /\ pc = "read" /\ fault = "none"
        /\ TcpRead \/ UnixRead \/ UdpRead \/ PipeRead

\* A pipe calls Process() before it writes.
AskToWrite == pc = "write" /\ fault = "none" /\ Callback("out")

\* k of the buffered bytes go out; off: the write event is no longer asked for.
Flush(p, k, off) ==
  LET out == proc[p].out IN
  /\ proc' = [proc EXCEPT ![p].out = SubSeq(out, k + 1, Len(out)), ![p].wr = @ /\ ~off]
  /\ hand' = IF off THEN Watch(cur.h, FALSE) ELSE hand
  /\ stream' = Carried(p, SubSeq(out, 1, k), 0)

\* With nothing left a stream socket disables the write event; a UDP socket does
\* so unless there was nothing to begin with; a pipe never does.
TcpWrite(p, k)  == hand[cur.h].ty = "tcp" /\ Flush(p, k, k = Len(proc[p].out))
UnixWrite(p, k) == hand[cur.h].ty = "unix" /\ Flush(p, k, k = Len(proc[p].out))
UdpWrite(p, k)  == hand[cur.h].ty = "udp" /\ Flush(p, k, k = Len(proc[p].out) /\ k # 0)
PipeWrite(p, k) == hand[cur.h].ty = "pipe" /\ Flush(p, k, FALSE)

WriteEvent ==
  LET p == hand[cur.h].p IN
  /\ pc = "flush" /\ fault = "none"
  /\ \/ proc[p].out # <<>> /\ End
     \/ \E k \in 0..Len(proc[p].out) :
          /\ TcpWrite(p, k) \/ UnixWrite(p, k) \/ UdpWrite(p, k) \/ PipeWrite(p, k)
          /\ pc' = "tail"
          /\ cur' = [cur EXCEPT !.ev = @ \ {"out"}, !.at = "none"]
          /\ UNCHANGED <<open, attached, cmds, query, closed, fault>>

\* The end of OnEvent: a pipe's errors, of which EPOLLHUP does not end it, then
\* IsCloseNet().
Tail_ ==
  LET pipe == hand[cur.h].ty = "pipe" IN
  /\ pc = "tail" /\ fault = "none"
  /\ CASE pipe /\ "err" \in cur.ev -> Callback("err")
       [] pipe /\ "err" \notin cur.ev /\ "hup" \in cur.ev -> Callback("hup")
       [] OTHER -> \/ End
                   \/ cur' = Nobody /\ Goto("events")

\* Process() returns to the part of OnEvent that called it, or to the transfer
\* command, which frees the process when it is told so.
Return(ok) ==
  LET p == hand[cur.h].p IN
  /\ pc = "process" /\ fault = "none"
  /\ CASE cur.at = "in" -> IF ok THEN Proceed(AfterRead(cur.h, cur.ev)) ELSE End
       [] cur.at = "out" -> IF ok THEN Proceed("flush") ELSE End
       [] cur.at = "err" -> End
       [] cur.at = "hup" -> /\ proc' = [proc EXCEPT ![p].st = "DISCONNECT"]
                            /\ pc' = "tail"
                            /\ UNCHANGED <<hand, stream, open, attached, cmds, query, cur, closed, fault>>
       [] cur.at = "cmd" -> /\ cur' = Nobody
                            /\ IF ok THEN Goto("cmds")
                               ELSE /\ Destroy({cur.h}, {p}, proc)
                                    /\ pc' = "cmds"
                                    /\ UNCHANGED <<cmds, query, closed, fault>>

Served ==
  /\ pc = "events" /\ query = {} /\ fault = "none"
  /\ UNCHANGED cur /\ Goto("cmds")

\* A descriptor accepted by another worker, or by an acceptor of this one, whose
\* command is announced.
Arrive(ty, fd) ==
  /\ fault = "none" /\ pc = "cmds" /\ ty \in Kinds /\ fd \in Fds \ open
  /\ open' = open \cup {fd}
  /\ cmds' = Append(cmds, [ty |-> ty, fd |-> fd, transfer |-> FALSE])
  /\ UNCHANGED <<proc, hand, stream, attached, query, pc, cur, closed, fault>>

TCPAccept(fd)  == Arrive("tcp", fd)
UNIXAccept(fd) == Arrive("unix", fd)

\* CreateTCPProcess or CreateUNIXProcess of the application refuses.
Refused(c) == /\ open' = open \ {c.fd}
              /\ UNCHANGED <<proc, hand, stream, attached, pc, cur, fault>>

\* A process, and a carrier for it.
NewConnection(p, h, c) ==
  /\ hand' = [hand EXCEPT ![h] = NewHandler(c.ty, p, c.fd)]
  /\ proc' = [proc EXCEPT ![p] = [NoProcess EXCEPT !.st = "CONNECTED", !.io = h]]
  /\ attached' = attached \cup {p}
  /\ fault' = IF closed THEN "manager" ELSE "none"
  /\ UNCHANGED <<stream, open>>

AcceptCmd(p, h, c) == Refused(c) \/ (NewConnection(p, h, c) /\ UNCHANGED <<pc, cur>>)

\* The data that came with the connection are given to Process().
TransferCmd(p, h, c) ==
  \/ Refused(c)
  \/ /\ NewConnection(p, h, c)
     /\ pc' = "process" /\ cur' = [h |-> h, ev |-> {}, at |-> "cmd"]

TCPAcceptCmd(p, h, c)    == ~c.transfer /\ c.ty = "tcp" /\ AcceptCmd(p, h, c)
UNIXAcceptCmd(p, h, c)   == ~c.transfer /\ c.ty = "unix" /\ AcceptCmd(p, h, c)
TCPTransferCmd(p, h, c)  == c.transfer /\ c.ty = "tcp" /\ TransferCmd(p, h, c)
UNIXTransferCmd(p, h, c) == c.transfer /\ c.ty = "unix" /\ TransferCmd(p, h, c)

\* The next command that the worker's ProcessCmd takes from its channels.
ProcessCmd(p, h) ==
  LET c == Head(cmds) IN
  /\ pc = "cmds" /\ cmds # <<>> /\ fault = "none"
  /\ p \notin Live /\ h \in FreeHandlers /\ c.ty \in KindsOf(p)
  /\ cmds' = Tail(cmds)
  /\ \/ TCPAcceptCmd(p, h, c) \/ UNIXAcceptCmd(p, h, c)
     \/ TCPTransferCmd(p, h, c) \/ UNIXTransferCmd(p, h, c)
  /\ UNCHANGED <<query, closed>>

\* No command was announced, or all of them are processed (NetWorker).
CmdsDone == pc = "cmds" /\ fault = "none" /\ UNCHANGED cur /\ Goto("timeouts")

\* Mutant: connections are timed out between two events of one Pulse.
TimeoutInEvents(p) ==
  /\ pc \in {"timeouts", "events"} /\ fault = "none" /\ ~closed /\ p \in attached
  /\ FreeAll({p}, [proc EXCEPT ![p].st = "TIMEOUT"])
  /\ UNCHANGED <<cmds, query, pc, cur, closed>>

\* TimeElapsedTimeout finds p: DoTimeout() sets TIMEOUT, then Free().
Timeout(p) ==
  /\ pc = "timeouts" /\ fault = "none" /\ ~closed /\ p \in attached
  /\ FreeAll({p}, [proc EXCEPT ![p].st = "TIMEOUT"])
  /\ UNCHANGED <<cmds, query, pc, cur, closed>>

TimeoutsDone == pc = "timeouts" /\ fault = "none" /\ UNCHANGED cur /\ Goto("timers")

\* NetWorker::Run in status CLOSE: timer_manager_->Close() deletes the timeout
\* manager, whose destructor frees every process in it.
CloseTimers ==
  /\ pc = "timers" /\ fault = "none" /\ ~closed
  /\ FreeAll(attached, proc)
  /\ closed' = TRUE
  /\ UNCHANGED <<cmds, query, pc, cur>>

Next == \/ App
        \/ EpollWait
        \/ \E h \in Handlers : \E ev \in SUBSET (hand[h].ev \cup {"err", "hup"}) \ {{}} : OnEvent(h, ev)
        \/ EndAtOnce \/ Read \/ AskToWrite \/ WriteEvent \/ Tail_
        \/ \E ok \in BOOLEAN : Return(ok)
        \/ Served
        \/ \E fd \in Fds : TCPAccept(fd) \/ UNIXAccept(fd)
        \/ \E p \in Procs, h \in Handlers : ProcessCmd(p, h)
        \/ CmdsDone
        \/ \E p \in Procs : Timeout(p)
        \/ TimeoutsDone \/ CloseTimers

Spec == Init /\ [][Next]_vars

-----------------------------------------------------------------------------
Faults == {"none", "query", "callback", "orphan", "manager", "dangling"}

\* Every member has a value the code can give it, and no output buffer holds
\* more than send_buffer_size_ (SaveCache).
TypeOK ==
  /\ proc \in [Procs -> [st : Status \cup {"none"}, io : Handlers \cup {NULL, "dangling"},
                         me : BOOLEAN, wr : BOOLEAN, out : Seq(1..MaxGiven)]]
  /\ \A p \in Procs : Len(proc[p].out) <= SendBuffer
  /\ \A h \in Handlers : /\ hand[h].ty \in Kinds \cup Connectors \cup {"none"}
                         /\ hand[h].fl \in {{}, CLOSE_FD, CLOSE_ALL}
                         /\ hand[h].ev \subseteq {"in", "out"}
  /\ open \subseteq Fds /\ attached \subseteq Procs
  /\ query \subseteq Handlers /\ cur.h \in Handlers \cup {NULL}
  /\ closed \in BOOLEAN /\ fault \in Faults

(***************************************************************************)
(* A handler and its process know each other as long as either lives, the  *)
(* process's status says what kind of handler it has, Pulse has no pointer  *)
(* to a deleted handler, and exactly the processes with a carrier are in    *)
(* the timeout manager: whatever is deleted by an event, by a timeout, by   *)
(* the close of the worker or by the application takes all of its links     *)
(* with it.                                                                *)
(***************************************************************************)
Linked ==
  fault = "none" =>
    /\ \A h \in Handlers : hand[h].ty # "none" => hand[h].p \in Live /\ proc[hand[h].p].io = h
    /\ \A p \in Live : LET h == proc[p].io IN
         /\ proc[p].st = "CONNECTED" => h \in Handlers /\ IsCarrier(h) /\ hand[h].p = p
         /\ proc[p].st = "CONNECTING" => h \in Handlers /\ hand[h].ty \in Connectors /\ hand[h].p = p
         /\ h \in Handlers => hand[h].p = p
    /\ \A h \in query \cup {cur.h} : h # NULL => hand[h].ty # "none"
    /\ attached = {hand[h].p : h \in {x \in Handlers : IsCarrier(x)}}

\* Connect, accept, transfer, Process(), Timeout and Close, with Free() called
\* from any of their callbacks, leave no half of a connection behind.
LinksOK == TypeOK /\ Linked

(***************************************************************************)
(* Every open descriptor belongs to one handler that will close it or to    *)
(* one command on its way, and no handler has a descriptor that was closed  *)
(* behind it: nothing is leaked or closed twice when a connector hands its  *)
(* descriptor to a carrier, or a connection is transferred and ends here.   *)
(***************************************************************************)
FdOwned ==
  fault = "none" =>
    /\ \A fd \in open : Cardinality({h \in Handlers : hand[h].fd = fd})
                          + Cardinality({i \in DOMAIN cmds : cmds[i].fd = fd}) = 1
    /\ \A h \in Handlers : hand[h].ty # "none" => hand[h].fd \in open /\ "fd" \in hand[h].fl

(***************************************************************************)
(* What went to the peer followed by what is buffered is what the           *)
(* application gave, in order and once, however the descriptor takes the   *)
(* bytes and whether SendMsg or a write event sends them, until a SendMsg   *)
(* returns false or if the process came with bytes of an earlier connection.*)
(***************************************************************************)
StreamInOrder ==
  fault = "none" =>
    \A p \in Live : proc[p].st = "CONNECTED" /\ ~stream[p].torn =>
      stream[p].wire \o proc[p].out = [i \in 1..stream[p].given |-> i]

(***************************************************************************)
(* Buffered bytes are never forgotten: the write event is watched as long   *)
(* as there are any.  The exception is stale: a kept process that lost its  *)
(* connection while is_write_ was set and has connected again.             *)
(***************************************************************************)
WriteArmed ==
  fault = "none" =>
    \A p \in Live : proc[p].st = "CONNECTED" /\ proc[p].out # <<>> /\ ~stream[p].stale =>
      "out" \in hand[proc[p].io].ev

\* What the application sends reaches the wire in order and none of it waits
\* for ever: bytes given while others are buffered queue up behind them, and
\* OnEvent is called for them (SendMsg, SaveCache, Flush).
OutputOK == StreamInOrder /\ WriteArmed

(***************************************************************************)
(* Memory that was deleted is used only for these reasons: the application  *)
(* freed the connection it is called for, or another one that epoll_wait    *)
(* reported in the same Pulse; a process is freed after its pipe hung up;   *)
(* a connection comes after the timers were closed; a kept process is used  *)
(* after a connect that failed.                                            *)
(***************************************************************************)
Blame ==
  /\ fault \in {"query", "callback"} => pc = "process"
  /\ fault = "orphan" => \E h \in Handlers : hand[h].ty = "pipe" /\ hand[h].p \notin Live
  /\ fault = "manager" => closed
  /\ fault = "dangling" => \E p \in Live : proc[p].io = "dangling"

=============================================================================
