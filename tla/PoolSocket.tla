----------------------------- MODULE PoolSocket -----------------------------
(***************************************************************************)
(* The blocking socket calls a PoolProcess makes on a thread of a system   *)
(* pool (pooldrive/poolworkerex.cpp).  The descriptor never blocks; a call *)
(* that cannot go on waits in epoll_wait() on an epoll instance of its     *)
(* own, with what is left of its timeout, and tries again.                 *)
(*                                                                         *)
(* One socket and one thread, calls one after the other.  Time passes in   *)
(* epoll_wait() only.  A timeout is an unsigned word: no timeout is its    *)
(* largest value, and epoll_wait() takes the word as a signed int, where   *)
(* every negative value waits for ever.                                    *)
(***************************************************************************)
EXTENDS Integers, Sequences

CONSTANTS
    PsTimeouts,     \* the timeouts a caller passes, PsNoTimeout for none
    PsMaxLen,       \* bound: bytes of a call of SendMsg
    PsMaxWait       \* bound: the total wait of a call without a timeout

PsWord == 65536             \* bound: stands for 2^64
PsNoTimeout == PsWord - 1
PsTimedOut == -2            \* a call returns -1 with ETIME or ETIMEDOUT

ASSUME PsAssumption ==
    /\ PsTimeouts \subseteq (0..(PsMaxWait - 1)) \cup {PsNoTimeout}
    /\ PsMaxLen \in Nat
    /\ PsMaxWait \in Nat \ {0} /\ PsMaxWait < PsWord \div 2

VARIABLES
    psSocket,   \* the PoolSocket: "none", "open", or "closed" for good
    psFd,       \* its descriptor: "none", "open", "closed", or "twice"
    psOp,       \* the call under way, or "idle"
    psLen,      \* its len
    psSent,     \* send_len
    psTimeout,  \* timeout, as it is counted down
    psEvents,   \* what the epoll instance watches
    psErrno,    \* errno is EAGAIN or EINTR
    psRet,      \* what the last call returned
    psWire,     \* history: the bytes of buf the kernel was given, by position
    psLimit,    \* history: the timeout the caller passed
    psWaited,   \* history: how long the call has waited
    psFailed    \* history: a connect failed since a call last set the events

psCall == <<psOp, psLen, psSent, psTimeout, psRet, psWire, psLimit, psWaited>>
psVars == <<psSocket, psFd, psEvents, psErrno, psFailed, psCall>>

PSInit ==
    /\ psSocket = "none" /\ psFd = "none" /\ psEvents = {}
    /\ psErrno \in BOOLEAN /\ psFailed = FALSE
    /\ psOp = "idle" /\ psLen = 0 /\ psSent = 0 /\ psTimeout = 0 /\ psRet = 0
    /\ psWire = << >> /\ psLimit = 0 /\ psWaited = 0

-----------------------------------------------------------------------------
(* CreateSocket and CloseSocket *)

CloseFd == psFd' = IF psFd = "open" THEN "closed" ELSE "twice"

\* ~PoolSocket closes the descriptor the object was given
DeleteSocket == psSocket' = "closed" /\ CloseFd

PSSocket ==
    /\ psFd = "none"
    /\ psFd' = "open"
    /\ UNCHANGED <<psSocket, psEvents, psErrno, psFailed, psCall>>

\* setFdOptions, epoll_create and PoolEnableReadData; one that fails deletes the
\* object, which has the descriptor by then
CreateSocket(ok) ==
    /\ psFd = "open" /\ psSocket = "none"
    /\ IF ok THEN psSocket' = "open" /\ psEvents' = {"in"} /\ UNCHANGED psFd
             ELSE DeleteSocket /\ UNCHANGED psEvents
    /\ UNCHANGED <<psErrno, psFailed, psCall>>

CloseSocket ==
    /\ psSocket = "open" /\ psOp = "idle"
    /\ DeleteSocket
    /\ UNCHANGED <<psEvents, psErrno, psFailed, psCall>>

-----------------------------------------------------------------------------
(* The calls *)

Same == UNCHANGED <<psSocket, psFd>>

\* A call begins; what its first attempt did is given by the action
Begin(len, timeout) ==
    /\ psSocket = "open" /\ psOp = "idle"
    /\ psLen' = len /\ psTimeout' = timeout /\ psLimit' = timeout /\ psWaited' = 0
    /\ Same

Return(ret) == psOp' = "idle" /\ psRet' = ret

\* The positions send() takes when it takes k bytes from buf + send_len
Positions(from, k) == [i \in 1..k |-> from + i]

\* connect() fails, or is under way
PSConnect(timeout, hard) ==
    /\ Begin(0, timeout)
    /\ psEvents' = {"in", "out"}
    /\ IF hard THEN Return(-1) /\ psFailed' = TRUE
               ELSE psOp' = "connect" /\ UNCHANGED <<psRet, psFailed>>
    /\ psSent' = 0 /\ psWire' = << >>
    /\ UNCHANGED psErrno

\* TCPConnect: an address inet_addr() does not know is refused before
PSTCPConnect(timeout, hard) == PSConnect(timeout, hard)

PSTCPConnectBadAddress(timeout) ==
    /\ Begin(0, timeout)
    /\ Return(-1)
    /\ psSent' = 0 /\ psWire' = << >>
    /\ UNCHANGED <<psEvents, psErrno, psFailed>>

PSUNIXConnect(timeout, hard) == PSConnect(timeout, hard)

\* recv(): something or the peer's end, an error, or nothing yet
PSRecv(timeout, rs) ==
    /\ Begin(1, timeout)
    /\ IF rs = "again" THEN psOp' = "recv" /\ psErrno' = TRUE /\ UNCHANGED psRet
       ELSE IF rs = "error" THEN Return(-1) /\ psErrno' = FALSE
       ELSE Return(1) /\ UNCHANGED psErrno
    /\ psSent' = 0 /\ psWire' = << >>
    /\ UNCHANGED <<psEvents, psFailed>>

\* recvfrom() of an empty datagram looks at an errno nobody has set
PSRecvFrom(timeout, rs) ==
    /\ Begin(1, timeout)
    /\ CASE rs = "again" -> psOp' = "recvfrom" /\ psErrno' = TRUE /\ UNCHANGED psRet
         [] rs = "error" -> Return(-1) /\ psErrno' = FALSE
         [] rs = "empty" /\ psErrno -> psOp' = "recvfrom" /\ UNCHANGED <<psErrno, psRet>>
         [] rs = "empty" /\ ~psErrno -> Return(-1) /\ UNCHANGED psErrno
         [] rs = "data" -> Return(1) /\ UNCHANGED psErrno
    /\ psSent' = 0 /\ psWire' = << >>
    /\ UNCHANGED <<psEvents, psFailed>>

\* send() takes k of len bytes at once, k = -1: none, EAGAIN; AutoEpollWrite
\* watches for writing alone
PSSend(timeout, len, k) ==
    /\ Begin(len, timeout)
    /\ k <= len
    /\ psSent' = IF k < 0 THEN 0 ELSE k
    /\ psWire' = Positions(0, psSent')
    /\ psErrno' = (psErrno \/ k < 0)
    /\ IF k = len THEN Return(len) /\ UNCHANGED <<psEvents, psFailed>>
       ELSE psOp' = "send" /\ psEvents' = {"out"} /\ psFailed' = FALSE /\ UNCHANGED psRet

\* sendto() takes all of a datagram or nothing
PSSendTo(timeout, now) ==
    /\ Begin(1, timeout)
    /\ IF now THEN /\ Return(1) /\ psSent' = 1 /\ psWire' = <<1>>
                   /\ UNCHANGED <<psEvents, psErrno, psFailed>>
       ELSE /\ psOp' = "sendto" /\ psEvents' = {"out"} /\ psFailed' = FALSE /\ psErrno' = TRUE
            /\ psSent' = 0 /\ psWire' = << >> /\ UNCHANGED psRet

\* send() or sendto() fails at once
PSSendFails(timeout) ==
    /\ Begin(1, timeout)
    /\ Return(-1)
    /\ psSent' = 0 /\ psWire' = << >> /\ psErrno' = FALSE
    /\ UNCHANGED <<psEvents, psFailed>>

-----------------------------------------------------------------------------
(* epoll_wait() and what follows it *)

Infinite == psTimeout >= PsWord \div 2

\* epoll_wait() came back after d, within its timeout
Waited(d) ==
    /\ psOp # "idle"
    /\ IF Infinite THEN psWaited + d <= PsMaxWait ELSE d <= psTimeout
    /\ psWaited' = psWaited + d
    /\ UNCHANGED <<psLen, psLimit>>
    /\ Same

\* The call returns: the senders' AutoEpollWrite, and a connect that succeeds,
\* go back to watching for reading; a connect that fails does not
Done(ret) ==
    /\ Return(ret)
    /\ psEvents' = IF psOp \in {"send", "sendto"} \/ (psOp = "connect" /\ ret = 0)
                     THEN {"in"} ELSE psEvents
    /\ psFailed' = IF psOp = "connect" THEN ret # 0 ELSE psFailed
    /\ UNCHANGED psTimeout

\* Mutant: a call that waits again waits for its whole timeout.
AgainWholeTimeout(d) ==
    IF d >= psTimeout THEN Done(PsTimedOut)
    ELSE UNCHANGED <<psOp, psRet, psTimeout, psEvents, psFailed>>

\* The end of the loop: t2 of the timeout is over
Again(d) ==
    IF d >= psTimeout THEN Done(PsTimedOut)
    ELSE /\ psTimeout' = (psTimeout - d) % PsWord
         /\ UNCHANGED <<psOp, psRet, psEvents, psFailed>>

NothingSent == UNCHANGED <<psSent, psWire>>

\* Nothing happened in time
PSTimeout ==
    /\ ~Infinite /\ Waited(psTimeout)
    /\ Done(PsTimedOut) /\ NothingSent /\ UNCHANGED psErrno

\* A signal
PSInterrupted(d) ==
    /\ Waited(d)
    /\ Again(d) /\ NothingSent /\ psErrno' = TRUE

\* EPOLLERR, EPOLLHUP (which a connect takes for success), or another error of
\* epoll_wait()
PSError(d) ==
    /\ Waited(d)
    /\ Done(-1) /\ NothingSent /\ UNCHANGED psErrno

PSConnected(d) ==
    /\ Waited(d) /\ psOp = "connect"
    /\ Done(0) /\ NothingSent /\ UNCHANGED psErrno

\* An event the call does not look at: EPOLLOUT, watched since a failed connect
PSOtherEvent(d) ==
    /\ Waited(d) /\ psOp \in {"recv", "recvfrom"} /\ "out" \in psEvents
    /\ Again(d) /\ NothingSent /\ UNCHANGED psErrno

\* EPOLLIN and another recv() or recvfrom()
PSReadable(d, rs) ==
    /\ Waited(d) /\ psOp \in {"recv", "recvfrom"} /\ "in" \in psEvents
    /\ rs = "empty" => psOp = "recvfrom"
    /\ NothingSent
    /\ CASE rs = "again" -> Again(d) /\ psErrno' = TRUE
         [] rs = "error" -> Done(-1) /\ psErrno' = FALSE
         [] rs = "empty" /\ psErrno -> Again(d) /\ UNCHANGED psErrno
         [] rs = "empty" /\ ~psErrno -> Done(-1) /\ UNCHANGED psErrno
         [] rs = "data" -> Done(1) /\ UNCHANGED psErrno

\* EPOLLOUT and send() of the rest
PSWritable(d, k) ==
    /\ Waited(d) /\ psOp = "send" /\ "out" \in psEvents
    /\ psSent + k <= psLen
    /\ psSent' = IF k < 0 THEN psSent ELSE psSent + k
    /\ psWire' = IF k < 0 THEN psWire ELSE psWire \o Positions(psSent, k)
    /\ psErrno' = (psErrno \/ k < 0)
    /\ IF psSent' = psLen /\ k >= 0 THEN Done(psLen) ELSE Again(d)

PSWritableTo(d, now) ==
    /\ Waited(d) /\ psOp = "sendto" /\ "out" \in psEvents
    /\ psErrno' = (psErrno \/ ~now)
    /\ IF now THEN psSent' = 1 /\ psWire' = <<1>> /\ Done(1)
              ELSE NothingSent /\ Again(d)

Attempts == {"data", "again", "error"}

PSNext ==
    \/ PSSocket
    \/ \E ok \in BOOLEAN : CreateSocket(ok)
    \/ CloseSocket
    \/ \E t \in PsTimeouts :
         \/ \E hard \in BOOLEAN : PSTCPConnect(t, hard)
         \/ \E hard \in BOOLEAN : PSUNIXConnect(t, hard)
         \/ PSTCPConnectBadAddress(t)
         \/ \E rs \in Attempts : PSRecv(t, rs)
         \/ \E rs \in Attempts \cup {"empty"} : PSRecvFrom(t, rs)
         \/ \E len \in 1..PsMaxLen, k \in -1..PsMaxLen : PSSend(t, len, k)
         \/ \E now \in BOOLEAN : PSSendTo(t, now)
         \/ PSSendFails(t)
    \/ PSTimeout
    \/ \E d \in 0..PsMaxWait :
         \/ PSInterrupted(d)
         \/ PSError(d)
         \/ PSConnected(d)
         \/ PSOtherEvent(d)
         \/ \E rs \in Attempts \cup {"empty"} : PSReadable(d, rs)
         \/ \E k \in -1..PsMaxLen : PSWritable(d, k)
         \/ \E now \in BOOLEAN : PSWritableTo(d, now)

PSSpec == PSInit /\ [][PSNext]_psVars

-----------------------------------------------------------------------------
(* Properties *)

\* However often a call is interrupted or woken for nothing, all its waits
\* together are no longer than the timeout it was given; it reports a timeout
\* only when all of it is over, and never when it was given none, although the
\* countdown then runs on the largest word.
PSDeadline ==
    /\ psLimit # PsNoTimeout => psWaited <= psLimit
    /\ psOp = "idle" /\ psRet = PsTimedOut => psLimit # PsNoTimeout /\ psWaited = psLimit

\* Every byte of a message is given to the kernel at most once and in order,
\* over any number of partial sends, and SendMsg says it sent the message only
\* when all of it was given.
PSSentInOrder ==
    /\ psWire = Positions(0, psSent)
    /\ psOp = "idle" /\ psRet >= 0 /\ psWire # << >> => psSent = psLen

\* A waiting receiver is woken by data and a waiting sender by room; a sender's
\* change of the watched events is undone on every way out.  Only a connect
\* that failed leaves the socket watched for writing.
PSWatched ==
    psSocket = "open" =>
        /\ psOp \in {"recv", "recvfrom", "connect"} => "in" \in psEvents
        /\ psOp \in {"send", "sendto", "connect"} => "out" \in psEvents
        /\ psOp = "idle" => psEvents = IF psFailed THEN {"in", "out"} ELSE {"in"}

\* The descriptor is closed exactly once when the PoolSocket goes, also when
\* CreateSocket fails half way.
PSClosedOnce ==
    /\ psFd # "twice"
    /\ psSocket = "closed" => psFd = "closed"

\* A blocking call keeps its deadline, its place in the message and what is
\* watched over any number of interruptions, partial results and failures.
PSCorrect == PSDeadline /\ PSSentInOrder /\ PSWatched /\ PSClosedOnce
=============================================================================
