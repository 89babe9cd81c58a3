----------------------------- MODULE TransferCmd -----------------------------
(***************************************************************************)
(* What a transfer command carries from worker to worker besides the       *)
(* descriptor (module Connection has that): the bytes of the input buffer  *)
(* that the old process has not used.  Command objects are recycled by the *)
(* CycleList they travel on and keep their members.  TCPTransfer and       *)
(* UNIXTransfer, and the Process() of the two commands, do the same.       *)
(***************************************************************************)
EXTENDS Naturals, Sequences

CONSTANTS
    TcCmds,     \* bound: command objects
    TcMaxLen,   \* bound: bytes in an input buffer
    TcMaxSend   \* bound: transfers

ASSUME TcAssumption == {TcMaxLen, TcMaxSend} \subseteq Nat

VARIABLES
    tcCmd,      \* the commands' data_ (empty for NULL) and data_len_
    tcNew,      \* objects not allocated yet
    tcIdle,     \* processed commands GetCmd may return
    tcQueue,    \* commands on their way, with the number of the transfer
    tcSent,     \* history: the input buffer of each transfer
    tcGot,      \* history: the transfers processed, and what the process got
    tcFault     \* "null": memcpy from NULL; "over": past the end of data_

tcVars == <<tcCmd, tcNew, tcIdle, tcQueue, tcSent, tcGot, tcFault>>

TCInit ==
    /\ tcCmd = [c \in TcCmds |-> [data |-> << >>, len |-> 0]]
    /\ tcNew = TcCmds /\ tcIdle = {} /\ tcQueue = << >>
    /\ tcSent = << >> /\ tcGot = << >> /\ tcFault = "none"

Bytes(k, n) == [i \in 1..n |-> <<k, i>>]

\* Mutant: data_len_ stays as an earlier use of the command left it
FillKeepsLength(cmd, bytes) ==
    [data |-> bytes, len |-> IF cmd.len = 0 THEN Len(bytes) ELSE cmd.len]

\* The members are assigned only if there are bytes
Fill(cmd, bytes) ==
    IF bytes = << >> THEN cmd ELSE [data |-> bytes, len |-> Len(bytes)]

\* TCPTransfer, UNIXTransfer: a recycled command, or a new one
TCTransfer(c, n) ==
    LET k == Len(tcSent) + 1 IN
    /\ tcFault = "none" /\ k <= TcMaxSend
    /\ c \in tcNew \cup tcIdle
    /\ tcNew' = tcNew \ {c} /\ tcIdle' = tcIdle \ {c}
    /\ tcCmd' = [tcCmd EXCEPT ![c] = Fill(@, Bytes(k, n))]
    /\ tcQueue' = Append(tcQueue, <<c, k>>)
    /\ tcSent' = Append(tcSent, Bytes(k, n))
    /\ UNCHANGED <<tcGot, tcFault>>

\* Process(): the new process, if the application makes one, gets data_len_
\* bytes of data_
TCProcess(created) ==
    LET c == Head(tcQueue)[1]
        cmd == tcCmd[c]
        bad == created /\ cmd.len > Len(cmd.data)
    IN
    /\ tcFault = "none" /\ tcQueue # << >>
    /\ tcFault' = IF ~bad THEN "none" ELSE IF cmd.data = << >> THEN "null" ELSE "over"
    /\ IF bad THEN UNCHANGED <<tcCmd, tcIdle, tcQueue, tcGot>>
       ELSE /\ tcGot' = IF created
                        THEN Append(tcGot, <<Head(tcQueue)[2], SubSeq(cmd.data, 1, cmd.len)>>)
                        ELSE tcGot
            /\ tcCmd' = [tcCmd EXCEPT ![c].data = << >>]
            /\ tcIdle' = tcIdle \cup {c} /\ tcQueue' = Tail(tcQueue)
    /\ UNCHANGED <<tcNew, tcSent>>

TCNext == (\E c \in TcCmds, n \in 0..TcMaxLen : TCTransfer(c, n))
          \/ \E created \in BOOLEAN : TCProcess(created)

-----------------------------------------------------------------------------
\* A process that takes over a connection gets the bytes its predecessor had
\* left, all of them and of no other transfer, in whatever order command
\* objects are recycled.  The one way this fails is an empty buffer sent with
\* an object whose last use carried bytes: data_len_ is still theirs and data_
\* is NULL.
TCCarried ==
    /\ \A i \in DOMAIN tcGot : tcGot[i][2] = tcSent[tcGot[i][1]]
    /\ tcFault # "none" => /\ tcFault = "null"
                           /\ tcSent[Head(tcQueue)[2]] = << >>
                           /\ \E k \in 1..(Head(tcQueue)[2] - 1) : tcSent[k] # << >>
=============================================================================
