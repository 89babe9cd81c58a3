---------------------------- MODULE MC_Protocols ----------------------------
(***************************************************************************)
(* Eight components that do not interact, in one run: which says the one    *)
(* that moves in this behaviour, and the others stay in one initial state. *)
(***************************************************************************)
EXTENDS WSProtocol, HTTPProtocol, HttpClient, PoolSocket, UrlCode, Cpus, TransferCmd, Lists

VARIABLE which

-----------------------------------------------------------------------------
(* WebSocket clients *)

Frame(fin, op, len, ext, masked) ==
    [fin |-> fin, op |-> op, len |-> len, ext |-> ext, masked |-> masked]

MCFrames ==
    { Frame(TRUE, 1, 1, 2, TRUE),      \* a text
      Frame(FALSE, 2, 1, 0, TRUE),     \* the first fragment of a binary
      Frame(FALSE, 0, 1, 0, FALSE),    \* a middle fragment
      Frame(TRUE, 0, 1, 0, TRUE),      \* the last one
      Frame(TRUE, 9, 1, 0, TRUE),      \* a ping
      Frame(TRUE, 10, 0, 0, FALSE),    \* a pong
      Frame(TRUE, 8, 2, 0, TRUE),      \* a close with a status code
      Frame(TRUE, 8, 0, 0, TRUE),      \* and without
      Frame(TRUE, 3, 0, 8, FALSE) }    \* a reserved opcode

Line(name, value) == [name |-> name, value |-> value, colon |-> TRUE]

Upgrade ==
    << Line("", "HTTP/1.1"), Line("Upgrade", "websocket"), Line("Connection", "upgrade"),
       Line("Key", "k"), Line("Version", "13") >>

MCWsRequests ==
    { Upgrade,
      [Upgrade EXCEPT ![1].value = "HTTP/1.0"],
      [Upgrade EXCEPT ![3].colon = FALSE],
      Append(Upgrade, Line("Protocol", "chat")),
      Append(Upgrade, Line("Version", "8")) }

MCLens == {0, 125, 126, 65535, 65536}

-----------------------------------------------------------------------------
(* HTTP peers *)

Get(n) == << Line("", "HTTP/1.1"), Line("Host", n) >>
GetMore == << Line("", "HTTP/1.1"), Line("Accept", "all"), Line("Host", 7) >>
GetBare == << Line("", "HTTP/1.1") >>

MCRequests == { <<Get(1), GetMore>>, <<GetMore, Get(2)>>, <<Get(1), GetBare>> }

Page(n) == [head |-> << Line("", "HTTP/1.1"), Line("Content-Length", n) >>, body |-> n]
PageMore(n) == [head |-> << Line("", "HTTP/1.1"), Line("Server", "s"), Line("Content-Length", n) >>,
                body |-> n]
PageChunked == [head |-> << Line("", "HTTP/1.1"), Line("Server", "s") >>, body |-> 2]

MCResponses == { <<Page(3), PageMore(1), Page(2)>>, <<PageMore(2), PageChunked>>, <<Page(0)>> }

MCPages == { Page(2), PageMore(8), PageChunked, Page(0) }

MCTimeouts == {0, 2, PsNoTimeout}

-----------------------------------------------------------------------------
Init ==
    /\ which \in {"ws", "http", "client", "socket", "url", "cpu", "transfer", "lists"}
    /\ IF which # "ws" THEN wsReq = Upgrade ELSE TRUE
    /\ IF which # "http" THEN htMode = "client" /\ htMsgs = <<Page(0)>> ELSE TRUE
    /\ IF which # "socket" THEN psErrno = FALSE ELSE TRUE
    /\ IF which # "url" THEN urText = << >> /\ urFirst = "encode" ELSE TRUE
    /\ IF which # "lists" THEN lsKind = "ring" ELSE TRUE
    /\ IF which # "cpu" THEN cpDetach = {} ELSE TRUE
    /\ WSInit /\ HTInit /\ HCInit /\ PSInit /\ URInit /\ CPInit /\ TCInit /\ LSInit

WSStep == /\ which = "ws" /\ WSNext
          /\ UNCHANGED <<htVars, hcVars, psVars, urVars, cpVars, tcVars, lsVars, which>>
HTStep == /\ which = "http" /\ HTNext
          /\ UNCHANGED <<wsVars, hcVars, psVars, urVars, cpVars, tcVars, lsVars, which>>
HCStep == /\ which = "client" /\ HCNext
          /\ UNCHANGED <<wsVars, htVars, psVars, urVars, cpVars, tcVars, lsVars, which>>
PSStep == /\ which = "socket" /\ PSNext
          /\ UNCHANGED <<wsVars, htVars, hcVars, urVars, cpVars, tcVars, lsVars, which>>
URStep == /\ which = "url" /\ URNext
          /\ UNCHANGED <<wsVars, htVars, hcVars, psVars, cpVars, tcVars, lsVars, which>>
CPStep == /\ which = "cpu" /\ CPNext
          /\ UNCHANGED <<wsVars, htVars, hcVars, psVars, urVars, tcVars, lsVars, which>>
TCStep == /\ which = "transfer" /\ TCNext
          /\ UNCHANGED <<wsVars, htVars, hcVars, psVars, urVars, cpVars, lsVars, which>>
LSStep == /\ which = "lists" /\ LSNext
          /\ UNCHANGED <<wsVars, htVars, hcVars, psVars, urVars, cpVars, tcVars, which>>

Next == WSStep \/ HTStep \/ HCStep \/ PSStep \/ URStep \/ CPStep \/ TCStep \/ LSStep

Spec == Init /\ [][Next]_<<wsVars, htVars, hcVars, psVars, urVars, cpVars, tcVars, lsVars, which>>
=============================================================================
