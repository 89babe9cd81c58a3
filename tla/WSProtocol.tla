----------------------------- MODULE WSProtocol -----------------------------
(***************************************************************************)
(* The server side of the WebSocket protocol (protocols/wsprotocol.cpp).   *)
(*                                                                         *)
(* HandlerProtocol() is called by the process' Process() with everything   *)
(* the input buffer holds; it returns how many bytes it used, which the    *)
(* caller ignores in the buffer, or -1, which ends the connection.  It     *)
(* keeps a parsed header (ws_request_frame_, valid while its payload       *)
(* length is not zero), the opcode of a fragmented message and the         *)
(* fragments received so far between two calls.                            *)
(*                                                                         *)
(* The client's frames arrive in chunks cut anywhere.  A byte is           *)
(* [f, i, x]: the i-th byte of the client's frame f, still masked or not;  *)
(* header bytes have the value the client's encoding gives them, so that   *)
(* the header is decoded bit by bit as in the code.                        *)
(***************************************************************************)
EXTENDS HttpText

CONSTANTS
    WsFrames,       \* the frames a client may send
    WsRequests,     \* the handshake requests a client may send
    WsLens,         \* the payload lengths the application sends
    WsMaxLen,       \* bound: the longest payload a client sends
    WsMaxFrames     \* bound: frames the client sends, counting two for each
                    \* frame of the application

\* A frame of a client: ext bytes extend the seven bits of its length.  Only
\* messages are sent in fragments.
IsFrame(f) ==
    /\ f \in [fin : BOOLEAN, op : 0..15, len : Nat, ext : {0, 2, 8}, masked : BOOLEAN]
    /\ f.op > 2 => f.fin
    /\ f.ext = 0 => f.len <= 125
    /\ f.ext = 2 => f.len <= 65535

\* The sizes the code handles are uint32_t, of a whole message too.
ASSUME WsAssumption ==
    /\ \A f \in WsFrames : IsFrame(f) /\ f.len <= WsMaxLen
    /\ \A head \in WsRequests : IsHead(head)
    /\ WsLens \subseteq Nat /\ WsMaxLen \in Nat /\ WsMaxFrames \in Nat
    /\ \A n \in WsLens \cup {WsMaxFrames * WsMaxLen} : n \div 65536 <= 65535

VARIABLES
    wsScript,   \* the client: the frames it has sent, in order
    wsReq,      \* the client: the lines of its handshake request
    wsAsk,      \* bytes of the request that have not arrived
    wsReply,    \* history: the status of the reply to it
    wsClean,    \* history: no chunk ended after the request's first line
    wsLeft,     \* bytes of these frames that have not arrived
    wsIn,       \* the input buffer of the process
    wsUsed,     \* buffer - data: bytes this call of HandlerProtocol used
    wsPc,       \* "idle", or where HandlerProtocol stands
    wsState,    \* ws_state_, "closed" once the connection ended
    wsFrame,    \* ws_request_frame_
    wsCont,     \* ws_frame_opcode_continue_
    wsFrag,     \* ws_fragmentation_buffer_
    wsSentClose,\* ws_is_send_close_
    wsGot,      \* history: messages given to HandlerText and HandlerBinary
    wsPongs,    \* history: payloads of the pong frames sent
    wsCloses,   \* history: number of close frames sent
    wsSends,    \* number of frames the application sent
    wsHeader    \* history: the last frame sent, with its encoded header

wsClient == <<wsScript, wsReq, wsAsk, wsReply, wsClean>>
wsConn == <<wsState, wsFrame, wsCont, wsFrag, wsSentClose>>
wsHist == <<wsGot, wsPongs, wsCloses, wsSends, wsHeader>>
wsVars == <<wsClient, wsLeft, wsIn, wsUsed, wsPc, wsConn, wsHist>>

-----------------------------------------------------------------------------
(* Bytes and headers *)

\* The number that two or eight bytes hold, the highest first
BigEndian(s) ==
    IF Len(s) = 2 THEN 256 * s[1] + s[2]
    ELSE 256 * (256 * (256 * (256 * (256 * (256 * (256 * s[1] + s[2]) + s[3]) + s[4]) + s[5])
                       + s[6]) + s[7]) + s[8]

\* A number of 32 bits in w bytes, the highest first
Octets(n, w) ==
    IF w = 0 THEN << >>
    ELSE IF w = 2 THEN <<n \div 256, n % 256>>
    ELSE <<0, 0, 0, 0, n \div 16777216, (n \div 65536) % 256, (n \div 256) % 256, n % 256>>

Bit(b) == IF b THEN 128 ELSE 0

\* The header a client writes for one of its frames
ClientHeader(f) ==
    <<Bit(f.fin) + f.op,
      Bit(f.masked) + (IF f.ext = 0 THEN f.len ELSE IF f.ext = 2 THEN 126 ELSE 127)>>
    \o Octets(f.len, f.ext) \o (IF f.masked THEN <<1, 2, 3, 4>> ELSE << >>)

FrameLen(frame) == Len(ClientHeader(frame)) + frame.len

\* Byte i of the client's frame number f
ByteAt(f, i, frame) ==
    [f |-> f, i |-> i, x |-> frame.masked /\ i > Len(ClientHeader(frame))]

FrameBytes(f, frame) == [i \in 1..FrameLen(frame) |-> ByteAt(f, i, frame)]

Value(b) ==
    LET h == ClientHeader(wsScript[b.f]) IN IF b.i <= Len(h) THEN h[b.i] ELSE 0

NoFrame == [fin |-> FALSE, op |-> 0, masked |-> FALSE, len |-> 0]

NeedMore == [size |-> 0, frame |-> NoFrame]

\* The header at the start of b: its size and its fields, or NeedMore
DecodeHeader(b) ==
    LET l7  == b[2] % 128
        ext == IF l7 = 126 THEN 2 ELSE IF l7 = 127 THEN 8 ELSE 0
        key == IF b[2] >= 128 THEN 4 ELSE 0
    IN  IF Len(b) < 2 THEN NeedMore
        ELSE IF Len(b) < 2 + ext + key THEN NeedMore
        ELSE [size  |-> 2 + ext + key,
              frame |-> [fin    |-> b[1] >= 128,
                         op     |-> b[1] % 16,
                         masked |-> key = 4,
                         len    |-> IF ext = 0 THEN l7 ELSE BigEndian(SubSeq(b, 3, 2 + ext))]]

\* The header SendWS writes before the payload
EncodeHeader(frame, len) ==
    <<Bit(frame.fin) + frame.op>>
    \o (IF len <= 125 THEN <<Bit(frame.masked) + len>>
        ELSE IF len <= 65535 THEN <<Bit(frame.masked) + 126>> \o Octets(len, 2)
        ELSE <<Bit(frame.masked) + 127>> \o Octets(len, 8))

-----------------------------------------------------------------------------
(* Initial state: a connection was accepted and the object constructed *)

WSInit ==
    /\ wsScript = << >>
    /\ wsReq \in WsRequests
    /\ wsAsk = HeadBytes(1, wsReq) /\ wsReply = "none" /\ wsClean = TRUE
    /\ wsLeft = << >>
    /\ wsIn = << >> /\ wsUsed = 0 /\ wsPc = "idle"
    /\ wsState = "handshake"
    /\ wsFrame = NoFrame
    /\ wsCont = 0
    /\ wsFrag = << >>
    /\ wsSentClose = FALSE
    /\ wsGot = << >> /\ wsPongs = << >> /\ wsCloses = 0 /\ wsSends = 0
    /\ wsHeader = [fin |-> TRUE, op |-> 0, len |-> 0, bytes |-> <<128, 0>>]

\* SendWS: every frame the server sends is unmasked
SendWS(fin, op, len) ==
    wsHeader' = [fin |-> fin, op |-> op, len |-> len,
                 bytes |-> EncodeHeader([fin |-> fin, op |-> op, masked |-> FALSE], len)]

SendClose ==
    IF wsSentClose THEN UNCHANGED <<wsSentClose, wsCloses, wsHeader>>
    ELSE /\ wsSentClose' = TRUE
         /\ wsCloses' = wsCloses + 1
         /\ SendWS(TRUE, 8, 2)

SendPong(payload) ==
    /\ wsPongs' = Append(wsPongs, payload)
    /\ SendWS(TRUE, 10, Len(payload))

-----------------------------------------------------------------------------
(* The handshake *)

CheckHeader(lines, hash) ==
    /\ lines[1].value = "HTTP/1.1"
    /\ {"Upgrade", "Connection", "Key", "Version"} \subseteq DOMAIN hash
    /\ hash["Upgrade"] = "websocket"
    /\ hash["Connection"] = "upgrade"
    /\ hash["Version"] = "13"

\* The default HandlerHandshake refuses a sub-protocol
HandlerHandshake(hash) == "Protocol" \notin DOMAIN hash

Accepted(lines) ==
    /\ CheckHeader(lines, Fields(lines))
    /\ HandlerHandshake(Fields(lines))

Respond101 == wsReply' = "101"

Respond400 == wsReply' = "400"

\* What the handshake does with the lines of a head.  When rstrstr() took the
\* end of a line for the end of the head, header text is left to be read as
\* frames, now or once it arrives, and there the model stops as if the
\* connection had ended.
Handshaken(lines, whole) ==
    IF ~ParseOk(lines, FALSE) THEN wsState' = "closed" /\ UNCHANGED wsReply
    ELSE IF ~Accepted(lines) THEN wsState' = "closed" /\ Respond400
    ELSE wsState' = (IF whole THEN "open" ELSE "closed") /\ Respond101

\* HandlerProtocol in WS_STATE_HANDSHAKE with n more bytes of the request
WSHandshake(n) ==
    /\ wsState = "handshake" /\ n <= Len(wsAsk)
    /\ LET b == wsIn \o SubSeq(wsAsk, 1, n)
           p == RStrStr(b)
       IN  /\ wsIn' = IF p = 0 THEN b ELSE << >>
           /\ IF p = 0 THEN UNCHANGED <<wsState, wsReply>>
              ELSE Handshaken(LinesBefore(b, p, <<wsReq>>),
                              p + 3 = Len(b) /\ n = Len(wsAsk))
           /\ wsClean' = (wsClean /\ (p = 0 \/ n = Len(wsAsk)))
    /\ wsAsk' = After(wsAsk, n)
    /\ UNCHANGED <<wsScript, wsReq, wsLeft, wsUsed, wsPc,
                   wsFrame, wsCont, wsFrag, wsSentClose, wsHist>>

-----------------------------------------------------------------------------
(* The client, once its handshake is answered *)

\* A message of the client is open after its first k frames.
MessageOpen(k) ==
    \E j \in 1..k : /\ ~wsScript[j].fin
                    /\ \A t \in j..k : wsScript[t].fin => wsScript[t].op > 7

\* It fragments as the protocol says: continuations only in a message that is
\* open, and no other data frame there.
WSClientSends(f) ==
    /\ wsState = "open"
    /\ Len(wsScript) + 2 * wsSends < WsMaxFrames
    /\ f.op = 0 => MessageOpen(Len(wsScript))
    /\ f.op \in 1..7 => ~MessageOpen(Len(wsScript))
    /\ wsScript' = Append(wsScript, f)
    /\ wsLeft' = wsLeft \o FrameBytes(Len(wsScript) + 1, f)
    /\ UNCHANGED <<wsReq, wsAsk, wsReply, wsClean, wsIn, wsUsed, wsPc, wsConn, wsHist>>

-----------------------------------------------------------------------------
(* HandlerProtocol in WS_STATE_OPEN *)

\* n more bytes arrive and Process() hands the whole input buffer over
WSArrive(n) ==
    /\ wsState = "open" /\ wsPc = "idle"
    /\ n <= Len(wsLeft)
    /\ wsIn' = wsIn \o SubSeq(wsLeft, 1, n)
    /\ wsLeft' = SubSeq(wsLeft, n + 1, Len(wsLeft))
    /\ wsPc' = IF wsFrame.len = 0 THEN "header" ELSE "payload"
    /\ UNCHANGED <<wsClient, wsUsed, wsConn, wsHist>>

Unread == After(wsIn, wsUsed)

\* return buffer - data; the caller ignores that much of its input
WSReturn ==
    /\ wsIn' = Unread
    /\ wsUsed' = 0
    /\ wsPc' = "idle"
    /\ UNCHANGED <<wsClient, wsLeft, wsConn, wsHist>>

\* return -1: Process() fails and the connection ends
WSFail ==
    /\ wsState' = "closed"
    /\ wsPc' = "idle"
    /\ UNCHANGED <<wsClient, wsLeft, wsIn, wsUsed, wsFrame, wsCont, wsFrag>>

Decoded == DecodeHeader([k \in DOMAIN Unread |-> Value(Unread[k])])

WSHeaderWait ==
    /\ wsPc = "header"
    /\ Decoded = NeedMore
    /\ WSReturn

\* The last fragment of a message takes the opcode of the first
WSHeader ==
    /\ wsPc = "header"
    /\ Decoded # NeedMore
    /\ LET f == Decoded.frame
           first == ~f.fin /\ f.op \in 1..7 /\ wsCont = 0
           last  == f.fin /\ f.op = 0 /\ wsCont \in 1..7
       IN  /\ wsFrame' = IF last THEN [f EXCEPT !.op = wsCont] ELSE f
           /\ wsCont' = IF first THEN f.op ELSE IF last THEN 0 ELSE wsCont
    /\ wsUsed' = wsUsed + Decoded.size
    /\ wsPc' = "payload"
    /\ UNCHANGED <<wsClient, wsLeft, wsIn, wsState, wsFrag, wsSentClose, wsHist>>

WSPayloadWait ==
    /\ wsPc = "payload"
    /\ Len(Unread) < wsFrame.len
    /\ WSReturn

\* The payload of the frame after the exclusive or with the masking key
Payload ==
    [k \in 1..wsFrame.len |-> [Unread[k] EXCEPT !.x = IF wsFrame.masked THEN ~@ ELSE @]]

\* The end of an iteration: on to the next header
NextFrame ==
    /\ wsUsed' = wsUsed + wsFrame.len
    /\ wsFrame' = NoFrame
    /\ wsPc' = "header"
    /\ UNCHANGED <<wsClient, wsLeft, wsIn, wsState, wsCont, wsSends>>

Complete == wsPc = "payload" /\ Len(Unread) >= wsFrame.len

\* What the dispatch on the opcode sees: the fragments and the payload
Message == wsFrag \o Payload

WSFragment ==
    /\ Complete /\ ~wsFrame.fin
    /\ wsFrag' = Message
    /\ NextFrame
    /\ UNCHANGED <<wsSentClose, wsGot, wsPongs, wsCloses, wsHeader>>

\* Mutant: the fragments collected before are left out.
DataWithoutFragments(ok) ==
    /\ Complete /\ wsFrame.fin /\ wsFrame.op \in {1, 2}
    /\ wsGot' = Append(wsGot, [op |-> wsFrame.op, payload |-> Payload])
    /\ UNCHANGED wsPongs
    /\ IF ok THEN /\ wsFrag' = << >>
                  /\ NextFrame
                  /\ UNCHANGED <<wsSentClose, wsCloses, wsHeader>>
             ELSE SendClose /\ WSFail /\ UNCHANGED wsSends

\* HandlerText or HandlerBinary; a handler that fails closes
WSData(ok) ==
    /\ Complete /\ wsFrame.fin /\ wsFrame.op \in {1, 2}
    /\ wsGot' = Append(wsGot, [op |-> wsFrame.op, payload |-> Message])
    /\ UNCHANGED wsPongs
    /\ IF ok THEN /\ wsFrag' = << >>
                  /\ NextFrame
                  /\ UNCHANGED <<wsSentClose, wsCloses, wsHeader>>
             ELSE SendClose /\ WSFail /\ UNCHANGED wsSends

\* A close frame is answered when what it carries is a status code
WSClose ==
    /\ Complete /\ wsFrame.fin /\ wsFrame.op = 8
    /\ UNCHANGED <<wsGot, wsPongs>>
    /\ IF Len(Message) = 2 THEN SendClose /\ WSFail /\ UNCHANGED wsSends
       ELSE /\ wsFrag' = << >>
            /\ NextFrame
            /\ UNCHANGED <<wsSentClose, wsCloses, wsHeader>>

WSPing ==
    /\ Complete /\ wsFrame.fin /\ wsFrame.op = 9
    /\ SendPong(Message)
    /\ wsFrag' = << >>
    /\ NextFrame
    /\ UNCHANGED <<wsSentClose, wsGot, wsCloses>>

WSPong ==
    /\ Complete /\ wsFrame.fin /\ wsFrame.op = 10
    /\ wsFrag' = << >>
    /\ NextFrame
    /\ UNCHANGED <<wsSentClose, wsGot, wsPongs, wsCloses, wsHeader>>

WSUnknown ==
    /\ Complete /\ wsFrame.fin /\ wsFrame.op \notin {1, 2, 8, 9, 10}
    /\ SendClose
    /\ WSFail
    /\ UNCHANGED <<wsGot, wsPongs, wsSends>>

-----------------------------------------------------------------------------
(* The application, between two calls of Process() *)

AppSends ==
    /\ wsState = "open" /\ wsPc = "idle"
    /\ Len(wsScript) + 2 * wsSends + 1 < WsMaxFrames
    /\ wsSends' = wsSends + 1
    /\ UNCHANGED <<wsClient, wsLeft, wsIn, wsUsed, wsPc,
                   wsState, wsFrame, wsCont, wsFrag, wsGot, wsPongs>>

AppFrame(fin, op, len) ==
    /\ AppSends
    /\ SendWS(fin, op, len)
    /\ UNCHANGED <<wsSentClose, wsCloses>>

WSSendWhole(len, binary) == AppFrame(TRUE, IF binary THEN 2 ELSE 1, len)

WSSendFragmentHead(len, binary) == AppFrame(FALSE, IF binary THEN 2 ELSE 1, len)

WSSendFragment(len) == AppFrame(FALSE, 0, len)

WSSendFragmentTail(len) == AppFrame(TRUE, 0, len)

WSAppClose ==
    /\ AppSends
    /\ SendClose

WSNext ==
    \/ \E n \in 1..Len(wsAsk) : WSHandshake(n)
    \/ \E f \in WsFrames : WSClientSends(f)
    \/ \E n \in 1..Len(wsLeft) : WSArrive(n)
    \/ WSHeaderWait
    \/ WSHeader
    \/ WSPayloadWait
    \/ WSFragment
    \/ \E ok \in BOOLEAN : WSData(ok)
    \/ WSClose
    \/ WSPing
    \/ WSPong
    \/ WSUnknown
    \/ \E len \in WsLens, binary \in BOOLEAN : WSSendWhole(len, binary)
    \/ \E len \in WsLens, binary \in BOOLEAN : WSSendFragmentHead(len, binary)
    \/ \E len \in WsLens : WSSendFragment(len)
    \/ \E len \in WsLens : WSSendFragmentTail(len)
    \/ WSAppClose

WSSpec == WSInit /\ [][WSNext]_wsVars

-----------------------------------------------------------------------------
(* What the client meant *)

IsData(f) == wsScript[f].op \in {0, 1, 2}

\* The payload of frame f, in clear
Clear(f) ==
    [k \in 1..wsScript[f].len |->
        [f |-> f, i |-> Len(ClientHeader(wsScript[f])) + k, x |-> FALSE]]

\* p is the payloads of the frames fs, one after the other.
Joins(p, fs) ==
    /\ \A k \in DOMAIN p : \E f \in fs : \E i \in DOMAIN Clear(f) : p[k] = Clear(f)[i]
    /\ \A f \in fs : \A i \in DOMAIN Clear(f) : \E k \in DOMAIN p : p[k] = Clear(f)[i]
    /\ \A j, k \in DOMAIN p :
         j < k => p[j].f < p[k].f \/ (p[j].f = p[k].f /\ p[j].i < p[k].i)

\* Frame s began the message frame f belongs to.
Began(s, f) == /\ wsScript[s].op \in {1, 2}
               /\ \A t \in (s + 1)..f : wsScript[t].op \notin {1, 2}

\* Its fragments up to f that follow every control frame
Kept(s, f) == {t \in s..f : \A u \in t..f : IsData(u)}

\* A message that ended with frame f as the protocol is to deliver it
Delivered(message, f) ==
    \E s \in 1..f : /\ Began(s, f)
                    /\ message.op = wsScript[s].op
                    /\ Joins(message.payload, Kept(s, f))

\* The payload of a pong that answers the ping f
Answers(payload, f) ==
    /\ After(payload, Len(payload) - wsScript[f].len) = Clear(f)
    /\ ~MessageOpen(f - 1) => payload = Clear(f)

\* Frames the protocol has been given to their last byte
Arrived == {f \in DOMAIN wsScript : \A k \in DOMAIN wsLeft : wsLeft[k].f # f}

\* The frames that end a message, and the pings
Ends == {f \in DOMAIN wsScript : wsScript[f].fin /\ IsData(f)}

Pings == {f \in DOMAIN wsScript : wsScript[f].op = 9}

\* How many of the frames fs the client has sent when it has sent f
Rank(fs, f) == Cardinality({t \in fs : t <= f})

-----------------------------------------------------------------------------
(* Properties *)

\* The state HandlerProtocol keeps between calls has the values it can have:
\* used bytes are in the buffer, and a parsed header is kept exactly while
\* its payload is awaited, so that a header is never parsed twice.
WSTypeOK ==
    /\ wsState \in {"handshake", "open", "closed"}
    /\ wsPc \in {"idle", "header", "payload"}
    /\ wsUsed \in 0..Len(wsIn)
    /\ wsCont \in 0..7
    /\ wsPc = "idle" /\ wsState = "open" =>
         /\ wsUsed = 0
         /\ wsFrame.len > 0 => Len(wsIn) < wsFrame.len
         /\ wsFrame.len = 0 /\ wsIn # << >> => wsIn[1].i = 1

\* A request that arrives with no chunk ending after its first line opens the
\* connection exactly when it asks for a WebSocket the server supports, and is
\* answered 101 then, and 400 when it is a head but not such a one.
\* (A chunk ending later makes rstrstr() take the
\* lines so far for the whole request.)
WSOpened ==
    wsClean /\ wsAsk = << >> /\ wsScript = << >> =>
        /\ wsState = "open" <=> ParseOk(wsReq, FALSE) /\ Accepted(wsReq)
        /\ wsReply = IF wsState = "open" THEN "101"
                     ELSE IF ParseOk(wsReq, FALSE) THEN "400" ELSE "none"

\* However the client's bytes are cut into chunks, once the protocol waits
\* for more it has delivered exactly the messages that have arrived whole, in
\* order, with the opcode of their first frame and their unmasked payload.
\* The one exception is a message with a control frame between its fragments,
\* which shares ws_fragmentation_buffer_ and clears it: the message keeps the
\* fragments after the last control frame, and the next one is whole again.
WSDelivered ==
    /\ Len(wsGot) <= Cardinality(Ends \cap Arrived)
    /\ wsState = "open" /\ wsPc = "idle" => Len(wsGot) = Cardinality(Ends \cap Arrived)
    /\ \A f \in Ends : Rank(Ends, f) <= Len(wsGot) => Delivered(wsGot[Rank(Ends, f)], f)

\* Every ping that has arrived is answered once the protocol waits for more,
\* the k-th by the k-th pong: it ends with that ping's payload in clear, and is
\* nothing else when no fragmented message is open.
WSEcho ==
    /\ Len(wsPongs) <= Cardinality(Pings \cap Arrived)
    /\ wsState = "open" /\ wsPc = "idle" => Len(wsPongs) = Cardinality(Pings \cap Arrived)
    /\ \A f \in Pings : Rank(Pings, f) <= Len(wsPongs) => Answers(wsPongs[Rank(Pings, f)], f)

\* At most one close frame is sent, even when the application closes first
\* and the client's close, a failing handler or a bad opcode comes after.
WSCloseOnce == wsCloses <= 1

\* The header SendWS writes is read back by HandlerProtocol's own decoder as
\* the frame that was asked for, at every boundary of the length encoding.
WSHeaderOK ==
    LET d == DecodeHeader(wsHeader.bytes)
    IN  /\ d.size = Len(wsHeader.bytes)
        /\ d.frame = [fin |-> wsHeader.fin, op |-> wsHeader.op,
                      masked |-> FALSE, len |-> wsHeader.len]

\* The WebSocket side: however the peer's stream is cut into chunks, what the
\* application gets and what the peer gets back is what the frames say.
WSCorrect ==
    WSTypeOK /\ WSOpened /\ WSDelivered /\ WSEcho /\ WSCloseOnce /\ WSHeaderOK
=============================================================================
