---------------------------- MODULE HTTPProtocol ----------------------------
(***************************************************************************)
(* protocols/httpprotocol.cpp: HandlerProtocol(), the server's side, and   *)
(* HandlerProtocolRespond(), the client's.  As in WSProtocol the caller    *)
(* hands over its whole input buffer and ignores the length returned.      *)
(* What a message says (SendHead, SendContent, SendChunked, HTTPGet) is    *)
(* text for the other side and leaves no state behind.                     *)
(***************************************************************************)
EXTENDS HttpText

CONSTANTS
    HtRequests,     \* sequences of requests a peer may send, each a head
    HtResponses     \* sequences of responses: [head, body], body its length

ASSUME HtAssumption ==
    /\ \A s \in HtRequests : IsSequence(s) /\ \A k \in DOMAIN s : IsHead(s[k])
    /\ \A s \in HtResponses : IsSequence(s) /\ \A k \in DOMAIN s : IsResponse(s[k])

VARIABLES
    htMode,     \* "server" or "client"
    htMsgs,     \* what the peer sends: requests or responses, in order
    htAsked,    \* the peer's messages so far: requests it has sent, or
                \* requests of the client, of which it answers each
    htLeft,     \* bytes of the peer that have not arrived
    htIn,       \* the input buffer
    htOpen,     \* the connection is up
    htFields,   \* http_request_header_hash_ or http_respond_header_hash_
    htLength,   \* content_length_
    htGot,      \* history: what Handler or HandlerRespond was called with
    htClean     \* history: every chunk left one head in the buffer, or part
                \* of its first line

htVars == <<htMode, htMsgs, htAsked, htLeft, htIn, htOpen, htFields,
            htLength, htGot, htClean>>

Heads == [m \in DOMAIN htMsgs |-> IF htMode = "server" THEN htMsgs[m] ELSE htMsgs[m].head]

MessageBytes(mode, msgs, m) ==
    IF mode = "server" THEN HeadBytes(m, msgs[m])
    ELSE HeadBytes(m, msgs[m].head) \o BodyBytes(m, msgs[m].body)

HTInit ==
    /\ \/ htMode = "server" /\ htMsgs \in HtRequests
       \/ htMode = "client" /\ htMsgs \in HtResponses
    /\ htAsked = 0
    /\ htLeft = << >> /\ htIn = << >> /\ htOpen = TRUE
    /\ htFields = << >> /\ htLength = -1
    /\ htGot = << >> /\ htClean = TRUE

-----------------------------------------------------------------------------
(* The server *)

\* The peer sends its next request, whether or not the last one was handled
HTPeerSends ==
    /\ htMode = "server" /\ htOpen /\ htAsked < Len(htMsgs)
    /\ htAsked' = htAsked + 1
    /\ htLeft' = htLeft \o MessageBytes("server", htMsgs, htAsked')
    /\ UNCHANGED <<htMode, htMsgs, htIn, htOpen, htFields, htLength, htGot, htClean>>

\* Process() fails, the connection ends
HTFail ==
    /\ htOpen' = FALSE
    /\ UNCHANGED <<htIn, htGot, htLength>>

\* HandlerProtocol; ok: what Handler() returns.  CheckHeader() finds the
\* version ParseHeader() has just stored.  When what is left begins inside a line the model
\* stops, as if the connection had ended.
HTRequest(b, ok) ==
    LET p     == RStrStr(b)
        lines == LinesBefore(b, p, Heads)
    IN  IF p = 0 THEN htIn' = b /\ UNCHANGED <<htFields, htGot, htOpen>>
        ELSE /\ htFields' = IF ParseOk(lines, FALSE) THEN Fields(lines) ELSE << >>
             /\ htGot' = IF ParseOk(lines, FALSE) THEN Append(htGot, htFields') ELSE htGot
             /\ htIn' = After(b, p + 3)
             /\ htOpen' = (ParseOk(lines, FALSE) /\ ok /\ (htIn' = << >> \/ htIn'[1].k = 1))

\* Chunks that HandlerProtocol can tell apart: no CR with three bytes behind
\* it yet, or one whole request and nothing else
CleanChunk(b) ==
    \/ RStrStr(b) = 0
    \/ b = MessageBytes("server", htMsgs, b[1].m)

HTArriveRequest(n, ok) ==
    /\ htMode = "server" /\ htOpen /\ n <= Len(htLeft)
    /\ LET b == htIn \o SubSeq(htLeft, 1, n)
       IN  /\ HTRequest(b, ok)
           /\ htClean' = (htClean /\ CleanChunk(b))
    /\ htLeft' = After(htLeft, n)
    /\ UNCHANGED <<htMode, htMsgs, htAsked, htLength>>

-----------------------------------------------------------------------------
(* The client *)

\* Mutant: content_length_ is not reset.
ParseUrlKeepsLength ==
    /\ htAsked' = htAsked + 1
    /\ htFields' = << >>
    /\ UNCHANGED htLength

\* ParseUrl() starts the next request, HTTPGet() sends it
ParseUrl ==
    /\ htAsked' = htAsked + 1
    /\ htFields' = << >>
    /\ htLength' = -1

\* The application asks for the next page once the last one is there
HTGet ==
    /\ htMode = "client" /\ htOpen
    /\ htAsked = Len(htGot) /\ htAsked < Len(htMsgs)
    /\ ParseUrl
    /\ htLeft' = htLeft \o MessageBytes("client", htMsgs, htAsked')
    /\ UNCHANGED <<htMode, htMsgs, htIn, htOpen, htGot, htClean>>

\* HandlerProtocolRespond from its second part on: data are the bytes after
\* the head, length what content_length_ is by now
HTBody(data, length, ok) ==
    /\ htLength' = length
    /\ CASE length = 0 -> htOpen' = FALSE /\ UNCHANGED <<htIn, htGot>>
         [] length > Len(data) -> htIn' = data /\ UNCHANGED <<htOpen, htGot>>
         [] OTHER -> /\ htGot' = Append(htGot, SubSeq(data, 1, length))
                     /\ htIn' = << >>
                     /\ htOpen' = ok

\* HandlerProtocolRespond; ok: what HandlerRespond() returns
HTRespond(b, ok) ==
    LET p     == StrStr(b)
        lines == LinesBefore(b, p, Heads)
        hash  == Fields(lines)
    IN  IF htLength # -1 THEN HTBody(b, htLength, ok) /\ UNCHANGED htFields
        ELSE IF p = 0
          THEN htIn' = b /\ UNCHANGED <<htFields, htOpen, htGot, htLength>>
        ELSE /\ htFields' = hash
             /\ IF ParseOk(lines, TRUE) /\ "Content-Length" \in DOMAIN hash
                  THEN HTBody(After(b, p + 3), hash["Content-Length"], ok)
                  ELSE HTFail

HTArriveRespond(n, ok) ==
    /\ htMode = "client" /\ htOpen /\ n <= Len(htLeft)
    /\ HTRespond(htIn \o SubSeq(htLeft, 1, n), ok)
    /\ htLeft' = After(htLeft, n)
    /\ UNCHANGED <<htMode, htMsgs, htAsked, htClean>>

HTNext ==
    \/ HTPeerSends
    \/ \E n \in 1..Len(htLeft), ok \in BOOLEAN : HTArriveRequest(n, ok)
    \/ \E n \in 1..Len(htLeft), ok \in BOOLEAN : HTArriveRespond(n, ok)
    \/ HTGet

HTSpec == HTInit /\ [][HTNext]_htVars

-----------------------------------------------------------------------------
(* Properties *)

\* A request whose chunks end inside its first line until the last one brings
\* exactly its end is handled once, in order, with its own fields and none of
\* an earlier request.  (Any other cut is taken for the end of a head by
\* rstrstr(), and two requests in one chunk for one.)
HTServed ==
    htMode = "server" /\ htClean =>
        /\ \A k \in DOMAIN htGot : /\ k \in DOMAIN htMsgs
                                   /\ htGot[k] = Fields(htMsgs[k])
        /\ htOpen /\ htLeft = << >> => Len(htGot) = htAsked

\* However a response is cut into chunks, HandlerRespond() gets the whole body
\* of each response and nothing else, once for each request, in order: what
\* content_length_ was for the last response is never used for the next.
HTResponses ==
    htMode = "client" =>
        /\ \A k \in DOMAIN htGot : htGot[k] = BodyBytes(k, htMsgs[k].body)
        /\ Len(htGot) <= htAsked
        /\ htOpen /\ htLeft = << >> => Len(htGot) = htAsked

\* The two directions of the incremental parse of HandlerProtocol, over every
\* cut of the stream: no field or length of one message is used for another.
HTCorrect == HTServed /\ HTResponses
=============================================================================
