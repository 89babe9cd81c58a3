----------------------------- MODULE HttpClient -----------------------------
(***************************************************************************)
(* eventdrive/httpclient.cpp: a process that fetches one page for each     *)
(* Connect() and answers with ProcessRespond().  The parts of BaseProcess, *)
(* TCPConnector and TCPCarrier it meets are here as far as it sees them;   *)
(* module Connection has them in full.                                     *)
(***************************************************************************)
EXTENDS HttpText

CONSTANTS
    HcPages,        \* responses a server may give: [head, body]
    HcMaxConnect    \* bound: calls of Connect() that get past its checks

ASSUME HcAssumption ==
    /\ \A page \in HcPages : IsResponse(page)
    /\ HcMaxConnect \in Nat

VARIABLES
    hcTry,      \* number of Connect() calls that set up a new fetch
    hcPage,     \* the response the server gives to each of them
    hcStatus,   \* process_net_status_
    hcIo,       \* io_handler_: "none", "connector" or "carrier"
    hcServer,   \* server_ip_ is not empty
    hcLength,   \* content_length_
    hcFields,   \* http_header_
    hcLeft,     \* bytes of the server that have not arrived
    hcIn,       \* input_buffer_
    hcAttached, \* history: the fetches that got a connection
    hcAnswers   \* history: the calls of ProcessRespond()

hcFetch == <<hcServer, hcLength, hcFields>>
hcVars == <<hcTry, hcPage, hcStatus, hcIo, hcFetch, hcLeft, hcIn, hcAttached, hcAnswers>>

HCInit ==
    /\ hcTry = 0 /\ hcPage = << >>
    /\ hcStatus = "DISCONNECT" /\ hcIo = "none"
    /\ hcServer = FALSE /\ hcLength = 0 /\ hcFields = << >>
    /\ hcLeft = << >> /\ hcIn = << >>
    /\ hcAttached = {} /\ hcAnswers = << >>

PageHeads == [m \in DOMAIN hcPage |-> hcPage[m].head]

\* ProcessRespond(code, http_header_, body, ...), for the current fetch
Answer(code, fields, body) == [try |-> hcTry, code |-> code, fields |-> fields, body |-> body]

-----------------------------------------------------------------------------
(* Connect() *)

MayConnect == hcStatus \notin {"CONNECTING", "CONNECTED"} /\ hcTry < HcMaxConnect

\* What Connect() clears; found: whether the URL names a host that is known
Reset(found) ==
    /\ hcServer' = found
    /\ hcLength' = 0
    /\ hcFields' = << >>
    /\ hcIn' = << >> /\ hcLeft' = << >>

\* A URL that is malformed or whose host is not known: false
HCConnectBadUrl ==
    /\ MayConnect
    /\ Reset(FALSE)
    /\ UNCHANGED <<hcTry, hcPage, hcStatus, hcIo, hcAttached, hcAnswers>>

\* TCPConnect() fails at once, which Connect() does not look at: true, and
\* the connector io_handler_ pointed to is gone
HCConnectFails(page) ==
    /\ MayConnect
    /\ Reset(TRUE)
    /\ hcTry' = hcTry + 1 /\ hcPage' = Append(hcPage, page)
    /\ hcStatus' = "SYS_ERROR" /\ hcIo' = "none"
    /\ UNCHANGED <<hcAttached, hcAnswers>>

HCConnect(page) ==
    /\ MayConnect
    /\ Reset(TRUE)
    /\ hcTry' = hcTry + 1 /\ hcPage' = Append(hcPage, page)
    /\ hcStatus' = "CONNECTING" /\ hcIo' = "connector"
    /\ UNCHANGED <<hcAttached, hcAnswers>>

\* The connector's event: a carrier, whose constructor calls AttachNet(), which
\* sends the GET
HCConnected ==
    /\ hcStatus = "CONNECTING"
    /\ hcStatus' = "CONNECTED" /\ hcIo' = "carrier"
    /\ hcAttached' = hcAttached \cup {hcTry}
    /\ hcLeft' = HeadBytes(hcTry, hcPage[hcTry].head) \o BodyBytes(hcTry, hcPage[hcTry].body)
    /\ UNCHANGED <<hcTry, hcPage, hcFetch, hcIn, hcAnswers>>

\* The connector's error: nobody calls DetachNet()
HCRefused ==
    /\ hcStatus = "CONNECTING"
    /\ hcStatus' = "SYS_ERROR" /\ hcIo' = "none"
    /\ UNCHANGED <<hcTry, hcPage, hcFetch, hcLeft, hcIn, hcAttached, hcAnswers>>

-----------------------------------------------------------------------------
(* The end of a connection: ~TCPCarrier() *)

\* DetachNet() answers -1 unless Process() has answered
Detached(server, answers) ==
    IF server THEN Append(answers, Answer(-1, hcFields, << >>)) ELSE answers

\* The connection ends with these answers given and server_ip_ set or not.
\* The carrier clears io_handler_ last.
EndWith(server, answers) ==
    /\ hcStatus' = "DISCONNECT" /\ hcIo' = "none"
    /\ hcServer' = server
    /\ hcAnswers' = Detached(server, answers)
    /\ UNCHANGED <<hcTry, hcPage, hcAttached>>

\* The peer closes or resets, or an error
HCPeerEnds ==
    /\ hcStatus = "CONNECTED"
    /\ EndWith(hcServer, hcAnswers)
    /\ hcLeft' = << >>
    /\ UNCHANGED <<hcLength, hcFields, hcIn>>

\* The same, and the application's ProcessRespond(-1) tries again: Connect()
\* runs inside the destructor, which then clears the io_handler_ it set
HCPeerEndsRetry(page) ==
    /\ hcStatus = "CONNECTED" /\ hcServer /\ hcTry < HcMaxConnect
    /\ hcAnswers' = Detached(TRUE, hcAnswers)
    /\ Reset(TRUE)
    /\ hcTry' = hcTry + 1 /\ hcPage' = Append(hcPage, page)
    /\ hcStatus' = "CONNECTING" /\ hcIo' = "none"
    /\ UNCHANGED hcAttached

-----------------------------------------------------------------------------
(* Process() *)

Untouched == UNCHANGED <<hcTry, hcPage, hcStatus, hcIo, hcAttached>>

\* Mutant: the server is still known when the answer is given.
HCBodyKeepsServer(data, length, fields) ==
    /\ hcLength' = length /\ hcFields' = fields
    /\ hcIn' = data
    /\ IF length # 0 /\ length = Len(data)
       THEN EndWith(hcServer, Append(hcAnswers, Answer(200, fields, data)))
       ELSE UNCHANGED <<hcServer, hcAnswers, hcTry, hcPage, hcStatus, hcIo, hcAttached>>

\* The second part of Process(): exactly the body is there, or wait
HCBody(data, length, fields) ==
    /\ hcLength' = length /\ hcFields' = fields
    /\ hcIn' = data
    /\ IF length # 0 /\ length = Len(data)
       THEN EndWith(FALSE, Append(hcAnswers, Answer(200, fields, data)))
       ELSE UNCHANGED <<hcServer, hcAnswers, hcTry, hcPage, hcStatus, hcIo, hcAttached>>

\* The head of the response ends at p
HCHead(b, p) ==
    LET lines == LinesBefore(b, p, PageHeads)
        hash  == Fields(lines)
    IN  IF ParseOk(lines, TRUE) /\ "Content-Length" \in DOMAIN hash
        THEN HCBody(After(b, p + 3), hash["Content-Length"], hash)
        ELSE /\ EndWith(hcServer, hcAnswers)
             /\ hcIn' = b /\ hcFields' = hash /\ UNCHANGED hcLength

Cut(b) == \E k \in DOMAIN b : b[k].k = NUL

\* The end of the head is not there: the last byte was overwritten for the
\* search and stays so (only the first such byte is kept: no search gets past)
HCNoHead(b) ==
    /\ hcIn' = IF Len(b) < 4 \/ Cut(b) THEN b ELSE [b EXCEPT ![Len(b)].k = NUL]
    /\ UNCHANGED <<hcServer, hcLength, hcFields, hcAnswers>>
    /\ Untouched

HCProcess(n) ==
    /\ hcStatus = "CONNECTED" /\ n <= Len(hcLeft)
    /\ LET b == hcIn \o SubSeq(hcLeft, 1, n)
       IN  CASE hcLength # 0 -> HCBody(b, hcLength, hcFields)
             [] hcLength = 0 /\ StrStr(b) = 0 -> HCNoHead(b)
             [] OTHER -> HCHead(b, StrStr(b))
    /\ hcLeft' = IF hcStatus' = "CONNECTED" THEN After(hcLeft, n) ELSE << >>

HCNext ==
    \/ HCConnectBadUrl
    \/ \E page \in HcPages : HCConnectFails(page)
    \/ \E page \in HcPages : HCConnect(page)
    \/ HCConnected
    \/ HCRefused
    \/ HCPeerEnds
    \/ \E page \in HcPages : HCPeerEndsRetry(page)
    \/ \E n \in 1..Len(hcLeft) : HCProcess(n)

HCSpec == HCInit /\ [][HCNext]_hcVars

-----------------------------------------------------------------------------
(* Properties *)

Count(t) == Cardinality({k \in DOMAIN hcAnswers : hcAnswers[k].try = t})

\* A fetch that got a connection is answered exactly once by the time that
\* connection has ended, whether Process() answered it or DetachNet() did, and
\* also when the application starts the next fetch from inside the answer.  A
\* fetch that never got one (refused, or failing at once) is never answered.
HCOnce ==
    \A t \in 1..hcTry :
        Count(t) = IF t \in hcAttached /\ (t = hcTry => hcStatus # "CONNECTED") THEN 1 ELSE 0

\* A fetch answered with a page got that fetch's page: the whole body and the
\* fields of its own head, nothing left over from an earlier fetch.
HCBodyOK ==
    \A k \in DOMAIN hcAnswers :
        LET a == hcAnswers[k]
        IN  a.code = 200 => /\ a.body = BodyBytes(a.try, hcPage[a.try].body)
                            /\ a.fields = Fields(hcPage[a.try].head)

\* A page that has arrived whole is still unanswered only if the chunks cut
\* its head (a byte of it was overwritten) or its body is empty.
HCAnswered ==
    hcStatus = "CONNECTED" /\ hcLeft = << >> =>
        \/ Cut(hcIn)
        \/ hcPage[hcTry].body = 0

\* One answer for each connection, made of that fetch's own page, and an
\* answer as soon as the page is there (Process, DetachNet, Reset).
HCCorrect == HCOnce /\ HCBodyOK /\ HCAnswered
=============================================================================
