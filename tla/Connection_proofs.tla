-------------------------- MODULE Connection_proofs --------------------------
(***************************************************************************)
(* Proofs about Connection, for every set of processes, handlers and       *)
(* descriptors, whatever kinds of connection there are, and every size of  *)
(* the output buffer.                                                      *)
(***************************************************************************)
EXTENDS Connection, FiniteSetTheorems, SequenceTheorems, TLAPS

Byte == 1..MaxGiven
ProcRec == [st : Status \cup {"none"}, io : Handlers \cup {NULL, "dangling"},
            me : BOOLEAN, wr : BOOLEAN, out : Seq(Byte)]
HandRec == [ty : Kinds \cup Connectors \cup {"none"}, p : Procs \cup {NULL},
            fl : {{}, CLOSE_FD, CLOSE_ALL}, fd : Fds \cup {NULL}, ev : SUBSET {"in", "out"}]
StreamRec == [wire : Seq(Byte), given : 0..MaxGiven, torn : BOOLEAN, stale : BOOLEAN]
CmdRec == [ty : {"tcp", "unix"}, fd : Fds, transfer : BOOLEAN]
CurRec == [h : Handlers \cup {NULL}, ev : SUBSET {"in", "out", "err", "hup"},
           at : {"none", "in", "out", "err", "hup", "cmd"}]

\* Where Pulse is between handlers, and inside the OnEvent or the command of
\* one.
Outside == {"events", "cmds", "timeouts", "timers"}
Inside == {"end", "read", "write", "flush", "tail", "process"}

\* The types of all members.
Types ==
  /\ proc \in [Procs -> ProcRec]
  /\ \A p \in Procs : Len(proc[p].out) <= SendBuffer
  /\ hand \in [Handlers -> HandRec]
  /\ stream \in [Procs -> StreamRec]
  /\ open \subseteq Fds /\ attached \subseteq Procs
  /\ cmds \in Seq(CmdRec)
  /\ query \subseteq Handlers
  /\ cur \in CurRec
  /\ pc \in Outside \cup Inside
  /\ closed \in BOOLEAN /\ fault \in Faults

\* What was deleted leaves nothing behind, and no process that is left has
\* timed out.
Gone ==
  /\ \A p \in Procs : proc[p].st # "TIMEOUT"
  /\ \A p \in Procs : proc[p].st = "none" => proc[p] = NoProcess /\ stream[p] = NewStream
  /\ \A h \in Handlers : hand[h].ty = "none" => hand[h] = NoHandler

\* Handlers and processes point at each other, and the kind of the handler
\* goes with the status; a process that is disconnected and has a handler is
\* that of a pipe that hung up.
HandlerPaired(h) ==
  hand[h].ty # "none" => /\ hand[h].p \in Procs
                         /\ proc[hand[h].p].st # "none" /\ proc[hand[h].p].io = h
ProcPaired(p) ==
  /\ proc[p].st \in {"CONNECTED", "CONNECTING"} => proc[p].io \in Handlers
  /\ proc[p].io \in Handlers =>
       LET h == hand[proc[p].io] IN
       /\ h.p = p
       /\ proc[p].st = "CONNECTED" => h.ty \in Kinds
       /\ proc[p].st = "CONNECTING" => h.ty \in Connectors
       /\ proc[p].st \notin {"CONNECTED", "CONNECTING"} => h.ty \in Kinds \cap {"pipe"}
Offered(ty) == /\ ty = "tcp connector" => "tcp" \in Kinds
               /\ ty = "unix connector" => "unix" \in Kinds
KindKnown(h) == Offered(hand[h].ty)
Pairs == /\ \A h \in Handlers : HandlerPaired(h) /\ KindKnown(h)
         /\ \A p \in Procs : ProcPaired(p)

\* Exactly the processes of carriers are in the timeout manager.
Timed == \A p \in Procs : p \in attached <=> \E h \in Handlers : IsCarrier(h) /\ hand[h].p = p

\* What Pulse has pointers to, by where it is.  The parts of OnEvent that only
\* a pipe has are reached by pipes only.
Where ==
  /\ pc \in Outside => cur = Nobody
  /\ pc \in Inside => cur.h \in Handlers /\ IsCarrier(cur.h) /\ cur.h \notin query
  /\ pc \in {"cmds", "timeouts", "timers"} => query = {}
  /\ pc = "process" => cur.at # "none"
  /\ pc = "process" /\ cur.at = "cmd" => query = {}
  /\ pc = "write" => hand[cur.h].ty = "pipe"
  /\ pc = "process" /\ cur.at \in {"out", "err", "hup"} => hand[cur.h].ty = "pipe"
  /\ \A h \in query : hand[h].ty # "none"

\* FdOwned without counting: an owner is a handler or a command, there is one,
\* and no two are the same descriptor's.
Owned ==
  /\ \A fd \in open : (\E h \in Handlers : hand[h].fd = fd) \/ (\E i \in DOMAIN cmds : cmds[i].fd = fd)
  /\ \A h \in Handlers : hand[h].ty # "none" => hand[h].fd \in open /\ "fd" \in hand[h].fl
  /\ \A g, h \in Handlers : hand[g].fd = hand[h].fd /\ hand[g].ty # "none" => g = h
  /\ \A i \in DOMAIN cmds : cmds[i].fd \in open
  /\ \A i, j \in DOMAIN cmds : cmds[i].fd = cmds[j].fd => i = j
  /\ \A h \in Handlers, i \in DOMAIN cmds : hand[h].fd # cmds[i].fd

\* StreamInOrder, of one process.
InOrderOf(p) == proc[p].st = "CONNECTED" /\ ~stream[p].torn =>
                  stream[p].wire \o proc[p].out = [i \in 1..stream[p].given |-> i]
InOrder == \A p \in Procs : InOrderOf(p)

\* is_write_ is set while bytes are buffered, whether or not there is a
\* connection, and says what epoll watches unless it is stale.
ArmedOf(p) ==
  /\ proc[p].out # <<>> => proc[p].wr
  /\ proc[p].st = "CONNECTED" /\ proc[p].wr /\ ~stream[p].stale => "out" \in hand[proc[p].io].ev
Armed == \A p \in Procs : ArmedOf(p)

\* The inductive invariant: after a use of deleted memory nothing is claimed
\* but its cause.
Good == Gone /\ Pairs /\ Timed /\ Where /\ Owned /\ InOrder /\ Armed
ConnInv == Types /\ Blame /\ (fault = "none" => Good)

USE ConnectionAssumption

------------------------------------------------------------------------------
(* What the invariant says.                                                *)

\* A handler is a carrier or a connector or not there.
LEMMA KindsDiffer ==
  /\ "none" \notin Kinds /\ Kinds \cap Connectors = {}
  /\ "none" \notin Connectors
  BY DEF Connectors

\* The bounds are numbers.
LEMMA Bounds == SendBuffer \in Nat /\ MaxMsg \in Nat /\ MaxGiven \in Nat
  OBVIOUS

\* What is left of something deleted has the type of what was there.
LEMMA Blank ==
  /\ NoProcess \in ProcRec /\ Len(NoProcess.out) = 0 /\ Len(NoProcess.out) <= SendBuffer
  /\ NoHandler \in HandRec
  /\ NewStream \in StreamRec
<1>1. <<>> \in Seq(Byte) /\ Len(<<>>) = 0
  BY EmptySeq
<1>2. NoProcess \in ProcRec /\ Len(NoProcess.out) = 0 /\ Len(NoProcess.out) <= SendBuffer
  BY <1>1, Bounds DEF NoProcess, ProcRec
<1>3. NoHandler \in HandRec
  BY DEF NoHandler, HandRec
<1>4. NewStream \in StreamRec
  BY <1>1, Bounds DEF NewStream, StreamRec
<1> QED
  BY <1>2, <1>3, <1>4

\* The invariant implies what the runs check of links.
LEMMA LinksFollow == ASSUME ConnInv PROVE LinksOK
<1>1. TypeOK
  BY DEF ConnInv, Types, TypeOK, ProcRec, HandRec, Byte, CurRec
<1>2. ASSUME fault = "none" PROVE
        /\ \A h \in Handlers : hand[h].ty # "none" => hand[h].p \in Live /\ proc[hand[h].p].io = h
        /\ \A h \in query \cup {cur.h} : h # NULL => hand[h].ty # "none"
        /\ attached = {hand[h].p : h \in {x \in Handlers : IsCarrier(x)}}
  <2>1. \A h \in Handlers : hand[h].ty # "none" => hand[h].p \in Live /\ proc[hand[h].p].io = h
    BY <1>2 DEF ConnInv, Good, Pairs, HandlerPaired, Live
  <2>2. \A h \in query \cup {cur.h} : h # NULL => hand[h].ty # "none"
    BY <1>2, KindsDiffer DEF ConnInv, Types, Good, Where, IsCarrier, Nobody, Inside, Outside
  <2>3. attached = {hand[h].p : h \in {x \in Handlers : IsCarrier(x)}}
    <3>1. \A h \in Handlers : IsCarrier(h) => hand[h].p \in Procs
      BY <1>2, KindsDiffer DEF ConnInv, Good, Pairs, HandlerPaired, IsCarrier
    <3> QED
      BY <1>2, <3>1 DEF ConnInv, Good, Timed, Types
  <2> QED
    BY <2>1, <2>2, <2>3
<1>3. ASSUME fault = "none", NEW p \in Live
      PROVE LET h == proc[p].io IN
         /\ proc[p].st = "CONNECTED" => h \in Handlers /\ IsCarrier(h) /\ hand[h].p = p
         /\ proc[p].st = "CONNECTING" => h \in Handlers /\ hand[h].ty \in Connectors /\ hand[h].p = p
         /\ h \in Handlers => hand[h].p = p
  BY <1>3 DEF ConnInv, Good, Pairs, ProcPaired, Live, IsCarrier
<1> QED
  BY <1>1, <1>2, <1>3 DEF LinksOK, Linked

\* The invariant implies what the runs check of descriptors.
LEMMA OwnersFollow == ASSUME ConnInv PROVE FdOwned
<1>1. SUFFICES ASSUME fault = "none" PROVE
        /\ \A fd \in open : Cardinality({h \in Handlers : hand[h].fd = fd})
                              + Cardinality({i \in DOMAIN cmds : cmds[i].fd = fd}) = 1
        /\ \A h \in Handlers : hand[h].ty # "none" => hand[h].fd \in open /\ "fd" \in hand[h].fl
  BY DEF FdOwned
<1>2. Owned /\ Gone /\ open \subseteq Fds
  BY <1>1 DEF ConnInv, Good, Types
<1>3. ASSUME NEW fd \in open
      PROVE Cardinality({h \in Handlers : hand[h].fd = fd})
              + Cardinality({i \in DOMAIN cmds : cmds[i].fd = fd}) = 1
  <2>1. \A g, h \in Handlers : hand[g].fd = fd /\ hand[h].fd = fd => g = h
    BY <1>2 DEF Owned, Gone, NoHandler
  <2>2. \A i, j \in DOMAIN cmds : cmds[i].fd = fd /\ cmds[j].fd = fd => i = j
    BY <1>2 DEF Owned
  <2> DEFINE H == {h \in Handlers : hand[h].fd = fd}
             C == {i \in DOMAIN cmds : cmds[i].fd = fd}
  <2>3. CASE \E h \in Handlers : hand[h].fd = fd
    <3>1. PICK h \in Handlers : hand[h].fd = fd
      BY <2>3
    <3>2. H = {h} /\ C = {}
      BY <1>2, <2>1, <3>1 DEF Owned
    <3>3. Cardinality(H) = 1 /\ Cardinality(C) = 0
      BY <3>2, FS_Singleton, FS_EmptySet
    <3> QED
      BY <3>3
  <2>4. CASE ~ \E h \in Handlers : hand[h].fd = fd
    <3>1. PICK i \in DOMAIN cmds : cmds[i].fd = fd
      BY <1>2, <2>4 DEF Owned
    <3>2. C = {i} /\ H = {}
      BY <2>2, <2>4, <3>1
    <3>3. Cardinality(C) = 1 /\ Cardinality(H) = 0
      BY <3>2, FS_Singleton, FS_EmptySet
    <3> QED
      BY <3>3
  <2> QED
    BY <2>3, <2>4
<1> QED
  BY <1>2, <1>3 DEF Owned

\* The invariant implies what the runs check of output.
LEMMA OutputFollows == ASSUME ConnInv PROVE OutputOK
<1>1. StreamInOrder
  BY DEF ConnInv, Good, InOrder, InOrderOf, StreamInOrder, Live
<1>2. WriteArmed
  BY DEF ConnInv, Good, Armed, ArmedOf, WriteArmed, Live
<1> QED
  BY <1>1, <1>2 DEF OutputOK

\* A worker that has done nothing yet.
LEMMA InitInv == ASSUME Init PROVE ConnInv
<1>1. Types
  <2>1. cmds \in Seq(CmdRec)
    BY EmptySeq DEF Init
  <2>2. \A p \in Procs : Len(proc[p].out) <= SendBuffer
    BY Blank, Bounds DEF Init
  <2> QED
    BY <2>1, <2>2, Blank DEF Init, Types, Nobody, Outside, Faults, CurRec
<1>2. Blame
  BY DEF Init, Blame
<1>3. Gone /\ Pairs
  BY DEF Init, Gone, Pairs, HandlerPaired, ProcPaired, KindKnown, Offered, NoProcess, NoHandler
<1>4. Timed /\ Where
  BY KindsDiffer DEF Init, Timed, Where, IsCarrier, NoHandler, Nobody, Outside, Inside
<1>5. Owned
  BY DEF Init, Owned, NoHandler
<1>6. InOrder /\ Armed
  BY DEF Init, InOrder, InOrderOf, Armed, ArmedOf, NoProcess
<1> QED
  BY <1>1, <1>2, <1>3, <1>4, <1>5, <1>6 DEF ConnInv, Good

------------------------------------------------------------------------------
(* Steps that delete and make nothing.                                     *)

\* What keeps every pair, every status and every descriptor keeps the links,
\* whatever it does to flags, events and output.
LEMMA EditKeeps ==
  ASSUME Types, Good, Types',
         \A p \in Procs : /\ proc'[p].st = proc[p].st /\ proc'[p].io = proc[p].io
                          /\ proc[p].st = "none" => proc'[p] = proc[p] /\ stream'[p] = stream[p],
         \A h \in Handlers : /\ hand'[h].ty = hand[h].ty /\ hand'[h].p = hand[h].p
                             /\ hand'[h].fd = hand[h].fd
                             /\ hand[h].ty = "none" => hand'[h] = hand[h]
                             /\ "fd" \in hand[h].fl => "fd" \in hand'[h].fl,
         UNCHANGED <<open, attached, cmds>>
  PROVE  Gone' /\ Pairs' /\ Timed' /\ Owned'
<1>1. Gone'
  BY DEF Good, Gone
<1>2. Pairs'
  <2>1. ASSUME NEW h \in Handlers PROVE HandlerPaired(h)' /\ KindKnown(h)'
    <3>1. HandlerPaired(h) /\ KindKnown(h)
      BY DEF Good, Pairs
    <3>2. /\ hand'[h].ty = hand[h].ty /\ hand'[h].p = hand[h].p
          /\ \A p \in Procs : proc'[p].st = proc[p].st /\ proc'[p].io = proc[p].io
      OBVIOUS
    <3>3. KindKnown(h)'
      BY <3>1, <3>2 DEF KindKnown
    <3>4. HandlerPaired(h)'
      BY <3>1, <3>2 DEF HandlerPaired
    <3> QED
      BY <3>3, <3>4
  <2>2. ASSUME NEW p \in Procs PROVE ProcPaired(p)'
    BY DEF Good, Pairs, ProcPaired
  <2> QED
    BY <2>1, <2>2 DEF Pairs
<1>3. Timed'
  BY DEF Good, Timed, IsCarrier
<1>4. Owned'
  BY DEF Good, Owned
<1> QED
  BY <1>1, <1>2, <1>3, <1>4

\* Nobody gets or loses a descriptor.
LEMMA OwnedSame == ASSUME Owned, UNCHANGED <<hand, open, cmds>> PROVE Owned'
  BY DEF Owned

\* What Pulse points at is still there when no handler is deleted.
LEMMA WhereSame ==
  ASSUME Types, Where, \A h \in Handlers : hand[h].ty # "none" => hand'[h].ty = hand[h].ty,
         UNCHANGED <<query, pc, cur>>
  PROVE  Where'
  BY KindsDiffer DEF Types, Where, IsCarrier, Nobody, Inside, Outside

------------------------------------------------------------------------------
(* Deletion.                                                               *)

\* The types after handlers and processes were deleted.
LEMMA DestroyTypes ==
  ASSUME Types, NEW D \in SUBSET Handlers, NEW S \in SUBSET Procs, NEW pr \in [Procs -> ProcRec],
         \A p \in Procs : Len(pr[p].out) <= SendBuffer,
         Destroy(D, S, pr)
  PROVE  /\ proc' \in [Procs -> ProcRec]
         /\ \A p \in Procs : Len(proc'[p].out) <= SendBuffer
         /\ hand' \in [Handlers -> HandRec]
         /\ stream' \in [Procs -> StreamRec]
         /\ open' \subseteq Fds /\ attached' \subseteq Procs
<1>1. \A p \in Procs : [pr[p] EXCEPT !.io = NULL] \in ProcRec /\ [pr[p] EXCEPT !.io = NULL].out = pr[p].out
  BY DEF ProcRec
<1>2. proc' \in [Procs -> ProcRec]
  BY <1>1, Blank DEF Destroy
<1>3. \A p \in Procs : Len(proc'[p].out) <= SendBuffer
  BY <1>1, Blank, Bounds DEF Destroy
<1>4. hand' \in [Handlers -> HandRec] /\ stream' \in [Procs -> StreamRec]
  BY Blank DEF Destroy, Types
<1>5. open' \subseteq Fds /\ attached' \subseteq Procs
  BY DEF Destroy, Types
<1> QED
  BY <1>2, <1>3, <1>4, <1>5

\* Handlers D and processes S can go when no handler that stays has a process
\* of S and a process that stays and loses its handler is disconnected first.
LEMMA DestroyKeeps ==
  ASSUME Types, Good, NEW D \in SUBSET Handlers, NEW S \in SUBSET Procs,
         NEW pr \in [Procs -> ProcRec], Destroy(D, S, pr), UNCHANGED cmds,
         \A h \in D : hand[h].ty # "none",
         \A h \in Handlers \ D : hand[h].ty # "none" => hand[h].p \notin S,
         \A p \in Procs \ S : pr[p] = IF proc[p].io \in D THEN [proc[p] EXCEPT !.st = "DISCONNECT"]
                                      ELSE proc[p]
  PROVE  Gone' /\ Pairs' /\ Timed' /\ Owned' /\ InOrder' /\ Armed'
<1>1. \A h \in Handlers : hand'[h] = IF h \in D THEN NoHandler ELSE hand[h]
  BY DEF Destroy
<1>2. \A p \in S : proc'[p] = NoProcess /\ stream'[p] = NewStream
  BY DEF Destroy
<1>3. \A p \in Procs \ S : /\ stream'[p] = stream[p]
                           /\ proc[p].io \notin D => proc'[p] = proc[p]
                           /\ proc[p].io \in D => /\ proc'[p].io = NULL /\ proc'[p].st = "DISCONNECT"
                                                  /\ proc'[p].out = proc[p].out
                                                  /\ proc'[p].wr = proc[p].wr
  <2>1. \A p \in Procs \ S : /\ stream'[p] = stream[p]
                             /\ proc'[p] = IF pr[p].io \in D THEN [pr[p] EXCEPT !.io = NULL] ELSE pr[p]
    BY DEF Destroy
  <2>2. ASSUME NEW p \in Procs, NEW s
        PROVE  LET q == [proc[p] EXCEPT !.st = s] IN
               q.io = proc[p].io /\ q.st = s /\ q.out = proc[p].out /\ q.wr = proc[p].wr
    BY DEF Types, ProcRec
  <2>3. ASSUME NEW p \in Procs
        PROVE  LET q == [pr[p] EXCEPT !.io = NULL] IN
               q.io = NULL /\ q.st = pr[p].st /\ q.out = pr[p].out /\ q.wr = pr[p].wr
    BY DEF ProcRec
  <2>4. ASSUME NEW p \in Procs \ S, proc[p].io \in D
        PROVE  /\ proc'[p].io = NULL /\ proc'[p].st = "DISCONNECT"
               /\ proc'[p].out = proc[p].out /\ proc'[p].wr = proc[p].wr
    <3> DEFINE q == [proc[p] EXCEPT !.st = "DISCONNECT"]
               r == [q EXCEPT !.io = NULL]
    <3>1. q.io = proc[p].io /\ q.st = "DISCONNECT" /\ q.out = proc[p].out /\ q.wr = proc[p].wr
      BY <2>2
    <3>2. pr[p] = q
      BY <2>4
    <3>3. r.io = NULL /\ r.st = q.st /\ r.out = q.out /\ r.wr = q.wr
      BY <2>3, <3>2
    <3>4. proc'[p] = r
      BY <2>1, <2>4, <3>1, <3>2
    <3> QED
      BY <3>1, <3>3, <3>4
  <2> QED
    BY <2>1, <2>4
<1>4. NoHandler.ty = "none" /\ NoHandler.fd = NULL /\ NoHandler.p = NULL
  BY DEF NoHandler
<1>5. NoProcess.st = "none" /\ NoProcess.io = NULL /\ NoProcess.out = <<>>
  BY DEF NoProcess
<1>6. Gone'
  BY <1>1, <1>2, <1>3, <1>4, <1>5 DEF Good, Gone
<1>7. Pairs'
  <2>1. ASSUME NEW h \in Handlers PROVE HandlerPaired(h)' /\ KindKnown(h)'
    <3>1. HandlerPaired(h) /\ KindKnown(h)
      BY DEF Good, Pairs
    <3>2. CASE h \in D
      BY <3>2, <1>1, <1>4 DEF HandlerPaired, KindKnown, Offered
    <3>3. CASE h \notin D
      <4>1. hand'[h] = hand[h]
        BY <3>3, <1>1
      <4>2. ASSUME hand[h].ty # "none"
            PROVE  hand[h].p \in Procs \ S /\ proc'[hand[h].p] = proc[hand[h].p]
        BY <3>1, <3>3, <4>2, <1>3 DEF HandlerPaired
      <4> QED
        BY <3>1, <4>1, <4>2 DEF HandlerPaired, KindKnown
    <3> QED
      BY <3>2, <3>3
  <2>2. ASSUME NEW p \in Procs PROVE ProcPaired(p)'
    <3>1. CASE p \in S
      BY <3>1, <1>2, <1>5 DEF ProcPaired
    <3>2. CASE p \notin S /\ proc[p].io \in D
      BY <3>2, <1>3 DEF ProcPaired
    <3>3. CASE p \notin S /\ proc[p].io \notin D
      BY <3>3, <1>1, <1>3 DEF Good, Pairs, ProcPaired
    <3> QED
      BY <3>1, <3>2, <3>3
  <2> QED
    BY <2>1, <2>2 DEF Pairs
<1>8. Timed'
  <2>1. \A p \in Procs : p \in attached' <=> p \in attached /\ ~ \E h \in D : IsCarrier(h) /\ hand[h].p = p
    BY DEF Destroy
  <2>2. \A h \in Handlers : IsCarrier(h)' <=> IsCarrier(h) /\ h \notin D
    BY <1>1, <1>4, KindsDiffer DEF IsCarrier
  <2>3. \A g, h \in Handlers : IsCarrier(g) /\ IsCarrier(h) /\ hand[g].p = hand[h].p => g = h
    BY KindsDiffer DEF Good, Pairs, HandlerPaired, IsCarrier
  <2>4. \A h \in Handlers \ D : hand'[h].p = hand[h].p
    BY <1>1
  <2>5. ASSUME NEW p \in Procs
        PROVE  p \in attached' <=> \E h \in Handlers : IsCarrier(h)' /\ hand'[h].p = p
    BY <2>1, <2>2, <2>3, <2>4 DEF Good, Timed
  <2> QED
    BY <2>5 DEF Timed, IsCarrier
<1>9. Owned'
  <2>1. \A fd : fd \in open' <=> fd \in open /\ ~ \E h \in D : hand[h].fd = fd
    BY DEF Destroy, Good, Owned
  <2>2. ASSUME NEW h \in Handlers, hand'[h].ty # "none"
        PROVE  hand'[h].fd \in open' /\ "fd" \in hand'[h].fl
    BY <2>1, <2>2, <1>1, <1>4 DEF Good, Owned
  <2>3. ASSUME NEW fd \in open'
        PROVE (\E h \in Handlers : hand'[h].fd = fd) \/ (\E i \in DOMAIN cmds' : cmds'[i].fd = fd)
    BY <2>1, <2>3, <1>1 DEF Good, Owned
  <2>4. \A g, h \in Handlers : hand'[g].fd = hand'[h].fd /\ hand'[g].ty # "none" => g = h
    BY <1>1, <1>4 DEF Good, Owned, Types
  <2>5. \A i \in DOMAIN cmds' : cmds'[i].fd \in open'
    BY <2>1 DEF Good, Owned
  <2>6. \A h \in Handlers, i \in DOMAIN cmds' : hand'[h].fd # cmds'[i].fd
    BY <1>1, <1>4 DEF Good, Owned, Types
  <2> QED
    BY <2>2, <2>3, <2>4, <2>5, <2>6 DEF Good, Owned
<1>10. InOrder' /\ Armed'
  <2>1. ASSUME NEW p \in Procs PROVE InOrderOf(p)' /\ ArmedOf(p)'
    <3>1. CASE p \in S
      BY <3>1, <1>2, <1>5 DEF InOrderOf, ArmedOf
    <3>2. CASE p \notin S /\ proc[p].io \in D
      BY <3>2, <1>3 DEF Good, InOrder, InOrderOf, Armed, ArmedOf
    <3>3. CASE p \notin S /\ proc[p].io \notin D
      <4>1. proc'[p] = proc[p] /\ stream'[p] = stream[p] /\ InOrderOf(p) /\ ArmedOf(p) /\ ProcPaired(p)
        BY <3>3, <1>3 DEF Good, Pairs, InOrder, Armed
      <4>2. proc[p].st = "CONNECTED" => hand'[proc[p].io] = hand[proc[p].io]
        BY <3>3, <4>1, <1>1 DEF ProcPaired
      <4> QED
        BY <4>1, <4>2 DEF InOrderOf, ArmedOf
    <3> QED
      BY <3>1, <3>2, <3>3
  <2> QED
    BY <2>1 DEF InOrder, Armed
<1> QED
  BY <1>6, <1>7, <1>8, <1>9, <1>10

\* A process whose status is set.
LEMMA StatusSet ==
  ASSUME NEW r \in ProcRec, NEW s \in Status
  PROVE  LET q == [r EXCEPT !.st = s] IN
         q \in ProcRec /\ q.st = s /\ q.io = r.io /\ q.out = r.out /\ q.wr = r.wr
  BY DEF ProcRec

\* A process whose flags are set.
LEMMA FlagEdits ==
  ASSUME NEW r \in ProcRec, NEW b \in BOOLEAN
  PROVE  [r EXCEPT !.me = b] \in ProcRec /\ [r EXCEPT !.wr = b] \in ProcRec
  BY DEF ProcRec

\* The same for its output.
LEMMA OutEdits ==
  ASSUME NEW r \in ProcRec, NEW b \in BOOLEAN, NEW o \in Seq(Byte)
  PROVE  [r EXCEPT !.out = o] \in ProcRec /\ [r EXCEPT !.out = o, !.wr = b] \in ProcRec
  BY DEF ProcRec

\* A handler whose flags or events are set.
LEMMA HandEdits ==
  ASSUME NEW r \in HandRec, NEW fl \in {CLOSE_FD, CLOSE_ALL}, NEW ev \in SUBSET {"in", "out"}
  PROVE  [r EXCEPT !.fl = fl] \in HandRec /\ [r EXCEPT !.ev = ev] \in HandRec
  BY DEF HandRec

\* One handler is deleted, with its process or disconnected from it.
LEMMA DropKeeps ==
  ASSUME Types, Good, NEW h \in Handlers, hand[h].ty # "none", NEW S, NEW pr,
         Destroy({h}, S, pr), UNCHANGED cmds,
         \/ /\ S \in {{}, {hand[h].p}}
            /\ pr = [proc EXCEPT ![hand[h].p].st = "DISCONNECT"]
         \/ S = {hand[h].p} /\ pr = proc
  PROVE  /\ proc' \in [Procs -> ProcRec]
         /\ \A p \in Procs : Len(proc'[p].out) <= SendBuffer
         /\ hand' \in [Handlers -> HandRec]
         /\ stream' \in [Procs -> StreamRec]
         /\ open' \subseteq Fds /\ attached' \subseteq Procs
         /\ Gone' /\ Pairs' /\ Timed' /\ Owned' /\ InOrder' /\ Armed'
         /\ \A g \in Handlers \ {h} : hand'[g] = hand[g]
<1> DEFINE p == hand[h].p
           off == [proc[p] EXCEPT !.st = "DISCONNECT"]
<1>1. p \in Procs /\ proc[p].io = h
  BY DEF Good, Pairs, HandlerPaired
<1>2. off \in ProcRec /\ off.out = proc[p].out
  <2>1. proc[p] \in ProcRec /\ "DISCONNECT" \in Status
    BY <1>1 DEF Types, Status
  <2> QED
    BY <2>1, StatusSet
<1>3. \A q \in Procs : pr[q] = proc[q] \/ (q = p /\ pr[q] = off)
  BY <1>1 DEF Types
<1>4. pr \in [Procs -> ProcRec]
  <2>1. proc \in [Procs -> ProcRec]
    BY DEF Types
  <2> HIDE DEF off
  <2>2. [proc EXCEPT ![p] = off] \in [Procs -> ProcRec]
    BY <1>1, <1>2, <2>1
  <2> QED
    BY <1>1, <2>1, <2>2 DEF off
<1>5. \A q \in Procs : Len(pr[q].out) <= SendBuffer
  BY <1>2, <1>3 DEF Types
<1>6. S \in SUBSET Procs /\ {h} \in SUBSET Handlers
  BY <1>1
<1>7. \A g \in Handlers \ {h} : hand[g].ty # "none" => hand[g].p \notin S
  BY <1>1 DEF Good, Pairs, HandlerPaired
<1>8. \A q \in Procs \ S : pr[q] = IF proc[q].io \in {h} THEN [proc[q] EXCEPT !.st = "DISCONNECT"]
                                   ELSE proc[q]
  <2>1. \A q \in Procs : proc[q].io = h => q = p
    BY <1>1 DEF Good, Pairs, ProcPaired
  <2>2. p \notin S => pr[p] = off
    BY <1>1 DEF Types
  <2> QED
    BY <1>1, <1>3, <2>1, <2>2
<1>9. Gone' /\ Pairs' /\ Timed' /\ Owned' /\ InOrder' /\ Armed'
  <2> HIDE DEF p, off
  <2>1. PICK D \in SUBSET Handlers : D = {h}
    BY <1>6
  <2>2. PICK T \in SUBSET Procs : T = S
    BY <1>6
  <2>3. PICK r \in [Procs -> ProcRec] : r = pr
    BY <1>4
  <2>4. Destroy(D, T, r) /\ \A g \in D : hand[g].ty # "none"
    BY <2>1, <2>2, <2>3
  <2>5. \A g \in Handlers \ D : hand[g].ty # "none" => hand[g].p \notin T
    BY <1>7, <2>1, <2>2
  <2>6. \A q \in Procs \ T : r[q] = IF proc[q].io \in D THEN [proc[q] EXCEPT !.st = "DISCONNECT"]
                                       ELSE proc[q]
    BY <1>8, <2>1, <2>2, <2>3
  <2> HIDE DEF Types, Good
  <2> QED
    BY <2>4, <2>5, <2>6, DestroyKeeps
<1>10. /\ proc' \in [Procs -> ProcRec]
       /\ \A q \in Procs : Len(proc'[q].out) <= SendBuffer
       /\ hand' \in [Handlers -> HandRec]
       /\ stream' \in [Procs -> StreamRec]
       /\ open' \subseteq Fds /\ attached' \subseteq Procs
  BY <1>4, <1>5, <1>6, DestroyTypes
<1>11. \A g \in Handlers \ {h} : hand'[g] = hand[g]
  BY DEF Destroy
<1> QED
  BY <1>9, <1>10, <1>11

\* OnEvent ends with false.
LEMMA EndKeeps ==
  ASSUME Types, Good, fault = "none", pc \in Inside, End
  PROVE  ConnInv'
<1> DEFINE p == hand[cur.h].p
<1>1. cur.h \in Handlers /\ hand[cur.h].ty # "none" /\ cur.h \notin query
  BY KindsDiffer DEF Good, Where, IsCarrier
<1>2. /\ Destroy({cur.h}, IF "process" \in hand[cur.h].fl THEN {p} ELSE {},
                 [proc EXCEPT ![p].st = "DISCONNECT"])
      /\ pc' = "events" /\ cur' = Nobody
      /\ UNCHANGED <<cmds, query, closed, fault>>
  BY DEF End
<1>3. /\ proc' \in [Procs -> ProcRec]
      /\ \A q \in Procs : Len(proc'[q].out) <= SendBuffer
      /\ hand' \in [Handlers -> HandRec]
      /\ stream' \in [Procs -> StreamRec]
      /\ open' \subseteq Fds /\ attached' \subseteq Procs
      /\ Gone' /\ Pairs' /\ Timed' /\ Owned' /\ InOrder' /\ Armed'
      /\ \A g \in Handlers \ {cur.h} : hand'[g] = hand[g]
  BY <1>1, <1>2, DropKeeps
<1>4. Types'
  BY <1>2, <1>3 DEF Types, Nobody, Outside, CurRec
<1>5. Where'
  BY <1>1, <1>2, <1>3 DEF Types, Good, Where, Nobody, Inside, Outside
<1>6. Blame'
  BY <1>2 DEF Blame
<1> QED
  BY <1>3, <1>4, <1>5, <1>6 DEF ConnInv, Good

\* The processes S are freed, by the application or by the timeout manager:
\* the links are kept, or something is used that was deleted, for a reason
\* that Blame names.
LEMMA FreeAllKeeps ==
  ASSUME Types, Good, fault = "none", pc \in {"process", "timeouts", "timers"},
         NEW S \in SUBSET Procs, NEW pr \in [Procs -> ProcRec],
         \A p \in Procs : pr[p].out = proc[p].out /\ pr[p].io = proc[p].io,
         \A p \in Procs \ S : pr[p] = proc[p],
         \A p \in S : pr[p].st = proc[p].st \/ (pr[p].st = "TIMEOUT" /\ proc[p].io \in Handlers),
         FreeAll(S, pr), UNCHANGED <<cmds, query, pc, cur>>, closed' \in BOOLEAN
  PROVE  ConnInv'
<1> DEFINE ends == {"CONNECTED", "CONNECTING", "TIMEOUT"}
           D == {pr[p].io : p \in {x \in S : pr[x].st \in ends}}
<1>1. Destroy(D, S, pr) /\ fault' = FaultOf(D, S)
  BY DEF FreeAll
<1>2. \A h \in D : h \in Handlers /\ hand[h].p \in S /\ hand[h].ty # "none"
  BY KindsDiffer DEF Good, Gone, Pairs, ProcPaired
<1> HIDE DEF D
<1>3. D \in SUBSET Handlers
  BY <1>2
<1>4. \A p \in Procs : Len(pr[p].out) <= SendBuffer
  BY DEF Types
<1>5. Types'
  <2>1. /\ proc' \in [Procs -> ProcRec]
        /\ \A p \in Procs : Len(proc'[p].out) <= SendBuffer
        /\ hand' \in [Handlers -> HandRec]
        /\ stream' \in [Procs -> StreamRec]
        /\ open' \subseteq Fds /\ attached' \subseteq Procs
    BY <1>1, <1>3, <1>4, DestroyTypes
  <2>2. fault' \in Faults
    BY <1>1 DEF FaultOf, Faults
  <2> QED
    BY <2>1, <2>2 DEF Types
<1>6. Blame'
  <2>1. fault' \in {"query", "callback"} => pc' = "process"
    BY <1>1, <1>2 DEF FaultOf, Good, Where, Outside, Nobody
  <2>2. ASSUME fault' = "orphan"
        PROVE  \E h \in Handlers : hand'[h].ty = "pipe" /\ hand'[h].p \notin Live'
    <3>1. PICK h \in Handlers \ D : hand[h].ty # "none" /\ hand[h].p \in S
      BY <1>1, <2>2 DEF FaultOf
    <3>2. proc[hand[h].p].io = h /\ proc[hand[h].p].st # "none"
      BY <3>1 DEF Good, Pairs, HandlerPaired
    <3>3. pr[hand[h].p].st \notin ends
      BY <3>1, <3>2 DEF D
    <3>4. hand[h].ty = "pipe"
      BY <3>1, <3>2, <3>3 DEF Good, Pairs, ProcPaired
    <3>5. hand'[h] = hand[h] /\ proc'[hand[h].p] = NoProcess
      BY <1>1, <3>1 DEF Destroy
    <3> QED
      BY <3>4, <3>5 DEF Live, NoProcess
  <2>3. fault' \notin {"manager", "dangling"}
    BY <1>1 DEF FaultOf
  <2> QED
    BY <2>1, <2>2, <2>3 DEF Blame
<1>7. ASSUME fault' = "none" PROVE Good'
  <2>1. /\ D \cap query = {} /\ cur.h \notin D
        /\ \A h \in Handlers \ D : hand[h].ty # "none" => hand[h].p \notin S
    BY <1>1, <1>7 DEF FaultOf
  <2>2. \A p \in Procs \ S : proc[p].io \notin D
    BY <1>2 DEF Good, Pairs, ProcPaired
  <2>3. Gone' /\ Pairs' /\ Timed' /\ Owned' /\ InOrder' /\ Armed'
    BY <1>1, <1>2, <1>3, <2>1, <2>2, DestroyKeeps
  <2>4. \A h \in Handlers \ D : hand'[h] = hand[h]
    BY <1>1 DEF Destroy
  <2>5. Where'
    BY <2>1, <2>4 DEF Types, Good, Where, IsCarrier, Nobody, Inside, Outside
  <2> QED
    BY <2>3, <2>5 DEF Good
<1> QED
  BY <1>5, <1>6, <1>7 DEF ConnInv

------------------------------------------------------------------------------
(* Connections that begin.                                                 *)

\* A handler for a process that has none.
LEMMA AddKeeps ==
  ASSUME Types, Good, Types', NEW p \in Procs, NEW h \in FreeHandlers,
         proc[p].io \notin Handlers,
         \A x \in Procs \ {p} : proc'[x] = proc[x] /\ stream'[x] = stream[x],
         \A g \in Handlers \ {h} : hand'[g] = hand[g],
         hand'[h].p = p, proc'[p].io = h,
         \/ /\ proc'[p].st = "CONNECTED" /\ hand'[h].ty \in Kinds
            /\ attached' = attached \cup {p}
         \/ /\ proc'[p].st = "CONNECTING" /\ hand'[h].ty \in Connectors /\ KindKnown(h)'
            /\ attached' = attached,
         InOrderOf(p)', ArmedOf(p)'
  PROVE  Gone' /\ Pairs' /\ Timed' /\ InOrder' /\ Armed'
<1>1. h \in Handlers /\ hand[h].ty = "none" /\ hand'[h].ty # "none"
  BY KindsDiffer DEF FreeHandlers
<1>2. Gone'
  BY <1>1 DEF Good, Gone
<1>3. \A x \in Procs : proc[x].io # h
  BY <1>1, KindsDiffer DEF Good, Pairs, ProcPaired
<1>4. \A g \in Handlers : hand[g].ty # "none" => hand[g].p # p /\ g # h
  BY <1>1 DEF Good, Pairs, HandlerPaired
<1>5. Pairs'
  <2>1. ASSUME NEW g \in Handlers PROVE HandlerPaired(g)' /\ KindKnown(g)'
    <3>1. CASE g = h
      BY <3>1, <1>1, KindsDiffer DEF HandlerPaired, KindKnown, Offered, Connectors
    <3>2. CASE g # h
      <4>1. HandlerPaired(g) /\ KindKnown(g) /\ hand'[g] = hand[g]
        BY <3>2 DEF Good, Pairs
      <4>2. hand[g].ty # "none" => proc'[hand[g].p] = proc[hand[g].p]
        BY <4>1, <1>4 DEF HandlerPaired
      <4> QED
        BY <4>1, <4>2 DEF HandlerPaired, KindKnown
    <3> QED
      BY <3>1, <3>2
  <2>2. ASSUME NEW x \in Procs PROVE ProcPaired(x)'
    <3>1. CASE x = p
      BY <3>1, <1>1 DEF ProcPaired
    <3>2. CASE x # p
      <4>1. ProcPaired(x) /\ proc'[x] = proc[x]
        BY <3>2 DEF Good, Pairs
      <4>2. proc[x].io \in Handlers => hand'[proc[x].io] = hand[proc[x].io]
        BY <1>3
      <4> QED
        BY <4>1, <4>2 DEF ProcPaired
    <3> QED
      BY <3>1, <3>2
  <2> QED
    BY <2>1, <2>2 DEF Pairs
<1>6. Timed'
  <2>1. \A g \in Handlers : /\ g # h => (IsCarrier(g)' <=> IsCarrier(g)) /\ hand'[g].p = hand[g].p
                            /\ IsCarrier(h)' <=> hand'[h].ty \in Kinds
    BY DEF IsCarrier
  <2>2. ~IsCarrier(h)
    BY <1>1, KindsDiffer DEF IsCarrier
  <2>3. ASSUME NEW x \in Procs
        PROVE  x \in attached' <=> \E g \in Handlers : IsCarrier(g)' /\ hand'[g].p = x
    <3>1. CASE x = p
      <4>1. ~ \E g \in Handlers : IsCarrier(g) /\ hand[g].p = p
        BY <1>4, KindsDiffer DEF IsCarrier
      <4>2. p \notin attached
        BY <4>1 DEF Good, Timed
      <4> QED
        BY <3>1, <4>1, <4>2, <2>1, <2>2, <1>1, KindsDiffer
    <3>2. CASE x # p
      BY <3>2, <2>1, <2>2, <1>1 DEF Good, Timed
    <3> QED
      BY <3>1, <3>2
  <2> QED
    BY <2>3 DEF Timed, IsCarrier
<1>7. ASSUME NEW x \in Procs PROVE InOrderOf(x)' /\ ArmedOf(x)'
  <2>1. CASE x = p
    BY <2>1
  <2>2. CASE x # p
    <3>1. InOrderOf(x) /\ ArmedOf(x) /\ ProcPaired(x) /\ proc'[x] = proc[x] /\ stream'[x] = stream[x]
      BY <2>2 DEF Good, Pairs, InOrder, Armed
    <3>2. proc[x].st = "CONNECTED" => hand'[proc[x].io] = hand[proc[x].io]
      BY <1>3, <3>1 DEF ProcPaired
    <3> QED
      BY <3>1, <3>2 DEF InOrderOf, ArmedOf
  <2> QED
    BY <2>1, <2>2
<1> QED
  BY <1>2, <1>5, <1>6, <1>7 DEF InOrder, Armed

\* The handler gets a descriptor that was not open.
LEMMA OwnedOpen ==
  ASSUME Types, Good, NEW h \in FreeHandlers, NEW fd \in Fds \ open,
         \A g \in Handlers \ {h} : hand'[g] = hand[g],
         hand'[h].fd = fd, "fd" \in hand'[h].fl,
         open' = open \cup {fd}, UNCHANGED cmds
  PROVE  Owned'
<1>1. h \in Handlers /\ hand[h].ty = "none" /\ hand[h].fd = NULL
  BY DEF Good, Gone, FreeHandlers, NoHandler
<1>2. \A g \in Handlers : hand[g].fd # fd
  BY DEF Good, Gone, Owned, NoHandler
<1>3. \A i \in DOMAIN cmds : cmds[i].fd # fd
  BY DEF Good, Owned
<1>4. \A x \in open' : (\E g \in Handlers : hand'[g].fd = x) \/ (\E i \in DOMAIN cmds' : cmds'[i].fd = x)
  BY <1>1 DEF Good, Owned, Types
<1>5. \A g \in Handlers : hand'[g].ty # "none" => hand'[g].fd \in open' /\ "fd" \in hand'[g].fl
  BY DEF Good, Owned
<1>6. \A f, g \in Handlers : hand'[f].fd = hand'[g].fd /\ hand'[f].ty # "none" => f = g
  BY <1>2 DEF Good, Owned
<1>7. \A g \in Handlers, i \in DOMAIN cmds' : hand'[g].fd # cmds'[i].fd
  BY <1>3 DEF Good, Owned
<1> QED
  BY <1>4, <1>5, <1>6, <1>7 DEF Good, Owned

\* The handler gets the descriptor of the first command.
LEMMA OwnedTake ==
  ASSUME Types, Good, NEW h \in FreeHandlers, cmds # <<>>,
         \A g \in Handlers \ {h} : hand'[g] = hand[g],
         hand'[h].fd = Head(cmds).fd, "fd" \in hand'[h].fl,
         cmds' = Tail(cmds), UNCHANGED open
  PROVE  Owned'
<1>1. h \in Handlers /\ hand[h].ty = "none" /\ hand[h].fd = NULL
  BY DEF Good, Gone, FreeHandlers, NoHandler
<1>2. /\ DOMAIN cmds = 1..Len(cmds) /\ 1 \in DOMAIN cmds /\ Head(cmds) = cmds[1]
      /\ DOMAIN cmds' = 1..(Len(cmds) - 1) /\ Len(cmds) \in Nat
      /\ \A i \in 1..(Len(cmds) - 1) : cmds'[i] = cmds[i + 1] /\ i + 1 \in DOMAIN cmds
  BY DEF Types
<1>3. \A i \in DOMAIN cmds : i = 1 \/ (i - 1 \in DOMAIN cmds' /\ cmds'[i - 1] = cmds[i])
  BY <1>2
<1>4. \A x \in open' : (\E g \in Handlers : hand'[g].fd = x) \/ (\E i \in DOMAIN cmds' : cmds'[i].fd = x)
  <2>1. SUFFICES ASSUME NEW x \in open
                 PROVE (\E g \in Handlers : hand'[g].fd = x) \/ (\E i \in DOMAIN cmds' : cmds'[i].fd = x)
    OBVIOUS
  <2>2. CASE \E g \in Handlers : hand[g].fd = x
    BY <1>1, <2>2 DEF Types
  <2>3. CASE \E i \in DOMAIN cmds : cmds[i].fd = x
    BY <1>1, <1>2, <1>3, <2>3
  <2> QED
    BY <2>1, <2>2, <2>3 DEF Good, Owned
<1>5. cmds[1].fd \in open
  BY <1>2 DEF Good, Owned
<1>6. \A g \in Handlers : hand'[g].ty # "none" => hand'[g].fd \in open' /\ "fd" \in hand'[g].fl
  BY <1>2, <1>5 DEF Good, Owned
<1>7. \A f, g \in Handlers : hand'[f].fd = hand'[g].fd /\ hand'[f].ty # "none" => f = g
  BY <1>2 DEF Good, Owned
<1>8. \A i \in DOMAIN cmds' : cmds'[i].fd \in open' /\ cmds'[i].fd # cmds[1].fd
  BY <1>2 DEF Good, Owned
<1>9. \A i, j \in DOMAIN cmds' : cmds'[i].fd = cmds'[j].fd => i = j
  <2>1. SUFFICES ASSUME NEW i \in DOMAIN cmds', NEW j \in DOMAIN cmds', cmds'[i].fd = cmds'[j].fd
                 PROVE  i = j
    OBVIOUS
  <2>2. i + 1 = j + 1
    BY <1>2, <2>1 DEF Good, Owned
  <2> QED
    BY <1>2, <2>2
<1>10. \A g \in Handlers, i \in DOMAIN cmds' : hand'[g].fd # cmds'[i].fd
  BY <1>2, <1>8 DEF Good, Owned
<1> QED
  BY <1>4, <1>6, <1>7, <1>8, <1>9, <1>10 DEF Owned

\* A command that brings a descriptor.
LEMMA OwnedArrive ==
  ASSUME Types, Good, NEW c \in CmdRec, c.fd \notin open, cmds' = Append(cmds, c),
         open' = open \cup {c.fd}, UNCHANGED hand
  PROVE  Owned'
<1>1. /\ Len(cmds) \in Nat /\ DOMAIN cmds = 1..Len(cmds) /\ DOMAIN cmds' = 1..(Len(cmds) + 1)
      /\ \A i \in 1..Len(cmds) : cmds'[i] = cmds[i]
      /\ cmds'[Len(cmds) + 1] = c
  BY DEF Types
<1>2. \A i \in DOMAIN cmds' : (i \in DOMAIN cmds /\ cmds'[i] = cmds[i]) \/ (i = Len(cmds) + 1 /\ cmds'[i] = c)
  BY <1>1
<1>3. c.fd \in Fds /\ Len(cmds) + 1 \in DOMAIN cmds' /\ \A i \in DOMAIN cmds : i \in DOMAIN cmds'
  BY <1>1 DEF CmdRec
<1>4. \A x \in open' : (\E g \in Handlers : hand'[g].fd = x) \/ (\E i \in DOMAIN cmds' : cmds'[i].fd = x)
  BY <1>1, <1>3 DEF Good, Owned
<1>5. \A g \in Handlers : hand'[g].ty # "none" => hand'[g].fd \in open' /\ "fd" \in hand'[g].fl
  BY DEF Good, Owned
<1>6. \A i \in DOMAIN cmds' : cmds'[i].fd \in open'
  BY <1>2 DEF Good, Owned
<1>7. \A i, j \in DOMAIN cmds' : cmds'[i].fd = cmds'[j].fd => i = j
  BY <1>2 DEF Good, Owned
<1>8. \A g \in Handlers, i \in DOMAIN cmds' : hand'[g].fd # cmds'[i].fd
  BY <1>2, <1>3 DEF Good, Gone, Owned, NoHandler
<1> QED
  BY <1>4, <1>5, <1>6, <1>7, <1>8 DEF Good, Owned

\* The application refuses the descriptor of the first command.
LEMMA OwnedRefuse ==
  ASSUME Types, Good, cmds # <<>>, cmds' = Tail(cmds), open' = open \ {Head(cmds).fd}, UNCHANGED hand
  PROVE  Owned'
<1>2. /\ DOMAIN cmds = 1..Len(cmds) /\ 1 \in DOMAIN cmds /\ Head(cmds) = cmds[1]
      /\ DOMAIN cmds' = 1..(Len(cmds) - 1) /\ Len(cmds) \in Nat
      /\ \A i \in 1..(Len(cmds) - 1) : cmds'[i] = cmds[i + 1] /\ i + 1 \in DOMAIN cmds
  BY DEF Types
<1>3. \A i \in DOMAIN cmds : i = 1 \/ (i - 1 \in DOMAIN cmds' /\ cmds'[i - 1] = cmds[i])
  BY <1>2
<1>4. \A x \in open' : (\E g \in Handlers : hand'[g].fd = x) \/ (\E i \in DOMAIN cmds' : cmds'[i].fd = x)
  <2>1. SUFFICES ASSUME NEW x \in open, x # cmds[1].fd
                 PROVE (\E g \in Handlers : hand'[g].fd = x) \/ (\E i \in DOMAIN cmds' : cmds'[i].fd = x)
    BY <1>2
  <2>2. CASE \E g \in Handlers : hand[g].fd = x
    BY <2>2
  <2>3. CASE \E i \in DOMAIN cmds : cmds[i].fd = x
    BY <1>2, <1>3, <2>1, <2>3
  <2> QED
    BY <2>1, <2>2, <2>3 DEF Good, Owned
<1>6. \A g \in Handlers : hand'[g].ty # "none" => hand'[g].fd \in open' /\ "fd" \in hand'[g].fl
  BY <1>2 DEF Good, Owned
<1>8. \A i \in DOMAIN cmds' : cmds'[i].fd \in open' /\ cmds'[i].fd # cmds[1].fd
  BY <1>2 DEF Good, Owned
<1>9. \A i, j \in DOMAIN cmds' : cmds'[i].fd = cmds'[j].fd => i = j
  <2>1. SUFFICES ASSUME NEW i \in DOMAIN cmds', NEW j \in DOMAIN cmds', cmds'[i].fd = cmds'[j].fd
                 PROVE  i = j
    OBVIOUS
  <2>2. i + 1 = j + 1
    BY <1>2, <2>1 DEF Good, Owned
  <2> QED
    BY <1>2, <2>2
<1>10. \A g \in Handlers, i \in DOMAIN cmds' : hand'[g].fd # cmds'[i].fd
  BY <1>2, <1>8 DEF Good, Owned
<1> QED
  BY <1>4, <1>6, <1>8, <1>9, <1>10 DEF Good, Owned

------------------------------------------------------------------------------
(* The application.                                                        *)

\* new BaseProcess.
LEMMA CreateStep ==
  ASSUME ConnInv, NEW p \in Procs, NEW me \in BOOLEAN, Create(p, me)
  PROVE  ConnInv'
<1> DEFINE r == [NoProcess EXCEPT !.st = "DISCONNECT", !.me = me]
<1>1. /\ Types /\ Good /\ fault = "none" /\ proc[p].st = "none"
      /\ proc' = [proc EXCEPT ![p] = r]
      /\ UNCHANGED <<hand, stream, open, attached, cmds, query, pc, cur, closed, fault>>
  BY DEF ConnInv, Create, InApp, Live
<1>2. r \in ProcRec /\ r.st = "DISCONNECT" /\ r.io = NULL /\ r.out = <<>> /\ Len(r.out) = 0
  BY Blank DEF NoProcess, ProcRec, Status
<1> HIDE DEF r
<1>3. proc'[p] = r /\ \A x \in Procs \ {p} : proc'[x] = proc[x]
  BY <1>1 DEF Types
<1>4. Types'
  <2>1. proc' \in [Procs -> ProcRec]
    BY <1>1, <1>2 DEF Types
  <2>2. \A x \in Procs : Len(proc'[x].out) <= SendBuffer
    BY <1>1, <1>2, <1>3, Bounds DEF Types
  <2> QED
    BY <1>1, <2>1, <2>2 DEF Types
<1>5. Gone'
  BY <1>1, <1>2, <1>3 DEF Good, Gone
<1>6. Pairs'
  <2>1. ASSUME NEW h \in Handlers PROVE HandlerPaired(h)' /\ KindKnown(h)'
    <3>1. HandlerPaired(h) /\ KindKnown(h)
      BY <1>1 DEF Good, Pairs
    <3>2. hand[h].ty # "none" => hand[h].p # p
      BY <1>1, <3>1 DEF HandlerPaired
    <3> QED
      BY <1>1, <1>3, <3>1, <3>2 DEF HandlerPaired, KindKnown
  <2>2. ASSUME NEW x \in Procs PROVE ProcPaired(x)'
    BY <1>1, <1>2, <1>3 DEF Good, Pairs, ProcPaired
  <2> QED
    BY <2>1, <2>2 DEF Pairs
<1>7. Timed' /\ Owned'
  BY <1>1 DEF Good, Timed, Owned, IsCarrier
<1>8. Where'
  BY <1>1, WhereSame DEF Good
<1>9. ASSUME NEW x \in Procs PROVE InOrderOf(x)' /\ ArmedOf(x)'
  BY <1>1, <1>2, <1>3 DEF Good, InOrder, InOrderOf, Armed, ArmedOf
<1>10. Blame'
  BY <1>1 DEF Blame
<1> QED
  BY <1>4, <1>5, <1>6, <1>7, <1>8, <1>9, <1>10 DEF ConnInv, Good, InOrder, Armed

\* with_me_ and the flag of the handler.
LEMMA SetWithMeStep ==
  ASSUME ConnInv, NEW p \in Procs, NEW me \in BOOLEAN, SetWithMe(p, me)
  PROVE  ConnInv'
<1> DEFINE h == proc[p].io
           fl == IF me THEN CLOSE_ALL ELSE CLOSE_FD
<1>1. /\ Types /\ Good /\ fault = "none" /\ proc[p].st # "none"
      /\ proc' = [proc EXCEPT ![p].me = me]
      /\ hand' = IF h \in Handlers THEN [hand EXCEPT ![h].fl = fl] ELSE hand
      /\ fault' = IF h = "dangling" THEN "dangling" ELSE "none"
      /\ UNCHANGED <<stream, open, attached, cmds, query, pc, cur, closed>>
  BY DEF ConnInv, SetWithMe, InApp, Live
<1>2. fl \in {CLOSE_FD, CLOSE_ALL} /\ "fd" \in fl
  BY DEF CLOSE_FD, CLOSE_ALL
<1> HIDE DEF fl
<1>3. \A x \in Procs : /\ proc'[x].st = proc[x].st /\ proc'[x].io = proc[x].io
                       /\ proc'[x].out = proc[x].out /\ proc'[x].wr = proc[x].wr
                       /\ proc[x].st = "none" => proc'[x] = proc[x]
  BY <1>1 DEF Types, ProcRec
<1>4. \A g \in Handlers : /\ hand'[g].ty = hand[g].ty /\ hand'[g].p = hand[g].p
                          /\ hand'[g].fd = hand[g].fd /\ hand'[g].ev = hand[g].ev
                          /\ g # h => hand'[g] = hand[g]
                          /\ "fd" \in hand[g].fl => "fd" \in hand'[g].fl
  BY <1>1, <1>2 DEF Types, HandRec
<1>5. h \in Handlers => hand[h].ty # "none"
  BY <1>1, KindsDiffer DEF Good, Pairs, ProcPaired
<1>6. Types'
  <2>1. proc \in [Procs -> ProcRec] /\ hand \in [Handlers -> HandRec]
    BY <1>1 DEF Types
  <2>2. proc' \in [Procs -> ProcRec]
    BY <1>1, <2>1, FlagEdits
  <2>3. \A x \in Procs : Len(proc'[x].out) <= SendBuffer
    BY <1>1, <1>3 DEF Types
  <2>4. hand' \in [Handlers -> HandRec]
    BY <1>1, <1>2, <2>1, HandEdits
  <2> QED
    BY <1>1, <2>2, <2>3, <2>4 DEF Types, Faults
<1>7. Gone' /\ Pairs' /\ Timed' /\ Owned'
  BY <1>1, <1>3, <1>4, <1>5, <1>6, EditKeeps
<1>8. Where'
  BY <1>1, <1>4, WhereSame DEF Good
<1>9. ASSUME NEW x \in Procs PROVE InOrderOf(x)' /\ ArmedOf(x)'
  <2>1. InOrderOf(x) /\ ArmedOf(x) /\ ProcPaired(x)
    BY <1>1 DEF Good, Pairs, InOrder, Armed
  <2>2. InOrderOf(x)'
    BY <2>1, <1>1, <1>3 DEF InOrderOf
  <2>3. ArmedOf(x)'
    BY <2>1, <1>1, <1>3, <1>4 DEF ArmedOf, ProcPaired
  <2> QED
    BY <2>2, <2>3
<1>10. Blame'
  BY <1>1, <1>3 DEF Blame, Live
<1> QED
  BY <1>6, <1>7, <1>8, <1>9, <1>10 DEF ConnInv, Good, InOrder, Armed

\* The application asks for write events.
LEMMA SetEnableWriteStep ==
  ASSUME ConnInv, NEW p \in Procs, SetEnableWrite(p)
  PROVE  ConnInv'
<1> DEFINE h == proc[p].io
<1>1. /\ Types /\ Good /\ fault = "none" /\ proc[p].st # "none"
      /\ proc' = [proc EXCEPT ![p].wr = TRUE]
      /\ hand' = IF h \in Handlers THEN [hand EXCEPT ![h].ev = {"in", "out"}] ELSE hand
      /\ fault' = IF h = "dangling" THEN "dangling" ELSE "none"
      /\ UNCHANGED <<stream, open, attached, cmds, query, pc, cur, closed>>
  BY DEF ConnInv, SetEnableWrite, InApp, Live, Watch
<1>3. \A x \in Procs : /\ proc'[x].st = proc[x].st /\ proc'[x].io = proc[x].io
                       /\ proc'[x].out = proc[x].out
                       /\ x # p => proc'[x] = proc[x]
  BY <1>1 DEF Types, ProcRec
<1>4. \A g \in Handlers : /\ hand'[g].ty = hand[g].ty /\ hand'[g].p = hand[g].p
                          /\ hand'[g].fd = hand[g].fd /\ hand'[g].fl = hand[g].fl
                          /\ g # h => hand'[g] = hand[g]
                          /\ g = h => "out" \in hand'[g].ev
  BY <1>1 DEF Types, HandRec
<1>5. h \in Handlers => hand[h].ty # "none"
  BY <1>1, KindsDiffer DEF Good, Pairs, ProcPaired
<1>6. Types'
  <2>1. proc \in [Procs -> ProcRec] /\ hand \in [Handlers -> HandRec]
    BY <1>1 DEF Types
  <2>2. proc' \in [Procs -> ProcRec]
    BY <1>1, <2>1, FlagEdits
  <2>3. \A x \in Procs : Len(proc'[x].out) <= SendBuffer
    BY <1>1, <1>3 DEF Types
  <2>4. hand' \in [Handlers -> HandRec]
    BY <1>1, <2>1, HandEdits
  <2> QED
    BY <1>1, <2>2, <2>3, <2>4 DEF Types, Faults
<1>7. Gone' /\ Pairs' /\ Timed' /\ Owned'
  BY <1>1, <1>3, <1>4, <1>5, <1>6, EditKeeps
<1>8. Where'
  BY <1>1, <1>4, WhereSame DEF Good
<1>9. ASSUME NEW x \in Procs PROVE InOrderOf(x)' /\ ArmedOf(x)'
  <2>1. InOrderOf(x) /\ ArmedOf(x) /\ ProcPaired(x) /\ proc'[p].wr
    BY <1>1 DEF Good, Pairs, InOrder, Armed, Types, ProcRec
  <2>2. InOrderOf(x)'
    BY <2>1, <1>1, <1>3 DEF InOrderOf
  <2>3. ArmedOf(x)'
    <3>1. CASE x = p
      BY <3>1, <2>1, <1>3, <1>4 DEF ArmedOf, ProcPaired
    <3>2. CASE x # p
      BY <3>2, <2>1, <1>1, <1>3, <1>4 DEF ArmedOf, ProcPaired
    <3> QED
      BY <3>1, <3>2
  <2> QED
    BY <2>2, <2>3
<1>10. Blame'
  BY <1>1, <1>3 DEF Blame, Live
<1> QED
  BY <1>6, <1>7, <1>8, <1>9, <1>10 DEF ConnInv, Good, InOrder, Armed

\* The application frees a process, its own or another.
LEMMA FreeStep ==
  ASSUME ConnInv, NEW p \in Procs, Free(p)
  PROVE  ConnInv'
<1>1. /\ Types /\ Good /\ fault = "none" /\ pc \in {"process", "timers"}
      /\ FreeAll({p}, proc)
      /\ UNCHANGED <<cmds, query, pc, cur, closed>>
  BY DEF ConnInv, Free, InApp
<1>2. {p} \in SUBSET Procs /\ proc \in [Procs -> ProcRec] /\ closed' \in BOOLEAN
  BY <1>1 DEF Types
<1> QED
  BY <1>1, <1>2, FreeAllKeeps

\* A duplicate of the descriptor is sent.
LEMMA TransferStep ==
  ASSUME ConnInv, NEW p \in Procs, NEW ty \in {"tcp", "unix"}, NEW fd \in Fds, Transfer(p, ty, fd)
  PROVE  ConnInv'
<1> DEFINE c == [ty |-> ty, fd |-> fd, transfer |-> TRUE]
<1>1. /\ Types /\ Good /\ fault = "none"
      /\ fd \notin open /\ open' = open \cup {fd} /\ cmds' = Append(cmds, c)
      /\ UNCHANGED <<proc, hand, stream, attached, query, pc, cur, closed, fault>>
  BY DEF ConnInv, Transfer, InApp
<1>2. c \in CmdRec /\ c.fd = fd
  BY DEF CmdRec
<1> HIDE DEF c
<1>3. Types'
  <2>1. cmds' \in Seq(CmdRec)
    BY <1>1, <1>2 DEF Types
  <2> QED
    BY <1>1, <2>1 DEF Types
<1>4. Owned'
  BY <1>1, <1>2, OwnedArrive
<1>5. Where'
  BY <1>1, WhereSame DEF Good
<1>6. Gone' /\ Pairs' /\ Timed'
  BY <1>1 DEF Good, Gone, Pairs, HandlerPaired, ProcPaired, KindKnown, Timed, IsCarrier
<1>7. InOrder' /\ Armed'
  BY <1>1 DEF Good, InOrder, InOrderOf, Armed, ArmedOf
<1>8. Blame'
  BY <1>1 DEF Blame
<1> QED
  BY <1>3, <1>4, <1>5, <1>6, <1>7, <1>8 DEF ConnInv, Good

\* A carrier's constructor, as far as the process goes: what its connection
\* has carried begins, and bytes or a write event of an earlier connection are
\* on record.
LEMMA CarryKeeps ==
  ASSUME Types, Good, NEW p \in Procs, NEW h \in Handlers, Carry(p, h)
  PROVE  /\ proc' \in [Procs -> ProcRec] /\ stream' \in [Procs -> StreamRec]
         /\ \A x \in Procs : Len(proc'[x].out) <= SendBuffer
         /\ attached' = attached \cup {p} /\ attached' \subseteq Procs
         /\ \A x \in Procs \ {p} : proc'[x] = proc[x] /\ stream'[x] = stream[x]
         /\ proc'[p].st = "CONNECTED" /\ proc'[p].io = h
         /\ InOrderOf(p)' /\ ArmedOf(p)'
<1> DEFINE q == [proc[p] EXCEPT !.st = "CONNECTED", !.io = h]
           s == [NewStream EXCEPT !.torn = proc[p].out # <<>>, !.stale = proc[p].wr]
<1>1. proc' = [proc EXCEPT ![p] = q] /\ stream' = [stream EXCEPT ![p] = s]
      /\ attached' = attached \cup {p}
  BY DEF Carry
<1>2. proc[p] \in ProcRec
  BY DEF Types
<1>3. q \in ProcRec /\ q.st = "CONNECTED" /\ q.io = h /\ q.out = proc[p].out /\ q.wr = proc[p].wr
  BY <1>2 DEF ProcRec, Status
<1>4. /\ s \in StreamRec /\ s.wire = <<>> /\ s.given = 0
      /\ s.torn = (proc[p].out # <<>>) /\ s.stale = proc[p].wr
  BY <1>2, Blank DEF NewStream, StreamRec, ProcRec
<1> HIDE DEF q, s
<1>5. /\ proc' \in [Procs -> ProcRec] /\ stream' \in [Procs -> StreamRec]
      /\ proc'[p] = q /\ stream'[p] = s
      /\ \A x \in Procs \ {p} : proc'[x] = proc[x] /\ stream'[x] = stream[x]
  BY <1>1, <1>3, <1>4 DEF Types
<1>6. \A x \in Procs : Len(proc'[x].out) <= SendBuffer
  BY <1>3, <1>5 DEF Types
<1>7. InOrderOf(p)'
  <2>1. <<>> \o <<>> = [i \in 1..0 |-> i]
    OBVIOUS
  <2> QED
    BY <1>3, <1>4, <1>5, <2>1 DEF InOrderOf
<1>8. ArmedOf(p)'
  BY <1>3, <1>4, <1>5 DEF Good, Armed, ArmedOf
<1>9. attached' \subseteq Procs
  BY <1>1 DEF Types
<1> QED
  BY <1>1, <1>3, <1>5, <1>6, <1>7, <1>8, <1>9

\* IOHandler's constructor.
LEMMA NewHandlerOK ==
  ASSUME Types, NEW p \in Procs, NEW fd \in Fds, NEW ty \in Kinds \cup Connectors,
         NEW ev \in SUBSET {"in", "out"}
  PROVE  /\ NewHandler(ty, p, fd) \in HandRec
         /\ NewHandler(ty, p, fd).ty = ty /\ NewHandler(ty, p, fd).p = p
         /\ NewHandler(ty, p, fd).fd = fd /\ "fd" \in NewHandler(ty, p, fd).fl
         /\ LET r == [NewHandler(ty, p, fd) EXCEPT !.ev = ev] IN
            r \in HandRec /\ r.ty = ty /\ r.p = p /\ r.fd = fd /\ "fd" \in r.fl
  BY DEF NewHandler, HandRec, CLOSE_ALL, CLOSE_FD

\* A process without a connection has no handler.
LEMMA IdleHas ==
  ASSUME Types, Good, NEW p \in Procs, Idle(p)
  PROVE  /\ proc[p].st = "DISCONNECT" /\ proc[p].io \notin Handlers
         /\ \A h \in Handlers : hand[h].ty # "none" => hand[h].p # p
<1>1. proc[p].st = "DISCONNECT" /\ proc[p].io \notin Handlers
  BY DEF Idle, Live, Types, ProcRec, Status
<1> QED
  BY <1>1 DEF Good, Pairs, HandlerPaired

\* connect() is under way, or fails at once.
LEMMA ConnectStep ==
  ASSUME ConnInv, NEW p \in Procs, NEW h \in Handlers, NEW fd \in Fds, NEW ty \in Connectors,
         Offered(ty), Connect(p, ty, h, fd)
  PROVE  ConnInv'
<1>1. /\ Types /\ Good /\ fault = "none" /\ Idle(p) /\ h \in FreeHandlers /\ fd \in Fds \ open
      /\ UNCHANGED <<attached, cmds, query, pc, cur, closed, fault>>
  BY DEF ConnInv, Connect, Idle, InApp
<1>2. /\ proc[p].st = "DISCONNECT" /\ proc[p].io \notin Handlers
      /\ \A g \in Handlers : hand[g].ty # "none" => hand[g].p # p
  BY <1>1, IdleHas
<1>3. Blame'
  BY <1>1 DEF Blame
<1>4. proc \in [Procs -> ProcRec] /\ hand \in [Handlers -> HandRec]
  BY <1>1 DEF Types
<1>5. CASE /\ hand' = [hand EXCEPT ![h] = [NewHandler(ty, p, fd) EXCEPT !.ev = {"in", "out"}]]
           /\ proc' = [proc EXCEPT ![p].st = "CONNECTING", ![p].io = h]
           /\ open' = open \cup {fd}
           /\ UNCHANGED stream
  <2> DEFINE r == [NewHandler(ty, p, fd) EXCEPT !.ev = {"in", "out"}]
             q == [proc[p] EXCEPT !.st = "CONNECTING", !.io = h]
  <2>1. r \in HandRec /\ r.ty = ty /\ r.p = p /\ r.fd = fd /\ "fd" \in r.fl
    BY <1>1 DEF NewHandler, HandRec, CLOSE_ALL, CLOSE_FD
  <2>2. q \in ProcRec /\ q.st = "CONNECTING" /\ q.io = h /\ q.out = proc[p].out /\ q.wr = proc[p].wr
    BY <1>4 DEF ProcRec, Status
  <2>3. hand' = [hand EXCEPT ![h] = r] /\ proc' = [proc EXCEPT ![p] = q]
    BY <1>5
  <2> HIDE DEF r, q
  <2>4. /\ hand' \in [Handlers -> HandRec] /\ proc' \in [Procs -> ProcRec]
        /\ hand'[h] = r /\ proc'[p] = q
        /\ \A g \in Handlers \ {h} : hand'[g] = hand[g]
        /\ \A x \in Procs \ {p} : proc'[x] = proc[x]
    BY <1>4, <2>1, <2>2, <2>3
  <2>5. Types'
    <3>1. \A x \in Procs : Len(proc'[x].out) <= SendBuffer
      BY <1>1, <2>2, <2>4 DEF Types
    <3> QED
      BY <1>1, <1>5, <2>4, <3>1 DEF Types
  <2>6. InOrderOf(p)' /\ ArmedOf(p)'
    BY <1>1, <2>2, <2>4 DEF Good, Armed, InOrderOf, ArmedOf
  <2>7. KindKnown(h)'
    BY <2>1, <2>4 DEF KindKnown
  <2>8. Gone' /\ Pairs' /\ Timed' /\ InOrder' /\ Armed'
    <3>1. /\ hand'[h].p = p /\ proc'[p].io = h
          /\ proc'[p].st = "CONNECTING" /\ hand'[h].ty \in Connectors /\ attached' = attached
          /\ \A x \in Procs \ {p} : proc'[x] = proc[x] /\ stream'[x] = stream[x]
      BY <1>1, <1>5, <2>1, <2>2, <2>4
    <3> QED
      BY <1>1, <1>2, <2>4, <2>5, <2>6, <2>7, <3>1, AddKeeps
  <2>9. Owned'
    BY <1>1, <1>5, <2>1, <2>4, OwnedOpen
  <2>10. Where'
    BY <1>1, <2>4, WhereSame DEF Good, FreeHandlers
  <2> QED
    BY <1>3, <2>5, <2>8, <2>9, <2>10 DEF ConnInv, Good
<1>6. CASE /\ proc' = [proc EXCEPT ![p] = IF proc[p].me THEN NoProcess
                         ELSE [proc[p] EXCEPT !.st = "DISCONNECT", !.io = "dangling"]]
           /\ stream' = IF proc[p].me THEN [stream EXCEPT ![p] = NewStream] ELSE stream
           /\ UNCHANGED <<hand, open>>
  <2> DEFINE q == IF proc[p].me THEN NoProcess
                  ELSE [proc[p] EXCEPT !.st = "DISCONNECT", !.io = "dangling"]
  <2>1. /\ q \in ProcRec /\ q.st \in {"none", "DISCONNECT"} /\ q.io \notin Handlers
        /\ q.out # <<>> => proc[p].out # <<>> /\ q.wr = proc[p].wr
        /\ q.st = "none" => q = NoProcess /\ proc[p].me
        /\ q = NoProcess \/ q.out = proc[p].out
    BY <1>4, Blank DEF ProcRec, Status, NoProcess
  <2>2. proc' = [proc EXCEPT ![p] = q]
    BY <1>6
  <2> HIDE DEF q
  <2>3. /\ proc' \in [Procs -> ProcRec] /\ proc'[p] = q
        /\ \A x \in Procs \ {p} : proc'[x] = proc[x]
    BY <1>4, <2>1, <2>2
  <2>4. /\ \A x \in Procs \ {p} : stream'[x] = stream[x]
        /\ proc[p].me => stream'[p] = NewStream
        /\ stream' \in [Procs -> StreamRec]
    BY <1>1, <1>6, Blank DEF Types
  <2>5. Types'
    <3>1. \A x \in Procs : Len(proc'[x].out) <= SendBuffer
      <4>1. Len(q.out) <= SendBuffer
        <5>1. Len(proc[p].out) <= SendBuffer
          BY <1>1 DEF Types
        <5>2. Len(NoProcess.out) <= SendBuffer
          BY Blank
        <5> QED
          BY <2>1, <5>1, <5>2
      <4> QED
        BY <1>1, <2>3, <4>1 DEF Types
    <3> QED
      BY <1>1, <1>6, <2>3, <2>4, <3>1 DEF Types
  <2>6. Gone'
    BY <1>1, <1>6, <2>1, <2>3, <2>4 DEF Good, Gone
  <2>7. Pairs'
    <3>1. ASSUME NEW g \in Handlers PROVE HandlerPaired(g)' /\ KindKnown(g)'
      <4>1. HandlerPaired(g) /\ KindKnown(g)
        BY <1>1 DEF Good, Pairs
      <4> QED
        BY <1>2, <1>6, <2>3, <4>1 DEF HandlerPaired, KindKnown
    <3>2. ASSUME NEW x \in Procs PROVE ProcPaired(x)'
      <4>1. CASE x = p
        BY <2>1, <2>3, <4>1 DEF ProcPaired
      <4>2. CASE x # p
        <5>1. ProcPaired(x) /\ proc'[x] = proc[x]
          BY <1>1, <2>3, <4>2 DEF Good, Pairs
        <5> QED
          BY <1>6, <5>1 DEF ProcPaired
      <4> QED
        BY <4>1, <4>2
    <3> QED
      BY <3>1, <3>2 DEF Pairs
  <2>8. Timed' /\ Owned'
    <3>1. Timed'
      BY <1>1, <1>6 DEF Good, Timed, IsCarrier
    <3>2. Owned'
      BY <1>1, <1>6, OwnedSame DEF Good
    <3> QED
      BY <3>1, <3>2
  <2>9. Where'
    BY <1>1, <1>6, WhereSame DEF Good
  <2>10. ASSUME NEW x \in Procs PROVE InOrderOf(x)' /\ ArmedOf(x)'
    BY <1>1, <1>6, <2>1, <2>3, <2>4 DEF Good, InOrder, InOrderOf, Armed, ArmedOf
  <2> QED
    BY <1>3, <2>5, <2>6, <2>7, <2>8, <2>9, <2>10 DEF ConnInv, Good, InOrder, Armed
<1> QED
  BY <1>5, <1>6 DEF Connect

\* A carrier at once.
LEMMA OpenCarrierStep ==
  ASSUME ConnInv, NEW p \in Procs, NEW h \in Handlers, NEW fd \in Fds, NEW ty,
         NEW out \in SUBSET {"out"}, OpenCarrier(p, ty, h, fd, out)
  PROVE  ConnInv'
<1> DEFINE r == [NewHandler(ty, p, fd) EXCEPT !.ev = {"in"} \cup out]
<1>1. /\ Types /\ Good /\ fault = "none" /\ Idle(p) /\ h \in FreeHandlers /\ fd \in Fds \ open
      /\ ty \in Kinds /\ open' = open \cup {fd} /\ Carry(p, h)
      /\ fault' = IF closed THEN "manager" ELSE "none"
      /\ UNCHANGED <<cmds, query, pc, cur, closed>>
  BY DEF ConnInv, OpenCarrier, Idle, InApp, KindsOf
<1>2. proc[p].io \notin Handlers
  BY <1>1, IdleHas
<1>3. hand' = [hand EXCEPT ![h] = r]
  BY DEF OpenCarrier, NewHandler
<1>4. r \in HandRec /\ r.ty = ty /\ r.p = p /\ r.fd = fd /\ "fd" \in r.fl
  <2>1. {"in"} \cup out \in SUBSET {"in", "out"} /\ ty \in Kinds \cup Connectors
    BY <1>1
  <2> QED
    BY <1>1, <2>1, NewHandlerOK
<1> HIDE DEF r
<1>5. /\ hand' \in [Handlers -> HandRec] /\ hand'[h] = r
      /\ \A g \in Handlers \ {h} : hand'[g] = hand[g]
  BY <1>1, <1>3, <1>4 DEF Types
<1>6. /\ proc' \in [Procs -> ProcRec] /\ stream' \in [Procs -> StreamRec]
      /\ \A x \in Procs : Len(proc'[x].out) <= SendBuffer
      /\ attached' = attached \cup {p} /\ attached' \subseteq Procs
      /\ \A x \in Procs \ {p} : proc'[x] = proc[x] /\ stream'[x] = stream[x]
      /\ proc'[p].st = "CONNECTED" /\ proc'[p].io = h
      /\ InOrderOf(p)' /\ ArmedOf(p)'
  BY <1>1, CarryKeeps
<1>7. Types'
  BY <1>1, <1>5, <1>6 DEF Types, Faults
<1>8. Gone' /\ Pairs' /\ Timed' /\ InOrder' /\ Armed'
  BY <1>1, <1>2, <1>4, <1>5, <1>6, <1>7, AddKeeps
<1>9. Owned'
  BY <1>1, <1>4, <1>5, OwnedOpen
<1>10. Where'
  BY <1>1, <1>5, WhereSame DEF Good, FreeHandlers
<1>11. Blame'
  BY <1>1 DEF Blame
<1> QED
  BY <1>7, <1>8, <1>9, <1>10, <1>11 DEF ConnInv, Good

------------------------------------------------------------------------------
(* Commands.                                                               *)

\* A descriptor arrives.
LEMMA ArriveStep ==
  ASSUME ConnInv, NEW ty \in {"tcp", "unix"}, NEW fd \in Fds, Arrive(ty, fd)
  PROVE  ConnInv'
<1> DEFINE c == [ty |-> ty, fd |-> fd, transfer |-> FALSE]
<1>1. /\ Types /\ Good /\ fault = "none"
      /\ fd \notin open /\ open' = open \cup {fd} /\ cmds' = Append(cmds, c)
      /\ UNCHANGED <<proc, hand, stream, attached, query, pc, cur, closed, fault>>
  BY DEF ConnInv, Arrive
<1>2. c \in CmdRec /\ c.fd = fd
  BY DEF CmdRec
<1> HIDE DEF c
<1>3. Types'
  <2>1. cmds' \in Seq(CmdRec)
    BY <1>1, <1>2 DEF Types
  <2> QED
    BY <1>1, <2>1 DEF Types
<1>4. Owned'
  BY <1>1, <1>2, OwnedArrive
<1>5. Where'
  BY <1>1, WhereSame DEF Good
<1>6. Gone' /\ Pairs' /\ Timed'
  BY <1>1 DEF Good, Gone, Pairs, HandlerPaired, ProcPaired, KindKnown, Timed, IsCarrier
<1>7. InOrder' /\ Armed'
  BY <1>1 DEF Good, InOrder, InOrderOf, Armed, ArmedOf
<1>8. Blame'
  BY <1>1 DEF Blame
<1> QED
  BY <1>3, <1>4, <1>5, <1>6, <1>7, <1>8 DEF ConnInv, Good

\* The command of a descriptor the application refuses, or of a process with
\* a new carrier, which is asked to process what came with a transfer.
LEMMA ProcessCmdStep ==
  ASSUME ConnInv, NEW p \in Procs, NEW h \in Handlers, ProcessCmd(p, h)
  PROVE  ConnInv'
<1> DEFINE c == Head(cmds)
<1>1. /\ Types /\ Good /\ fault = "none" /\ pc = "cmds" /\ cmds # <<>>
      /\ proc[p].st = "none" /\ h \in FreeHandlers /\ c.ty \in Kinds
      /\ cmds' = Tail(cmds) /\ UNCHANGED <<query, closed>>
  BY DEF ConnInv, ProcessCmd, Live, KindsOf
<1>2. c \in CmdRec /\ cmds' \in Seq(CmdRec)
  BY <1>1 DEF Types
<1>3. query = {} /\ cur = Nobody
  BY <1>1 DEF Good, Where, Outside
<1>4. CASE Refused(c)
  <2>1. open' = open \ {c.fd} /\ UNCHANGED <<proc, hand, stream, attached, pc, cur, fault>>
    BY <1>4 DEF Refused
  <2>2. Types'
    BY <1>1, <1>2, <2>1 DEF Types
  <2>3. Owned'
    BY <1>1, <2>1, OwnedRefuse
  <2>4. Where'
    BY <1>1, <2>1, WhereSame DEF Good
  <2>5. Gone' /\ Pairs' /\ Timed'
    BY <1>1, <2>1 DEF Good, Gone, Pairs, HandlerPaired, ProcPaired, KindKnown, Timed, IsCarrier
  <2>6. InOrder' /\ Armed'
    BY <1>1, <2>1 DEF Good, InOrder, InOrderOf, Armed, ArmedOf
  <2>7. Blame'
    BY <1>1, <2>1 DEF Blame
  <2> QED
    BY <2>2, <2>3, <2>4, <2>5, <2>6, <2>7 DEF ConnInv, Good
<1>5. CASE /\ NewConnection(p, h, c)
           /\ \/ UNCHANGED <<pc, cur>>
              \/ pc' = "process" /\ cur' = [h |-> h, ev |-> {}, at |-> "cmd"]
  <2> DEFINE r == NewHandler(c.ty, p, c.fd)
             q == [NoProcess EXCEPT !.st = "CONNECTED", !.io = h]
  <2>1. /\ hand' = [hand EXCEPT ![h] = r] /\ proc' = [proc EXCEPT ![p] = q]
        /\ attached' = attached \cup {p} /\ fault' = IF closed THEN "manager" ELSE "none"
        /\ UNCHANGED <<stream, open>>
    BY <1>5 DEF NewConnection
  <2>2. r \in HandRec /\ r.ty = c.ty /\ r.p = p /\ r.fd = c.fd /\ "fd" \in r.fl
    BY <1>1, <1>2 DEF NewHandler, HandRec, CmdRec, CLOSE_ALL, CLOSE_FD
  <2>3. /\ q \in ProcRec /\ q.st = "CONNECTED" /\ q.io = h /\ q.out = <<>> /\ q.wr = FALSE
        /\ Len(q.out) <= SendBuffer
    BY Blank DEF NoProcess, ProcRec, Status
  <2> HIDE DEF r, q
  <2>4. /\ hand' \in [Handlers -> HandRec] /\ proc' \in [Procs -> ProcRec]
        /\ hand'[h] = r /\ proc'[p] = q
        /\ \A g \in Handlers \ {h} : hand'[g] = hand[g]
        /\ \A x \in Procs \ {p} : proc'[x] = proc[x]
    BY <1>1, <2>1, <2>2, <2>3 DEF Types
  <2>5. Types'
    <3>1. \A x \in Procs : Len(proc'[x].out) <= SendBuffer
      BY <1>1, <2>3, <2>4 DEF Types
    <3>2. pc' \in Outside \cup Inside /\ fault' \in Faults
      BY <1>1, <1>5, <2>1 DEF Outside, Inside, Faults
    <3>3. cur' \in CurRec
      BY <1>1, <1>5 DEF Types, CurRec
    <3> QED
      BY <1>1, <1>2, <2>1, <2>4, <3>1, <3>2, <3>3 DEF Types
  <2>6. stream[p] = NewStream /\ proc[p].io \notin Handlers
    BY <1>1 DEF Good, Gone, NoProcess
  <2>7. InOrderOf(p)' /\ ArmedOf(p)'
    <3>1. stream'[p].wire = <<>> /\ stream'[p].given = 0
      BY <2>1, <2>6 DEF NewStream
    <3>2. <<>> \o <<>> = [i \in 1..0 |-> i]
      OBVIOUS
    <3> QED
      BY <2>3, <2>4, <3>1, <3>2 DEF InOrderOf, ArmedOf
  <2>8. Gone' /\ Pairs' /\ Timed' /\ InOrder' /\ Armed'
    <3>1. /\ hand'[h].p = p /\ proc'[p].io = h
          /\ proc'[p].st = "CONNECTED" /\ hand'[h].ty \in Kinds
          /\ \A x \in Procs \ {p} : proc'[x] = proc[x] /\ stream'[x] = stream[x]
      BY <1>1, <2>1, <2>2, <2>3, <2>4
    <3> QED
      BY <1>1, <2>1, <2>4, <2>5, <2>6, <2>7, <3>1, AddKeeps
  <2>9. Owned'
    BY <1>1, <2>1, <2>2, <2>4, OwnedTake
  <2>10. Where'
    <3>1. CASE UNCHANGED <<pc, cur>>
      BY <1>1, <2>4, <3>1, WhereSame DEF Good, FreeHandlers
    <3>2. CASE pc' = "process" /\ cur' = [h |-> h, ev |-> {}, at |-> "cmd"]
      BY <1>1, <1>3, <2>2, <2>4, <3>2 DEF Where, IsCarrier, Inside, Outside
    <3> QED
      BY <1>5, <3>1, <3>2
  <2>11. Blame'
    BY <1>1, <2>1 DEF Blame
  <2> QED
    BY <2>5, <2>8, <2>9, <2>10, <2>11 DEF ConnInv, Good
<1> QED
  BY <1>4, <1>5 DEF ProcessCmd, TCPAcceptCmd, UNIXAcceptCmd, TCPTransferCmd, UNIXTransferCmd,
     AcceptCmd, TransferCmd

------------------------------------------------------------------------------
(* Events.                                                                 *)

\* The carrier c takes the place and the descriptor of the connector h.
LEMMA ConnectedKeeps ==
  ASSUME Types, Good, NEW h \in Handlers, NEW c \in FreeHandlers, hand[h].ty \in Connectors,
         Connected(h, hand[h].p, c), UNCHANGED cmds
  PROVE  /\ proc' \in [Procs -> ProcRec] /\ stream' \in [Procs -> StreamRec]
         /\ \A x \in Procs : Len(proc'[x].out) <= SendBuffer
         /\ hand' \in [Handlers -> HandRec]
         /\ attached' \subseteq Procs /\ open' = open
         /\ Gone' /\ Pairs' /\ Timed' /\ Owned' /\ InOrder' /\ Armed'
         /\ \A g \in Handlers \ {h, c} : hand'[g] = hand[g]
<1>0. PICK p : p = hand[h].p
  OBVIOUS
<1> DEFINE ty == IF hand[h].ty = "tcp connector" THEN "tcp" ELSE "unix"
           r == NewHandler(ty, p, hand[h].fd)
<1>1. /\ hand[h].ty # "none" /\ c \in Handlers /\ c # h /\ hand[c] = NoHandler
      /\ p \in Procs /\ proc[p].io = h /\ proc[p].st # "none"
  BY <1>0, KindsDiffer DEF FreeHandlers, Good, Gone, Pairs, HandlerPaired
<1>2. proc[p].st = "CONNECTING"
  BY <1>1, KindsDiffer DEF Good, Pairs, ProcPaired
<1>3. ty \in Kinds
  BY DEF Good, Pairs, KindKnown, Offered, Connectors
<1>4. hand[h].fd \in open /\ hand[h].fd \in Fds
  BY <1>1 DEF Good, Owned, Types
<1>5. r \in HandRec /\ r.ty = ty /\ r.p = p /\ r.fd = hand[h].fd /\ "fd" \in r.fl
  BY <1>1, <1>3, <1>4 DEF NewHandler, HandRec, CLOSE_ALL, CLOSE_FD
<1>6. hand' = [hand EXCEPT ![h] = NoHandler, ![c] = r] /\ Carry(p, c) /\ open' = open
  BY <1>0 DEF Connected
<1> HIDE DEF ty, r
<1>7. /\ hand' \in [Handlers -> HandRec] /\ hand'[h] = NoHandler /\ hand'[c] = r
      /\ \A g \in Handlers \ {h, c} : hand'[g] = hand[g]
  BY <1>1, <1>5, <1>6, Blank DEF Types
<1>8. /\ proc' \in [Procs -> ProcRec] /\ stream' \in [Procs -> StreamRec]
      /\ \A x \in Procs : Len(proc'[x].out) <= SendBuffer
      /\ attached' = attached \cup {p} /\ attached' \subseteq Procs
      /\ \A x \in Procs \ {p} : proc'[x] = proc[x] /\ stream'[x] = stream[x]
      /\ proc'[p].st = "CONNECTED" /\ proc'[p].io = c
      /\ InOrderOf(p)' /\ ArmedOf(p)'
  BY <1>1, <1>6, CarryKeeps
<1>9. NoHandler.ty = "none" /\ NoHandler.fd = NULL
  BY DEF NoHandler
<1>10. Gone'
  BY <1>3, <1>5, <1>7, <1>8, <1>9, KindsDiffer DEF Good, Gone
<1>11. \A x \in Procs \ {p} : proc[x].io \notin {h, c}
  <2>1. hand[c].ty = "none"
    BY <1>1, <1>9
  <2> QED
    BY <1>1, <2>1, KindsDiffer DEF Good, Pairs, ProcPaired
<1>12. \A g \in Handlers \ {h, c} : hand[g].ty # "none" => hand[g].p # p
  BY <1>1 DEF Good, Pairs, HandlerPaired
<1>13. Pairs'
  <2>1. ASSUME NEW g \in Handlers PROVE HandlerPaired(g)' /\ KindKnown(g)'
    <3>1. CASE g = h
      BY <1>7, <1>9, <3>1 DEF HandlerPaired, KindKnown, Offered
    <3>2. CASE g = c
      BY <1>1, <1>3, <1>5, <1>7, <1>8, <3>2, KindsDiffer DEF HandlerPaired, KindKnown, Offered, Connectors
    <3>3. CASE g \notin {h, c}
      <4>1. HandlerPaired(g) /\ KindKnown(g) /\ hand'[g] = hand[g]
        BY <1>7, <3>3 DEF Good, Pairs
      <4>2. hand[g].ty # "none" => proc'[hand[g].p] = proc[hand[g].p]
        BY <1>8, <1>12, <3>3, <4>1 DEF HandlerPaired
      <4> QED
        BY <4>1, <4>2 DEF HandlerPaired, KindKnown
    <3> QED
      BY <3>1, <3>2, <3>3
  <2>2. ASSUME NEW x \in Procs PROVE ProcPaired(x)'
    <3>1. CASE x = p
      BY <1>1, <1>3, <1>5, <1>7, <1>8, <3>1 DEF ProcPaired
    <3>2. CASE x # p
      <4>1. ProcPaired(x) /\ proc'[x] = proc[x]
        BY <1>8, <3>2 DEF Good, Pairs
      <4>2. proc[x].io \in Handlers => hand'[proc[x].io] = hand[proc[x].io]
        BY <1>7, <1>11, <3>2
      <4> QED
        BY <4>1, <4>2 DEF ProcPaired
    <3> QED
      BY <3>1, <3>2
  <2> QED
    BY <2>1, <2>2 DEF Pairs
<1>14. Timed'
  <2>1. \A g \in Handlers \ {h, c} : (IsCarrier(g)' <=> IsCarrier(g)) /\ hand'[g].p = hand[g].p
    BY <1>7 DEF IsCarrier
  <2>2. ~IsCarrier(h) /\ ~IsCarrier(c) /\ ~IsCarrier(h)' /\ IsCarrier(c)' /\ hand'[c].p = p
    BY <1>1, <1>3, <1>5, <1>7, <1>9, KindsDiffer DEF IsCarrier
  <2>3. ASSUME NEW x \in Procs
        PROVE  x \in attached' <=> \E g \in Handlers : IsCarrier(g)' /\ hand'[g].p = x
    <3>1. CASE x = p
      BY <1>1, <1>8, <2>2, <3>1
    <3>2. CASE x # p
      BY <1>8, <2>1, <2>2, <3>2 DEF Good, Timed
    <3> QED
      BY <3>1, <3>2
  <2> QED
    BY <2>3 DEF Timed, IsCarrier
<1>15. Owned'
  <2>1. \A x \in open' : (\E g \in Handlers : hand'[g].fd = x) \/ (\E i \in DOMAIN cmds' : cmds'[i].fd = x)
    <3>1. SUFFICES ASSUME NEW x \in open
                   PROVE (\E g \in Handlers : hand'[g].fd = x) \/ (\E i \in DOMAIN cmds : cmds[i].fd = x)
      BY <1>6
    <3>2. hand'[c].fd = hand[h].fd /\ hand[c].fd = NULL /\ x # NULL
      BY <1>1, <1>5, <1>7, <1>9 DEF Types
    <3>3. CASE \E g \in Handlers : hand[g].fd = x
      BY <1>1, <1>7, <3>2, <3>3
    <3> QED
      BY <3>1, <3>3 DEF Good, Owned
  <2>2. \A g \in Handlers : hand'[g].ty # "none" => hand'[g].fd \in open' /\ "fd" \in hand'[g].fl
    BY <1>4, <1>5, <1>6, <1>7, <1>9 DEF Good, Owned
  <2>3. \A f, g \in Handlers : hand'[f].fd = hand'[g].fd /\ hand'[f].ty # "none" => f = g
    BY <1>1, <1>4, <1>5, <1>7, <1>9 DEF Good, Owned
  <2>4. \A g \in Handlers, i \in DOMAIN cmds' : hand'[g].fd # cmds'[i].fd
    <3>1. \A i \in DOMAIN cmds : cmds[i].fd # NULL /\ hand[h].fd # cmds[i].fd
      BY DEF Good, Owned, Types
    <3> QED
      BY <1>5, <1>7, <1>9, <3>1 DEF Good, Owned
  <2> QED
    BY <1>6, <2>1, <2>2, <2>3, <2>4 DEF Good, Owned
<1>16. ASSUME NEW x \in Procs PROVE InOrderOf(x)' /\ ArmedOf(x)'
  <2>1. CASE x = p
    BY <1>8, <2>1
  <2>2. CASE x # p
    <3>1. InOrderOf(x) /\ ArmedOf(x) /\ ProcPaired(x) /\ proc'[x] = proc[x] /\ stream'[x] = stream[x]
      BY <1>8, <2>2 DEF Good, Pairs, InOrder, Armed
    <3>2. proc[x].st = "CONNECTED" => hand'[proc[x].io] = hand[proc[x].io]
      BY <1>7, <1>11, <2>2, <3>1 DEF ProcPaired
    <3> QED
      BY <3>1, <3>2 DEF InOrderOf, ArmedOf
  <2> QED
    BY <2>1, <2>2
<1> QED
  BY <1>6, <1>7, <1>8, <1>10, <1>13, <1>14, <1>15, <1>16 DEF InOrder, Armed

\* A connector's event: it ends, or a carrier takes over.
LEMMA ConnectorEventStep ==
  ASSUME ConnInv, NEW h \in query, NEW ev, pc = "events", fault = "none",
         hand[h].ty \in Connectors, ConnectorEvent(h, ev), query' = query \ {h}
  PROVE  ConnInv'
<1>1. Types /\ Good /\ h \in Handlers /\ hand[h].ty # "none" /\ UNCHANGED <<cmds, pc, cur, closed>>
  BY KindsDiffer DEF ConnInv, Types, ConnectorEvent
<1>2. CASE "err" \in ev
  <2>1. /\ Destroy({h}, IF "process" \in hand[h].fl THEN {hand[h].p} ELSE {},
                   [proc EXCEPT ![hand[h].p].st = "DISCONNECT"])
        /\ UNCHANGED fault
    BY <1>2 DEF ConnectorEvent
  <2>2. /\ proc' \in [Procs -> ProcRec]
        /\ \A q \in Procs : Len(proc'[q].out) <= SendBuffer
        /\ hand' \in [Handlers -> HandRec]
        /\ stream' \in [Procs -> StreamRec]
        /\ open' \subseteq Fds /\ attached' \subseteq Procs
        /\ Gone' /\ Pairs' /\ Timed' /\ Owned' /\ InOrder' /\ Armed'
        /\ \A g \in Handlers \ {h} : hand'[g] = hand[g]
    BY <1>1, <2>1, DropKeeps
  <2>3. Types'
    BY <1>1, <2>1, <2>2 DEF Types
  <2>4. Where'
    BY <1>1, <2>2 DEF Types, Good, Where, Inside, Outside
  <2>5. Blame'
    BY <2>1 DEF Blame
  <2> QED
    BY <2>2, <2>3, <2>4, <2>5 DEF ConnInv, Good
<1>3. CASE "err" \notin ev
  <2>1. PICK c \in FreeHandlers : Connected(h, hand[h].p, c)
    BY <1>3 DEF ConnectorEvent
  <2>2. fault' = IF closed THEN "manager" ELSE "none"
    BY <1>3 DEF ConnectorEvent
  <2>3. /\ proc' \in [Procs -> ProcRec] /\ stream' \in [Procs -> StreamRec]
        /\ \A x \in Procs : Len(proc'[x].out) <= SendBuffer
        /\ hand' \in [Handlers -> HandRec]
        /\ attached' \subseteq Procs /\ open' = open
        /\ Gone' /\ Pairs' /\ Timed' /\ Owned' /\ InOrder' /\ Armed'
        /\ \A g \in Handlers \ {h, c} : hand'[g] = hand[g]
    BY <1>1, <2>1, ConnectedKeeps
  <2>4. Types'
    BY <1>1, <2>2, <2>3 DEF Types, Faults
  <2>5. Where'
    BY <1>1, <2>1, <2>3 DEF Types, Good, Where, Inside, Outside, FreeHandlers
  <2>6. Blame'
    BY <1>1, <2>2 DEF Blame
  <2> QED
    BY <2>3, <2>4, <2>5, <2>6 DEF ConnInv, Good
<1> QED
  BY <1>2, <1>3

\* A step that only moves Pulse.
LEMMA ControlKeeps ==
  ASSUME Types, Good, fault = "none",
         UNCHANGED <<proc, hand, stream, open, attached, cmds, closed, fault>>,
         query' \subseteq Handlers, pc' \in Outside \cup Inside, cur' \in CurRec, Where'
  PROVE  ConnInv'
<1>1. Types'
  BY DEF Types
<1>2. Gone' /\ Pairs' /\ Timed'
  BY DEF Good, Gone, Pairs, HandlerPaired, ProcPaired, KindKnown, Timed, IsCarrier
<1>3. Owned'
  BY OwnedSame DEF Good
<1>4. InOrder' /\ Armed'
  BY DEF Good, InOrder, InOrderOf, Armed, ArmedOf
<1>5. Blame'
  BY DEF Blame
<1> QED
  BY <1>1, <1>2, <1>3, <1>4, <1>5 DEF ConnInv, Good

\* epoll_wait reports handlers that are there.
LEMMA EpollWaitStep == ASSUME ConnInv, EpollWait PROVE ConnInv'
<1>1. /\ Types /\ Good /\ fault = "none" /\ pc = "timers" /\ pc' = "events"
      /\ query' \in SUBSET {h \in Handlers : hand[h].ev # {}}
      /\ UNCHANGED <<proc, hand, stream, open, attached, cmds, cur, closed, fault>>
  BY DEF ConnInv, EpollWait
<1>2. \A h \in query' : hand[h].ty # "none"
  BY <1>1 DEF Good, Gone, NoHandler
<1>3. Where'
  BY <1>1, <1>2 DEF Good, Where, Inside, Outside
<1> QED
  BY <1>1, <1>3, ControlKeeps DEF Types, Outside

\* Where OnEvent goes on after it has read.
LEMMA AfterReadOK ==
  ASSUME NEW h, NEW ev
  PROVE  /\ AfterRead(h, ev) \in {"tail", "write", "flush"}
         /\ AfterRead(h, ev) = "write" => hand[h].ty = "pipe"
  BY DEF AfterRead

\* A carrier's event.
LEMMA CarrierEventStep ==
  ASSUME ConnInv, NEW h \in query, NEW ev \in SUBSET {"in", "out", "err", "hup"},
         pc = "events", fault = "none", CarrierEvent(h, ev), query' = query \ {h}
  PROVE  ConnInv'
<1>1. /\ Types /\ Good /\ h \in Handlers /\ IsCarrier(h)
      /\ cur'.h = h /\ cur' \in CurRec
      /\ pc' \in {"end", "read", "tail", "write", "flush"}
      /\ pc' = "write" => hand[h].ty = "pipe"
      /\ UNCHANGED <<proc, hand, stream, open, attached, cmds, closed, fault>>
  <2>1. cur' = [h |-> h, ev |-> IF hand[h].ty = "pipe" THEN ev ELSE ev \cap {"in", "out"}, at |-> "none"]
    BY DEF CarrierEvent
  <2>2. h \in Handlers /\ Types /\ Good
    BY DEF ConnInv, Types
  <2>3. cur'.h = h /\ cur' \in CurRec
    BY <2>1, <2>2 DEF CurRec
  <2>4. /\ pc' \in {"end", "read", "tail", "write", "flush"}
        /\ pc' = "write" => hand[h].ty = "pipe"
    BY AfterReadOK DEF CarrierEvent
  <2> QED
    BY <2>2, <2>3, <2>4 DEF CarrierEvent
<1>2. Where'
  BY <1>1 DEF Good, Where, IsCarrier, Inside, Outside
<1> QED
  BY <1>1, <1>2, ControlKeeps DEF Types, Inside

\* The next entry of query_.
LEMMA OnEventStep ==
  ASSUME ConnInv, NEW h \in Handlers, NEW ev \in SUBSET (hand[h].ev \cup {"err", "hup"}), OnEvent(h, ev)
  PROVE  ConnInv'
<1>1. pc = "events" /\ fault = "none" /\ h \in query /\ query' = query \ {h}
  BY DEF OnEvent
<1>2. ev \in SUBSET {"in", "out", "err", "hup"}
  BY DEF ConnInv, Types, HandRec
<1>3. CASE TCPConnectorEvent(h, ev) \/ UNIXConnectorEvent(h, ev)
  <2>1. hand[h].ty \in Connectors /\ ConnectorEvent(h, ev)
    BY <1>3 DEF TCPConnectorEvent, UNIXConnectorEvent, Connectors
  <2> QED
    BY <1>1, <2>1, ConnectorEventStep
<1>4. CASE CarrierEvent(h, ev)
  BY <1>1, <1>2, <1>4, CarrierEventStep
<1> QED
  BY <1>3, <1>4 DEF OnEvent

\* Process() is called by a part of OnEvent that is reached by pipes only, or
\* for what was read.
LEMMA CallbackKeeps ==
  ASSUME Types, Good, fault = "none", pc \in Inside \ {"process"},
         NEW at \in {"in", "out", "err", "hup"}, at # "in" => hand[cur.h].ty = "pipe",
         Callback(at)
  PROVE  ConnInv'
<1>1. /\ pc' = "process" /\ cur' = [cur EXCEPT !.at = at, !.ev = @ \ {at}]
      /\ UNCHANGED <<proc, hand, stream, open, attached, cmds, query, closed, fault>>
  BY DEF Callback, Goto
<1>2. cur' \in CurRec /\ cur'.h = cur.h /\ cur'.at = at
  BY <1>1 DEF Types, CurRec
<1>3. Where'
  BY <1>1, <1>2 DEF Good, Where, IsCarrier, Inside, Outside
<1> QED
  BY <1>1, <1>2, <1>3, ControlKeeps DEF Types, Inside

\* OnEvent goes on with another part.
LEMMA GoOnKeeps ==
  ASSUME Types, Good, fault = "none", pc \in Inside, cur' \in CurRec, cur'.h = cur.h,
         NEW to \in {"tail", "write", "flush"}, to = "write" => hand[cur.h].ty = "pipe", Goto(to)
  PROVE  ConnInv'
<1>1. /\ pc' = to
      /\ UNCHANGED <<proc, hand, stream, open, attached, cmds, query, closed, fault>>
  BY DEF Goto
<1>2. Where'
  BY <1>1 DEF Good, Where, IsCarrier, Inside, Outside
<1> QED
  BY <1>1, <1>2, ControlKeeps DEF Types, Inside

\* OnEvent ends before it reads.
LEMMA EndAtOnceStep == ASSUME ConnInv, EndAtOnce PROVE ConnInv'
  BY EndKeeps DEF ConnInv, EndAtOnce, Inside

\* OnEvent reads.
LEMMA ReadStep == ASSUME ConnInv, Read PROVE ConnInv'
<1>1. Types /\ Good /\ fault = "none" /\ pc = "read" /\ pc \in Inside \ {"process"}
  BY DEF ConnInv, Read, Inside
<1>2. CASE Callback("in")
  BY <1>1, <1>2, CallbackKeeps
<1>3. CASE End
  BY <1>1, <1>3, EndKeeps
<1>4. CASE NothingRead
  <2>1. cur' = [cur EXCEPT !.ev = @ \ {"in"}] /\ Goto(AfterRead(cur.h, cur.ev))
    BY <1>4 DEF NothingRead
  <2>2. cur' \in CurRec /\ cur'.h = cur.h
    BY <1>1, <2>1 DEF Types, CurRec
  <2> QED
    BY <1>1, <2>1, <2>2, AfterReadOK, GoOnKeeps
<1> QED
  BY <1>2, <1>3, <1>4 DEF Read, TcpRead, UnixRead, UdpRead, PipeRead

\* A pipe asks its process before it writes.
LEMMA AskToWriteStep == ASSUME ConnInv, AskToWrite PROVE ConnInv'
<1>1. /\ Types /\ Good /\ fault = "none" /\ pc = "write" /\ pc \in Inside \ {"process"}
      /\ Callback("out")
  BY DEF ConnInv, AskToWrite, Inside
<1>2. hand[cur.h].ty = "pipe"
  BY <1>1 DEF Good, Where
<1> QED
  BY <1>1, <1>2, CallbackKeeps

\* OnEvent returns true: the next entry of query_.
LEMMA LeaveKeeps ==
  ASSUME Types, Good, fault = "none", pc \in Inside, cur' = Nobody, NEW to \in {"events", "cmds"},
         to = "cmds" => query = {}, Goto(to)
  PROVE  ConnInv'
<1>1. /\ pc' = to
      /\ UNCHANGED <<proc, hand, stream, open, attached, cmds, query, closed, fault>>
  BY DEF Goto
<1>2. Where'
  BY <1>1 DEF Good, Where, Inside, Outside
<1>3. cur' \in CurRec
  BY DEF Nobody, CurRec
<1> QED
  BY <1>1, <1>2, <1>3, ControlKeeps DEF Types, Outside

\* The end of OnEvent.
LEMMA TailStep == ASSUME ConnInv, Tail_ PROVE ConnInv'
<1>1. Types /\ Good /\ fault = "none" /\ pc = "tail" /\ pc \in Inside \ {"process"}
  BY DEF ConnInv, Tail_, Inside
<1>2. CASE hand[cur.h].ty = "pipe" /\ "err" \in cur.ev
  <2>1. Callback("err")
    BY <1>2 DEF Tail_
  <2> QED
    BY <1>1, <1>2, <2>1, CallbackKeeps
<1>3. CASE hand[cur.h].ty = "pipe" /\ "err" \notin cur.ev /\ "hup" \in cur.ev
  <2>1. Callback("hup")
    BY <1>3 DEF Tail_
  <2> QED
    BY <1>1, <1>3, <2>1, CallbackKeeps
<1>4. CASE ~(hand[cur.h].ty = "pipe" /\ ("err" \in cur.ev \/ "hup" \in cur.ev))
  <2>1. End \/ (cur' = Nobody /\ Goto("events"))
    BY <1>4 DEF Tail_
  <2>2. CASE End
    BY <1>1, <2>2, EndKeeps
  <2>3. CASE cur' = Nobody /\ Goto("events")
    BY <1>1, <2>3, LeaveKeeps
  <2> QED
    BY <2>1, <2>2, <2>3
<1> QED
  BY <1>2, <1>3, <1>4

\* Pulse has served its events, the commands are done, or the timeouts.
LEMMA PhaseStep ==
  ASSUME ConnInv, Served \/ CmdsDone \/ TimeoutsDone
  PROVE  ConnInv'
<1>1. /\ Types /\ Good /\ fault = "none" /\ pc \in Outside /\ query = {}
      /\ pc' \in {"cmds", "timeouts", "timers"}
      /\ UNCHANGED <<proc, hand, stream, open, attached, cmds, query, cur, closed, fault>>
  BY DEF ConnInv, Good, Where, Served, CmdsDone, TimeoutsDone, Goto, Outside
<1>2. Where'
  BY <1>1 DEF Good, Where, Inside, Outside
<1> QED
  BY <1>1, <1>2, ControlKeeps DEF Types, Outside

\* A pipe hung up: its process is disconnected and keeps its handler.
LEMMA HupKeeps ==
  ASSUME Types, Good, fault = "none", pc = "process", cur.at = "hup",
         proc' = [proc EXCEPT ![hand[cur.h].p].st = "DISCONNECT"], pc' = "tail",
         UNCHANGED <<hand, stream, open, attached, cmds, query, cur, closed, fault>>
  PROVE  ConnInv'
<1>0. PICK p : p = hand[cur.h].p
  OBVIOUS
<1> DEFINE q == [proc[p] EXCEPT !.st = "DISCONNECT"]
<1>1. cur.h \in Handlers /\ hand[cur.h].ty = "pipe" /\ IsCarrier(cur.h)
  BY DEF Good, Where, Inside
<1>2. p \in Procs /\ proc[p].io = cur.h /\ proc[p].st # "none"
  BY <1>0, <1>1 DEF Good, Pairs, HandlerPaired
<1>3. q \in ProcRec /\ q.st = "DISCONNECT" /\ q.io = cur.h /\ q.out = proc[p].out /\ q.wr = proc[p].wr
  <2>1. proc[p] \in ProcRec /\ "DISCONNECT" \in Status
    BY <1>2 DEF Types, Status
  <2> QED
    BY <1>2, <2>1, StatusSet
<1>4. proc' = [proc EXCEPT ![p] = q]
  BY <1>0
<1> HIDE DEF q
<1>5. /\ proc' \in [Procs -> ProcRec] /\ proc'[p] = q
      /\ \A x \in Procs \ {p} : proc'[x] = proc[x]
  <2>1. proc \in [Procs -> ProcRec]
    BY DEF Types
  <2> QED
    BY <1>2, <1>3, <1>4, <2>1
<1>6. Types'
  <2>1. \A x \in Procs : Len(proc'[x].out) <= SendBuffer
    BY <1>3, <1>5 DEF Types
  <2> QED
    BY <1>5, <2>1 DEF Types, Inside
<1>7. Gone'
  <2>1. ASSUME NEW x \in Procs
        PROVE  /\ proc'[x].st # "TIMEOUT"
               /\ proc'[x].st = "none" => proc'[x] = NoProcess /\ stream[x] = NewStream
    <3>1. CASE x = p
      BY <1>3, <1>5, <3>1
    <3>2. CASE x # p
      BY <1>5, <3>2 DEF Good, Gone
    <3> QED
      BY <3>1, <3>2
  <2>2. \A g \in Handlers : hand[g].ty = "none" => hand[g] = NoHandler
    BY DEF Good, Gone
  <2> QED
    BY <2>1, <2>2 DEF Gone, NoProcess, NewStream, NoHandler
<1>8. Pairs'
  <2>1. ASSUME NEW g \in Handlers PROVE HandlerPaired(g)' /\ KindKnown(g)'
    <3>1. HandlerPaired(g) /\ KindKnown(g)
      BY DEF Good, Pairs
    <3>2. \A x \in Procs : proc'[x].io = proc[x].io /\ (proc[x].st # "none" => proc'[x].st # "none")
      BY <1>2, <1>3, <1>5
    <3> QED
      BY <3>1, <3>2 DEF HandlerPaired, KindKnown
  <2>2. ASSUME NEW x \in Procs PROVE ProcPaired(x)'
    <3>1. ProcPaired(x)
      BY DEF Good, Pairs
    <3>2. CASE x = p
      BY <1>0, <1>1, <1>3, <1>5, <3>2 DEF ProcPaired, IsCarrier
    <3>3. CASE x # p
      BY <1>5, <3>1, <3>3 DEF ProcPaired
    <3> QED
      BY <3>2, <3>3
  <2> QED
    BY <2>1, <2>2 DEF Pairs
<1>9. Timed' /\ Owned'
  BY OwnedSame DEF Good, Timed, IsCarrier
<1>10. Where'
  BY <1>1 DEF Good, Where, IsCarrier, Inside, Outside
<1>11. ASSUME NEW x \in Procs PROVE InOrderOf(x)' /\ ArmedOf(x)'
  <2>1. InOrderOf(x) /\ ArmedOf(x)
    BY DEF Good, InOrder, Armed
  <2> QED
    BY <1>3, <1>5, <2>1 DEF InOrderOf, ArmedOf
<1>12. Blame'
  BY DEF Blame
<1> QED
  BY <1>6, <1>7, <1>8, <1>9, <1>10, <1>11, <1>12 DEF ConnInv, Good, InOrder, Armed

\* A transfer command frees the process that does not want its data.
LEMMA UnwantedKeeps ==
  ASSUME Types, Good, fault = "none", pc = "process", cur.at = "cmd",
         Destroy({cur.h}, {hand[cur.h].p}, proc), pc' = "cmds", cur' = Nobody,
         UNCHANGED <<cmds, query, closed, fault>>
  PROVE  ConnInv'
<1>1. cur.h \in Handlers /\ hand[cur.h].ty # "none" /\ query = {}
  BY KindsDiffer DEF Good, Where, IsCarrier, Inside
<1>2. /\ proc' \in [Procs -> ProcRec]
      /\ \A q \in Procs : Len(proc'[q].out) <= SendBuffer
      /\ hand' \in [Handlers -> HandRec]
      /\ stream' \in [Procs -> StreamRec]
      /\ open' \subseteq Fds /\ attached' \subseteq Procs
      /\ Gone' /\ Pairs' /\ Timed' /\ Owned' /\ InOrder' /\ Armed'
  BY <1>1, DropKeeps
<1>3. Types'
  BY <1>2 DEF Types, CurRec, Nobody, Outside
<1>4. Where'
  BY <1>1 DEF Where, Inside, Outside
<1>5. Blame'
  BY DEF Blame
<1> QED
  BY <1>2, <1>3, <1>4, <1>5 DEF ConnInv, Good

\* Process() returns.
LEMMA ReturnStep == ASSUME ConnInv, NEW ok \in BOOLEAN, Return(ok) PROVE ConnInv'
<1>1. /\ Types /\ Good /\ fault = "none" /\ pc = "process" /\ pc \in Inside
      /\ cur \in CurRec
  BY DEF ConnInv, Types, Return, Inside
<1>2. cur.at \in {"in", "out", "err", "hup", "cmd"}
  BY <1>1 DEF Good, Where, CurRec
<1>3. CASE cur.at = "in"
  <2>1. IF ok THEN Proceed(AfterRead(cur.h, cur.ev)) ELSE End
    BY <1>3 DEF Return
  <2>2. CASE ok
    BY <1>1, <2>1, <2>2, AfterReadOK, GoOnKeeps DEF Proceed
  <2>3. CASE ~ok
    BY <1>1, <2>1, <2>3, EndKeeps
  <2> QED
    BY <2>2, <2>3
<1>4. CASE cur.at = "out"
  <2>1. IF ok THEN Proceed("flush") ELSE End
    BY <1>4 DEF Return
  <2>2. CASE ok
    BY <1>1, <2>1, <2>2, GoOnKeeps DEF Proceed
  <2>3. CASE ~ok
    BY <1>1, <2>1, <2>3, EndKeeps
  <2> QED
    BY <2>2, <2>3
<1>5. CASE cur.at = "err"
  <2>1. End
    BY <1>5 DEF Return
  <2> QED
    BY <1>1, <2>1, EndKeeps
<1>6. CASE cur.at = "hup"
  <2>1. /\ proc' = [proc EXCEPT ![hand[cur.h].p].st = "DISCONNECT"] /\ pc' = "tail"
        /\ UNCHANGED <<hand, stream, open, attached, cmds, query, cur, closed, fault>>
    BY <1>6 DEF Return
  <2> QED
    BY <1>1, <1>6, <2>1, HupKeeps
<1>7. CASE cur.at = "cmd"
  <2>1. /\ cur' = Nobody
        /\ IF ok THEN Goto("cmds")
           ELSE /\ Destroy({cur.h}, {hand[cur.h].p}, proc)
                /\ pc' = "cmds"
                /\ UNCHANGED <<cmds, query, closed, fault>>
    BY <1>7 DEF Return
  <2>2. query = {}
    BY <1>1, <1>7 DEF Good, Where
  <2>3. CASE ok
    BY <1>1, <2>1, <2>2, <2>3, LeaveKeeps
  <2>4. CASE ~ok
    BY <1>1, <1>7, <2>1, <2>4, UnwantedKeeps
  <2> QED
    BY <2>3, <2>4
<1> QED
  BY <1>2, <1>3, <1>4, <1>5, <1>6, <1>7

\* A connection times out.
LEMMA TimeoutStep == ASSUME ConnInv, NEW p \in Procs, Timeout(p) PROVE ConnInv'
<1> DEFINE pr == [proc EXCEPT ![p].st = "TIMEOUT"]
<1>1. /\ Types /\ Good /\ fault = "none" /\ pc = "timeouts" /\ p \in attached
      /\ FreeAll({p}, pr) /\ UNCHANGED <<cmds, query, pc, cur, closed>>
  BY DEF ConnInv, Timeout
<1>2. proc[p] \in ProcRec /\ "TIMEOUT" \in Status
  BY <1>1 DEF Types, Status
<1>3. PICK h \in Handlers : IsCarrier(h) /\ hand[h].p = p
  BY <1>1 DEF Good, Timed
<1>4. proc[p].io \in Handlers
  BY <1>1, <1>3, KindsDiffer DEF Good, Pairs, HandlerPaired, IsCarrier
<1>5. [proc[p] EXCEPT !.st = "TIMEOUT"] \in ProcRec
  BY <1>2, StatusSet
<1>6. /\ pr \in [Procs -> ProcRec] /\ pr[p] = [proc[p] EXCEPT !.st = "TIMEOUT"]
      /\ \A x \in Procs \ {p} : pr[x] = proc[x]
  BY <1>1, <1>5 DEF Types
<1>7. pr[p].st = "TIMEOUT" /\ pr[p].io = proc[p].io /\ pr[p].out = proc[p].out
  BY <1>2, <1>6, StatusSet
<1> HIDE DEF pr
<1>8. /\ {p} \in SUBSET Procs /\ closed' \in BOOLEAN
      /\ \A x \in Procs : pr[x].out = proc[x].out /\ pr[x].io = proc[x].io
      /\ pc \in {"process", "timeouts", "timers"}
  BY <1>1, <1>6, <1>7 DEF Types
<1>9. /\ \A x \in Procs \ {p} : pr[x] = proc[x]
      /\ \A x \in {p} : pr[x].st = proc[x].st \/ (pr[x].st = "TIMEOUT" /\ proc[x].io \in Handlers)
  BY <1>4, <1>6, <1>7
<1> QED
  BY <1>1, <1>6, <1>8, <1>9, FreeAllKeeps

\* The worker closes its timers, and with them every connection.
LEMMA CloseTimersStep == ASSUME ConnInv, CloseTimers PROVE ConnInv'
<1>1. /\ Types /\ Good /\ fault = "none" /\ pc = "timers"
      /\ FreeAll(attached, proc) /\ closed' = TRUE /\ UNCHANGED <<cmds, query, pc, cur>>
  BY DEF ConnInv, CloseTimers
<1>2. /\ attached \in SUBSET Procs /\ proc \in [Procs -> ProcRec] /\ closed' \in BOOLEAN
      /\ pc \in {"process", "timeouts", "timers"}
  BY <1>1 DEF Types
<1> QED
  BY <1>1, <1>2, FreeAllKeeps

------------------------------------------------------------------------------
(* Output.                                                                 *)

\* Two sequences of bytes, one behind the other, and three.
LEMMA Joined ==
  ASSUME NEW a \in Seq(Byte), NEW b \in Seq(Byte)
  PROVE  /\ a \o b \in Seq(Byte) /\ Len(a \o b) = Len(a) + Len(b)
         /\ \A i \in 1..(Len(a) + Len(b)) : (a \o b)[i] = IF i <= Len(a) THEN a[i] ELSE b[i - Len(a)]
         /\ a \o <<>> = a /\ <<>> \o b = b
  BY ConcatProperties, ConcatEmptySeq

\* It does not matter which two are joined first.
LEMMA Regroup ==
  ASSUME NEW a \in Seq(Byte), NEW b \in Seq(Byte), NEW c \in Seq(Byte)
  PROVE  (a \o b) \o c = a \o (b \o c)
  BY ConcatAssociative, SMT

\* The numbers up to g and the next n.
LEMMA CountOn ==
  ASSUME NEW g \in Nat, NEW n \in Nat, g + n <= MaxGiven
  PROVE  /\ [i \in 1..n |-> g + i] \in Seq(Byte) /\ Len([i \in 1..n |-> g + i]) = n
         /\ [i \in 1..g |-> i] \o [i \in 1..n |-> g + i] = [i \in 1..(g + n) |-> i]
<1> DEFINE a == [i \in 1..g |-> i]
           b == [i \in 1..n |-> g + i]
           c == [i \in 1..(g + n) |-> i]
<1>1. a \in Seq(Byte) /\ Len(a) = g
  BY Bounds DEF Byte
<1>2. b \in Seq(Byte) /\ Len(b) = n
  BY Bounds DEF Byte
<1>3. c \in Seq(Byte) /\ Len(c) = g + n
  BY Bounds DEF Byte
<1>4. /\ a \o b \in Seq(Byte) /\ Len(a \o b) = g + n
      /\ \A i \in 1..(g + n) : (a \o b)[i] = IF i <= g THEN a[i] ELSE b[i - g]
  <2> HIDE DEF a, b, c
  <2>1. /\ a \o b \in Seq(Byte) /\ Len(a \o b) = Len(a) + Len(b)
        /\ \A i \in 1..(Len(a) + Len(b)) : (a \o b)[i] = IF i <= Len(a) THEN a[i] ELSE b[i - Len(a)]
    BY <1>1, <1>2, Joined, Zenon
  <2> QED
    BY <1>1, <1>2, <2>1
<1>5. \A i \in 1..(g + n) : (a \o b)[i] = c[i]
  <2>1. \A i \in 1..(g + n) : i <= g => a[i] = i
    OBVIOUS
  <2>2. \A i \in 1..(g + n) : ~(i <= g) => b[i - g] = i
    OBVIOUS
  <2>3. \A i \in 1..(g + n) : c[i] = i
    OBVIOUS
  <2> HIDE DEF a, b, c
  <2> QED
    BY <1>4, <2>1, <2>2, <2>3
<1>6. a \o b = c
  <2> HIDE DEF a, b, c
  <2> QED
    BY <1>3, <1>4, <1>5, SeqEqual
<1> QED
  BY <1>2, <1>6

\* A sequence cut in two.
LEMMA Cut ==
  ASSUME NEW s \in Seq(Byte), NEW k \in 0..Len(s)
  PROVE  /\ SubSeq(s, 1, k) \in Seq(Byte) /\ Len(SubSeq(s, 1, k)) = k
         /\ SubSeq(s, k + 1, Len(s)) \in Seq(Byte) /\ Len(SubSeq(s, k + 1, Len(s))) = Len(s) - k
         /\ SubSeq(s, 1, k) \o SubSeq(s, k + 1, Len(s)) = s
<1> DEFINE a == SubSeq(s, 1, k)
           b == SubSeq(s, k + 1, Len(s))
<1>0. Len(s) \in Nat /\ \A i \in 1..Len(s) : s[i] \in Byte
  OBVIOUS
<1>1. a \in Seq(Byte) /\ Len(a) = k /\ \A i \in 1..k : a[i] = s[i]
  <2>1. \A i \in 1..k : s[i] \in Byte
    BY <1>0
  <2>2. /\ a \in Seq(Byte) /\ Len(a) = IF 1 <= k THEN k - 1 + 1 ELSE 0
        /\ \A i \in 1..(k - 1 + 1) : a[i] = s[1 + i - 1]
    BY <1>0, <2>1, SubSeqProperties
  <2> QED
    BY <1>0, <2>2
<1>2. /\ b \in Seq(Byte) /\ Len(b) = Len(s) - k
      /\ \A i \in 1..(Len(s) - k) : b[i] = s[k + i]
  <2>1. \A i \in (k + 1)..Len(s) : s[i] \in Byte
    BY <1>0
  <2>2. /\ b \in Seq(Byte) /\ Len(b) = IF k + 1 <= Len(s) THEN Len(s) - (k + 1) + 1 ELSE 0
        /\ \A i \in 1..(Len(s) - (k + 1) + 1) : b[i] = s[(k + 1) + i - 1]
    BY <1>0, <2>1, SubSeqProperties
  <2> QED
    BY <1>0, <2>2
<1> HIDE DEF a, b
<1>3. /\ a \o b \in Seq(Byte) /\ Len(a \o b) = Len(a) + Len(b)
      /\ \A i \in 1..(Len(a) + Len(b)) : (a \o b)[i] = IF i <= Len(a) THEN a[i] ELSE b[i - Len(a)]
  BY <1>1, <1>2, Joined
<1>4. Len(a \o b) = Len(s)
  BY <1>0, <1>1, <1>2, <1>3
<1>5. ASSUME NEW i \in 1..Len(s) PROVE (a \o b)[i] = s[i]
  <2>1. CASE i <= k
    BY <1>0, <1>1, <1>2, <1>3, <2>1
  <2>2. CASE ~(i <= k)
    <3>1. i - k \in 1..(Len(s) - k) /\ k + (i - k) = i
      BY <1>0, <2>2
    <3> QED
      BY <1>0, <1>1, <1>2, <1>3, <2>2, <3>1
  <2> QED
    BY <2>1, <2>2
<1>6. a \o b = s
  BY <1>3, <1>4, <1>5, SeqEqual
<1> QED
  BY <1>1, <1>2, <1>6 DEF a, b

\* What a step of output does to the rest: nothing.
LEMMA OutputKeeps ==
  ASSUME Types, Good, Types', NEW p \in Procs, proc[p].st # "none", proc[p].io \in Handlers,
         proc'[p].st = proc[p].st, proc'[p].io = proc[p].io,
         \A x \in Procs \ {p} : proc'[x] = proc[x] /\ stream'[x] = stream[x],
         \A g \in Handlers : /\ g # proc[p].io => hand'[g] = hand[g]
                             /\ hand'[g].ty = hand[g].ty /\ hand'[g].p = hand[g].p
                             /\ hand'[g].fd = hand[g].fd /\ hand'[g].fl = hand[g].fl,
         UNCHANGED <<open, attached, cmds>>, InOrderOf(p)', ArmedOf(p)'
  PROVE  Gone' /\ Pairs' /\ Timed' /\ Owned' /\ InOrder' /\ Armed'
<1>1. hand[proc[p].io].ty # "none" /\ hand[proc[p].io].p = p
  BY KindsDiffer DEF Good, Pairs, ProcPaired
<1>2. Gone' /\ Pairs' /\ Timed' /\ Owned'
  BY <1>1, EditKeeps
<1>3. ASSUME NEW x \in Procs PROVE InOrderOf(x)' /\ ArmedOf(x)'
  <2>1. CASE x = p
    BY <2>1
  <2>2. CASE x # p
    <3>1. InOrderOf(x) /\ ArmedOf(x) /\ ProcPaired(x) /\ proc'[x] = proc[x] /\ stream'[x] = stream[x]
      BY <2>2 DEF Good, Pairs, InOrder, Armed
    <3>2. proc[x].st = "CONNECTED" => hand'[proc[x].io] = hand[proc[x].io]
      BY <1>1, <2>2, <3>1 DEF ProcPaired
    <3>3. InOrderOf(x)'
      BY <3>1 DEF InOrderOf
    <3>4. ArmedOf(x)'
      BY <3>1, <3>2 DEF ArmedOf
    <3> QED
      BY <3>3, <3>4
  <2> QED
    BY <2>1, <2>2
<1> QED
  BY <1>2, <1>3 DEF InOrder, Armed

\* The first g bytes, and the n after them.
FirstBytes(g) == [i \in 1..g |-> i]
NextBytes(g, n) == [i \in 1..n |-> g + i]

\* The g bytes given so far are on the wire or in out; after n more are given
\* and s is sent, o is what is left of them.
Account(w, out, s, o, g, n, all) ==
  /\ w \in Seq(Byte) /\ out \in Seq(Byte) /\ s \in Seq(Byte) /\ o \in Seq(Byte)
  /\ g \in Nat /\ n \in Nat /\ g + n <= MaxGiven /\ all = g + n
  /\ w \o out = FirstBytes(g) /\ s \o o = out \o NextBytes(g, n)

\* Then everything given is on the wire or left.
LEMMA Ordered ==
  ASSUME NEW w, NEW out, NEW s, NEW o, NEW g, NEW n, NEW all, Account(w, out, s, o, g, n, all)
  PROVE  (w \o s) \o o = FirstBytes(all)
<1>0. g \in Nat /\ n \in Nat /\ g + n <= MaxGiven /\ all = g + n
  BY DEF Account
<1>1. w \in Seq(Byte) /\ out \in Seq(Byte) /\ s \in Seq(Byte) /\ o \in Seq(Byte)
  BY DEF Account
<1>2. w \o out = FirstBytes(g) /\ s \o o = out \o NextBytes(g, n)
  BY DEF Account
<1>3. NextBytes(g, n) \in Seq(Byte) /\ FirstBytes(g) \o NextBytes(g, n) = FirstBytes(all)
  BY <1>0, CountOn DEF FirstBytes, NextBytes
<1> HIDE ConnectionAssumption
<1>4. (w \o s) \o o = w \o (s \o o)
  BY <1>1, Regroup
<1>5. (w \o out) \o NextBytes(g, n) = w \o (out \o NextBytes(g, n))
  BY <1>1, <1>3, Regroup
<1> QED
  BY <1>2, <1>3, <1>4, <1>5

\* p sends s, is given n bytes and keeps all that was not sent.
Balance(p, s, n) ==
  /\ stream[p].given + n <= MaxGiven
  /\ s \o proc'[p].out = proc[p].out \o NextBytes(stream[p].given, n)

\* n bytes were given and s went out: what was sent and what is buffered now
\* is what was sent and buffered before, and the new bytes.
LEMMA CarriedKeeps ==
  ASSUME Types, Good, NEW p \in Procs, NEW n \in Nat, NEW s \in Seq(Byte),
         proc'[p].out \in Seq(Byte), proc'[p].wr \in BOOLEAN, proc'[p].st = proc[p].st,
         stream' = Carried(p, s, n), Balance(p, s, n)
  PROVE  /\ stream' \in [Procs -> StreamRec]
         /\ \A x \in Procs \ {p} : stream'[x] = stream[x]
         /\ stream'[p].stale = (stream[p].stale /\ proc'[p].wr)
         /\ InOrderOf(p)'
<1> DEFINE w == IF stream[p].torn THEN stream[p].wire ELSE stream[p].wire \o s
           r == [stream[p] EXCEPT !.wire = w, !.given = stream[p].given + n,
                                  !.stale = stream[p].stale /\ proc'[p].wr]
<1>1. /\ stream[p] \in StreamRec /\ stream[p].given \in Nat /\ stream[p].wire \in Seq(Byte)
      /\ proc[p].out \in Seq(Byte)
  BY Bounds DEF Types, StreamRec, ProcRec
<1>2. w \in Seq(Byte)
  BY <1>1, Joined
<1>3. stream' = [stream EXCEPT ![p] = r]
  BY DEF Carried
<1> HIDE DEF w
<1>6. /\ r \in StreamRec /\ r.wire = w /\ r.given = stream[p].given + n /\ r.torn = stream[p].torn
      /\ r.stale = (stream[p].stale /\ proc'[p].wr)
  <2> DEFINE g == stream[p].given + n
             t == stream[p].stale /\ proc'[p].wr
  <2>1. g \in 0..MaxGiven /\ t \in BOOLEAN
    BY <1>1, Bounds DEF Balance
  <2> HIDE DEF g, t
  <2>2. LET q == [stream[p] EXCEPT !.wire = w, !.given = g, !.stale = t] IN
        q \in StreamRec /\ q.wire = w /\ q.given = g /\ q.torn = stream[p].torn /\ q.stale = t
    BY <1>1, <1>2, <2>1 DEF StreamRec
  <2> QED
    BY <2>2 DEF g, t
<1> HIDE DEF r
<1>7. /\ stream' \in [Procs -> StreamRec] /\ stream'[p] = r
      /\ \A x \in Procs \ {p} : stream'[x] = stream[x]
  BY <1>3, <1>6 DEF Types
<1>8. InOrderOf(p)'
  <2>1. SUFFICES ASSUME proc[p].st = "CONNECTED", ~stream[p].torn
                 PROVE  w \o proc'[p].out = FirstBytes(r.given)
    BY <1>6, <1>7 DEF InOrderOf, FirstBytes
  <2>2. stream[p].wire \o proc[p].out = FirstBytes(stream[p].given)
    BY <2>1 DEF Good, InOrder, InOrderOf, FirstBytes
  <2>3. w = stream[p].wire \o s
    BY <2>1 DEF w
  <2>4. Account(stream[p].wire, proc[p].out, s, proc'[p].out, stream[p].given, n, r.given)
    BY <1>1, <1>6, <2>2 DEF Account, Balance
  <2>5. (stream[p].wire \o s) \o proc'[p].out = FirstBytes(r.given)
    <3> HIDE ConnectionAssumption
    <3>1. PICK a, c, d, g, m : /\ a = stream[p].wire /\ c = proc'[p].out /\ d = proc[p].out
                               /\ g = stream[p].given /\ m = r.given
      OBVIOUS
    <3>2. Account(a, d, s, c, g, n, m)
      BY <2>4, <3>1
    <3>3. (a \o s) \o c = FirstBytes(m)
      <4> HIDE <3>1
      <4> QED
        BY <3>2, Ordered
    <3> QED
      BY <3>1, <3>3
  <2> QED
    BY <2>3, <2>5
<1> QED
  BY <1>6, <1>7, <1>8

\* epoll watches what is_write_ says: it did before, or it is told so.
Rearmed(p, o, b) ==
  /\ proc' = [proc EXCEPT ![p].out = o, ![p].wr = b]
  /\ o # <<>> => b
  /\ (hand' = hand /\ b = proc[p].wr) \/ hand' = Watch(proc[p].io, b)

\* Everything but Where after p has sent and kept o.
LEMMA SentKeeps ==
  ASSUME Types, Good, NEW p \in Procs, proc[p].st # "none", proc[p].io \in Handlers,
         NEW o \in Seq(Byte), Len(o) <= SendBuffer, NEW b \in BOOLEAN,
         NEW n \in Nat, NEW s \in Seq(Byte),
         Rearmed(p, o, b), stream' = Carried(p, s, n), Balance(p, s, n),
         UNCHANGED <<open, attached, cmds, query, closed, fault>>,
         cur' \in CurRec, pc' \in Outside \cup Inside
  PROVE  /\ Types' /\ Gone' /\ Pairs' /\ Timed' /\ Owned' /\ InOrder' /\ Armed'
         /\ \A g \in Handlers : hand'[g].ty = hand[g].ty
<1>1. /\ proc \in [Procs -> ProcRec] /\ hand \in [Handlers -> HandRec]
      /\ \A x \in Procs : Len(proc[x].out) <= SendBuffer
  BY DEF Types
<1>2. /\ proc' \in [Procs -> ProcRec] /\ proc'[p] = [proc[p] EXCEPT !.out = o, !.wr = b]
      /\ \A x \in Procs \ {p} : proc'[x] = proc[x]
  <2>1. [proc[p] EXCEPT !.out = o, !.wr = b] \in ProcRec
    BY <1>1, OutEdits
  <2> QED
    BY <1>1, <2>1 DEF Rearmed
<1>3. /\ proc'[p].out = o /\ proc'[p].wr = b /\ proc'[p].st = proc[p].st
      /\ proc'[p].io = proc[p].io
  BY <1>1, <1>2 DEF ProcRec
<1>4. /\ stream' \in [Procs -> StreamRec]
      /\ \A x \in Procs \ {p} : stream'[x] = stream[x]
      /\ stream'[p].stale = (stream[p].stale /\ proc'[p].wr)
      /\ InOrderOf(p)'
  BY <1>3, CarriedKeeps
<1>5. /\ hand' \in [Handlers -> HandRec]
      /\ \A g \in Handlers : /\ g # proc[p].io => hand'[g] = hand[g]
                             /\ hand'[g].ty = hand[g].ty /\ hand'[g].p = hand[g].p
                             /\ hand'[g].fd = hand[g].fd /\ hand'[g].fl = hand[g].fl
  <2>1. CASE hand' = hand
    BY <1>1, <2>1
  <2>2. CASE hand' = Watch(proc[p].io, b)
    <3>1. PICK ev \in SUBSET {"in", "out"} : hand' = [hand EXCEPT ![proc[p].io].ev = ev]
      BY <2>2 DEF Watch
    <3>2. hand' \in [Handlers -> HandRec]
      BY <1>1, <3>1, HandEdits
    <3>3. /\ hand'[proc[p].io] = [hand[proc[p].io] EXCEPT !.ev = ev]
          /\ \A g \in Handlers \ {proc[p].io} : hand'[g] = hand[g]
      BY <1>1, <3>1
    <3>4. LET h == proc[p].io IN
          /\ hand'[h].ty = hand[h].ty /\ hand'[h].p = hand[h].p
          /\ hand'[h].fd = hand[h].fd /\ hand'[h].fl = hand[h].fl
      BY <1>1, <3>3 DEF HandRec
    <3> QED
      BY <3>2, <3>3, <3>4
  <2> QED
    BY <2>1, <2>2 DEF Rearmed
<1>6. ArmedOf(p)'
  <2>1. ArmedOf(p)
    BY DEF Good, Armed
  <2>2. CASE hand' = hand /\ b = proc[p].wr
    BY <1>3, <1>4, <2>1, <2>2 DEF ArmedOf, Rearmed
  <2>3. CASE hand' = Watch(proc[p].io, b)
    <3>1. b => "out" \in hand'[proc[p].io].ev
      BY <1>1, <2>3 DEF Watch, HandRec
    <3> QED
      BY <1>3, <3>1 DEF ArmedOf, Rearmed
  <2> QED
    BY <2>2, <2>3 DEF Rearmed
<1>7. Types'
  <2>1. \A x \in Procs : Len(proc'[x].out) <= SendBuffer
    BY <1>1, <1>2, <1>3
  <2> QED
    BY <1>2, <1>4, <1>5, <2>1 DEF Types
<1>8. UNCHANGED <<open, attached, cmds>>
  OBVIOUS
<1>9. Gone' /\ Pairs' /\ Timed' /\ Owned' /\ InOrder' /\ Armed'
  BY <1>2, <1>3, <1>4, <1>5, <1>6, <1>7, <1>8, OutputKeeps
<1> QED
  BY <1>5, <1>7, <1>9

\* After a SendMsg that returned false nothing is claimed of the bytes, but
\* what is buffered was buffered before.
LEMMA TornKeeps ==
  ASSUME Types, Good, NEW p \in Procs, proc[p].st # "none", proc[p].io \in Handlers,
         NEW o \in Seq(Byte), Len(o) <= SendBuffer, Len(o) <= Len(proc[p].out),
         proc' = [proc EXCEPT ![p].out = o], stream' = Torn(p),
         UNCHANGED <<hand, open, attached, cmds, query, pc, cur, closed, fault>>
  PROVE  Types' /\ Gone' /\ Pairs' /\ Timed' /\ Owned' /\ InOrder' /\ Armed'
<1>1. /\ proc \in [Procs -> ProcRec] /\ stream \in [Procs -> StreamRec]
      /\ \A x \in Procs : Len(proc[x].out) <= SendBuffer
  BY DEF Types
<1>2. /\ proc' \in [Procs -> ProcRec] /\ proc'[p] = [proc[p] EXCEPT !.out = o]
      /\ \A x \in Procs \ {p} : proc'[x] = proc[x]
  <2>1. [proc[p] EXCEPT !.out = o] \in ProcRec
    BY <1>1, OutEdits
  <2> QED
    BY <1>1, <2>1
<1>3. /\ proc'[p].out = o /\ proc'[p].wr = proc[p].wr /\ proc'[p].st = proc[p].st
      /\ proc'[p].io = proc[p].io
  BY <1>1, <1>2 DEF ProcRec
<1>4. /\ stream' \in [Procs -> StreamRec] /\ stream'[p].torn /\ stream'[p].stale = stream[p].stale
      /\ \A x \in Procs \ {p} : stream'[x] = stream[x]
  <2> DEFINE r == [NewStream EXCEPT !.torn = TRUE, !.stale = stream[p].stale]
  <2>1. r \in StreamRec /\ r.torn /\ r.stale = stream[p].stale
    <3>1. stream[p].stale \in BOOLEAN
      BY <1>1 DEF StreamRec
    <3> QED
      BY <3>1, Blank DEF StreamRec
  <2>2. stream' = [stream EXCEPT ![p] = r]
    BY DEF Torn
  <2> HIDE DEF r
  <2> QED
    BY <1>1, <2>1, <2>2
<1>5. InOrderOf(p)'
  BY <1>4 DEF InOrderOf
<1>6. ArmedOf(p)'
  <2>1. ArmedOf(p) /\ (o # <<>> => proc[p].out # <<>>)
    <3>1. proc[p].out \in Seq(Byte)
      BY <1>1 DEF ProcRec
    <3> QED
      BY <3>1, EmptySeq DEF Good, Armed
  <2> QED
    BY <1>3, <1>4, <2>1 DEF ArmedOf
<1>7. Types'
  <2>1. \A x \in Procs : Len(proc'[x].out) <= SendBuffer
    BY <1>1, <1>2, <1>3
  <2> QED
    BY <1>2, <1>4, <2>1 DEF Types
<1> QED
  BY <1>2, <1>3, <1>4, <1>5, <1>6, <1>7, OutputKeeps

\* What a SendMsg keeps and what it has sent: the end of the buffer and nothing
\* of the new bytes, or nothing of the buffer and the beginning of them.
Pieced(out, new, rest, sent) ==
  /\ out \in Seq(Byte) /\ new \in Seq(Byte) /\ rest \in Seq(Byte) /\ sent \in Seq(Byte)
  /\ Len(rest) <= Len(out) /\ rest = SubSeq(out, Len(out) - Len(rest) + 1, Len(out))
  /\ Len(sent) <= Len(new) /\ sent = SubSeq(new, 1, Len(sent))
  /\ rest = <<>> \/ sent = <<>>

\* What it sends and what it keeps are the buffer and the new bytes.
Whole(out, new, rest, sent) ==
  LET tail == SubSeq(new, Len(sent) + 1, Len(new))
      flushed == SubSeq(out, 1, Len(out) - Len(rest)) IN
  /\ flushed \o sent \in Seq(Byte)
  /\ rest \o tail \in Seq(Byte) /\ Len(rest \o tail) = Len(rest) + Len(tail)
  /\ (flushed \o sent) \o (rest \o tail) = out \o new

\* Nothing is lost, and nothing changes places.
LEMMA Pieces ==
  ASSUME NEW out, NEW new, NEW rest, NEW sent, Pieced(out, new, rest, sent)
  PROVE  Whole(out, new, rest, sent)
<1> DEFINE tail == SubSeq(new, Len(sent) + 1, Len(new))
           k == Len(out) - Len(rest)
           flushed == SubSeq(out, 1, k)
<1>1. out \in Seq(Byte) /\ new \in Seq(Byte) /\ rest \in Seq(Byte) /\ sent \in Seq(Byte)
  BY DEF Pieced
<1>2. k \in 0..Len(out) /\ Len(sent) \in 0..Len(new)
  BY <1>1 DEF Pieced
<1>3. flushed \in Seq(Byte) /\ flushed \o rest = out
  <2>1. rest = SubSeq(out, k + 1, Len(out))
    BY DEF Pieced
  <2> HIDE DEF k
  <2> QED
    BY <1>1, <1>2, <2>1, Cut
<1>4. tail \in Seq(Byte) /\ sent \o tail = new
  BY <1>1, <1>2, Cut DEF Pieced
<1>5. rest = <<>> \/ sent = <<>>
  BY DEF Pieced
<1> HIDE DEF tail, k, flushed
<1> HIDE ConnectionAssumption
<1>6. rest \in Seq(Byte) /\ sent \in Seq(Byte) /\ flushed \in Seq(Byte) /\ tail \in Seq(Byte)
  BY <1>1, <1>3, <1>4
<1>7. /\ flushed \o sent \in Seq(Byte)
      /\ rest \o tail \in Seq(Byte) /\ Len(rest \o tail) = Len(rest) + Len(tail)
  BY <1>1, <1>3, <1>4, Joined
<1>8. (flushed \o sent) \o (rest \o tail) = out \o new
  <2>1. CASE sent = <<>>
    <3>1. flushed \o sent = flushed
      BY <1>3, <2>1, Joined
    <3>2. tail = new
      BY <1>4, <2>1, Joined
    <3>3. flushed \o (rest \o tail) = (flushed \o rest) \o tail
      BY <1>6, Regroup
    <3> QED
      BY <1>3, <3>1, <3>2, <3>3
  <2>2. CASE rest = <<>>
    <3>1. flushed = out
      BY <1>3, <2>2, Joined
    <3>2. rest \o tail = tail
      BY <1>4, <2>2, Joined
    <3>3. (flushed \o sent) \o tail = flushed \o (sent \o tail)
      BY <1>6, Regroup
    <3> QED
      BY <1>4, <3>1, <3>2, <3>3
  <2> QED
    BY <1>5, <2>1, <2>2
<1> QED
  BY <1>7, <1>8 DEF Whole, tail, k, flushed


\* What is left is saved, or there is no room for it.
LEMMA SaveCacheKeeps ==
  ASSUME Types, Good, NEW p \in Procs, proc[p].st # "none", proc[p].io \in Handlers,
         NEW n \in Nat, NEW new, NEW rest, NEW sent,
         new = NextBytes(stream[p].given, n), stream[p].given + n <= MaxGiven,
         Pieced(proc[p].out, new, rest, sent), SaveCache(p, rest, sent, new),
         UNCHANGED <<open, attached, cmds, query, pc, cur, closed, fault>>
  PROVE  /\ Types' /\ Gone' /\ Pairs' /\ Timed' /\ Owned' /\ InOrder' /\ Armed'
         /\ \A g \in Handlers : hand'[g].ty = hand[g].ty
<1> DEFINE tail == SubSeq(new, Len(sent) + 1, Len(new))
           s == SubSeq(proc[p].out, 1, Len(proc[p].out) - Len(rest)) \o sent
           o == rest \o tail
<1>1. /\ Len(proc[p].out) <= SendBuffer /\ stream[p].given \in Nat /\ proc[p].out \in Seq(Byte)
      /\ proc[p].wr \in BOOLEAN
  BY Bounds DEF Types, ProcRec, StreamRec
<1>2. rest \in Seq(Byte) /\ Len(rest) <= Len(proc[p].out)
  BY DEF Pieced
<1>3. s \in Seq(Byte) /\ o \in Seq(Byte) /\ Len(o) = Len(rest) + Len(tail) /\ s \o o = proc[p].out \o new
  <2>1. Whole(proc[p].out, new, rest, sent)
    BY Pieces
  <2> QED
    BY <2>1 DEF Whole
<1>4. Len(new) = n
  BY <1>1, CountOn DEF NextBytes
<1>5. \/ /\ Len(rest) + Len(tail) > SendBuffer
         /\ proc' = [proc EXCEPT ![p].out = rest] /\ stream' = Torn(p) /\ UNCHANGED hand
      \/ /\ ~(Len(rest) + Len(tail) > SendBuffer)
         /\ proc' = [proc EXCEPT ![p].out = o, ![p].wr = TRUE] /\ stream' = Carried(p, s, n)
         /\ hand' = IF proc[p].wr THEN hand ELSE Watch(proc[p].io, TRUE)
  BY <1>4 DEF SaveCache
<1> HIDE DEF tail, s, o
<1>6. CASE proc' = [proc EXCEPT ![p].out = rest] /\ stream' = Torn(p) /\ UNCHANGED hand
  <2>1. Len(rest) <= SendBuffer
    BY <1>1, <1>2, Bounds
  <2>2. UNCHANGED <<hand, open, attached, cmds, query, pc, cur, closed, fault>>
    BY <1>6
  <2> QED
    BY <1>2, <1>6, <2>1, <2>2, TornKeeps
<1>7. CASE /\ ~(Len(rest) + Len(tail) > SendBuffer)
           /\ proc' = [proc EXCEPT ![p].out = o, ![p].wr = TRUE] /\ stream' = Carried(p, s, n)
           /\ hand' = IF proc[p].wr THEN hand ELSE Watch(proc[p].io, TRUE)
  <2>1. Rearmed(p, o, TRUE)
    BY <1>1, <1>7 DEF Rearmed
  <2>2. Balance(p, s, n)
    <3>1. proc'[p].out = o
      BY <1>7 DEF Types, ProcRec
    <3> QED
      BY <1>3, <3>1 DEF Balance
  <2>3. Len(o) <= SendBuffer
    <3>1. Len(o) \in Nat
      BY <1>3
    <3> QED
      BY <1>3, <1>7, <3>1, Bounds
  <2>4. cur' \in CurRec /\ pc' \in Outside \cup Inside
    BY DEF Types
  <2>5. UNCHANGED <<open, attached, cmds, query, closed, fault>>
    OBVIOUS
  <2> QED
    BY <1>3, <1>7, <2>1, <2>2, <2>3, <2>4, <2>5, SentKeeps
<1> QED
  BY <1>5, <1>6, <1>7


\* The descriptor takes k of the buffered bytes and none of the new ones.
LEMMA RestIsPiece ==
  ASSUME NEW out \in Seq(Byte), NEW new \in Seq(Byte), NEW k \in 0..Len(out)
  PROVE  Pieced(out, new, SubSeq(out, k + 1, Len(out)), <<>>)
<1> DEFINE rest == SubSeq(out, k + 1, Len(out))
<1>1. Len(out) \in Nat /\ <<>> \in Seq(Byte) /\ Len(<<>>) = 0
  BY EmptySeq
<1>2. rest \in Seq(Byte) /\ Len(rest) = Len(out) - k
  BY Cut
<1>3. Len(rest) <= Len(out) /\ Len(out) - Len(rest) + 1 = k + 1
  <2> HIDE DEF rest
  <2> QED
    BY <1>1, <1>2
<1>4. rest = SubSeq(out, Len(out) - Len(rest) + 1, Len(out))
  BY <1>3
<1>5. 0 <= Len(new) /\ <<>> = SubSeq(new, 1, 0)
  <2>1. Len(new) \in Nat
    OBVIOUS
  <2>2. 0 \in 0..Len(new)
    BY <2>1
  <2>3. SubSeq(new, 1, 0) \in Seq(Byte) /\ Len(SubSeq(new, 1, 0)) = 0
    BY <2>2, Cut
  <2> QED
    BY <2>1, <2>3, EmptySeq
<1> HIDE DEF rest
<1>6. Pieced(out, new, rest, <<>>)
  BY <1>1, <1>2, <1>3, <1>4, <1>5 DEF Pieced
<1> QED
  BY <1>6 DEF rest

\* It takes all that is buffered and r of the new bytes.
LEMMA SentIsPiece ==
  ASSUME NEW out \in Seq(Byte), NEW new \in Seq(Byte), NEW r \in 0..Len(new)
  PROVE  Pieced(out, new, <<>>, SubSeq(new, 1, r))
<1> DEFINE sent == SubSeq(new, 1, r)
<1>1. Len(out) \in Nat /\ <<>> \in Seq(Byte) /\ Len(<<>>) = 0
  BY EmptySeq
<1>2. sent \in Seq(Byte) /\ Len(sent) = r
  BY Cut
<1>3. <<>> = SubSeq(out, Len(out) + 1, Len(out))
  <2>1. Len(out) \in 0..Len(out) /\ Len(out) - Len(out) = 0
    BY <1>1
  <2>2. SubSeq(out, Len(out) + 1, Len(out)) \in Seq(Byte) /\ Len(SubSeq(out, Len(out) + 1, Len(out))) = 0
    BY <2>1, Cut
  <2> QED
    BY <2>2, EmptySeq
<1>4. Len(sent) <= Len(new) /\ sent = SubSeq(new, 1, Len(sent))
  BY <1>2
<1>5. Len(out) - Len(<<>>) + 1 = Len(out) + 1 /\ Len(<<>>) <= Len(out)
  BY <1>1
<1> HIDE DEF sent
<1>6. Pieced(out, new, <<>>, sent)
  BY <1>1, <1>2, <1>3, <1>4, <1>5 DEF Pieced
<1> QED
  BY <1>6 DEF sent


\* SendMsg and SendToMsg, whatever the descriptor takes.
LEMMA SendStep ==
  ASSUME ConnInv, NEW p \in Procs, NEW n \in Nat, Sender(p), Send(p, n)
  PROVE  ConnInv'
<1> DEFINE out == proc[p].out
           new == NextBytes(stream[p].given, n)
<1>1. /\ Types /\ Good /\ fault = "none" /\ proc[p].st = "CONNECTED"
      /\ stream[p].given + n <= MaxGiven
      /\ UNCHANGED <<open, attached, cmds, query, pc, cur, closed, fault>>
  BY DEF ConnInv, Send, InApp, Sender
<1>2. /\ proc[p].st # "none" /\ proc[p].io \in Handlers
  BY <1>1 DEF Good, Pairs, ProcPaired
<1>3. /\ out \in Seq(Byte) /\ proc[p] \in ProcRec /\ proc[p].wr \in BOOLEAN /\ Len(out) <= SendBuffer
      /\ stream[p].given \in Nat
  BY <1>1, Bounds DEF Types, ProcRec, StreamRec
<1>4. new \in Seq(Byte) /\ Len(new) = n
  BY <1>1, <1>3, CountOn DEF NextBytes
<1> DEFINE Rest == /\ Types' /\ Gone' /\ Pairs' /\ Timed' /\ Owned' /\ InOrder' /\ Armed'
                   /\ \A g \in Handlers : hand'[g].ty = hand[g].ty
           Saved(rest, sent) == SaveCache(p, rest, sent, new)
           AllSent == /\ proc' = [proc EXCEPT ![p].out = <<>>, ![p].wr = FALSE]
                      /\ stream' = Carried(p, out \o new, n)
                      /\ hand' = IF proc[p].wr THEN Watch(proc[p].io, FALSE) ELSE hand
           Failed == stream' = Torn(p) /\ UNCHANGED <<proc, hand>>
<1>5. \/ \E k \in 0..Len(out) : Saved(SubSeq(out, k + 1, Len(out)), <<>>)
      \/ \E r \in 0..n : Saved(<<>>, SubSeq(new, 1, r))
      \/ AllSent
      \/ Failed
  BY DEF Send, NextBytes
<1>6. ASSUME NEW k \in 0..Len(out), Saved(SubSeq(out, k + 1, Len(out)), <<>>) PROVE Rest
  <2>1. Pieced(out, new, SubSeq(out, k + 1, Len(out)), <<>>)
    BY <1>3, <1>4, RestIsPiece
  <2> QED
    BY <1>1, <1>2, <1>6, <2>1, SaveCacheKeeps
<1>7. ASSUME NEW r \in 0..n, Saved(<<>>, SubSeq(new, 1, r)) PROVE Rest
  <2>1. Pieced(out, new, <<>>, SubSeq(new, 1, r))
    BY <1>3, <1>4, SentIsPiece
  <2> QED
    BY <1>1, <1>2, <1>7, <2>1, SaveCacheKeeps
<1>8. ASSUME AllSent PROVE Rest
  <2> DEFINE s == out \o new
  <2>1. PICK o \in Seq(Byte) : o = <<>>
    BY EmptySeq
  <2>2. s \in Seq(Byte) /\ s \o o = s /\ Len(o) <= SendBuffer
    BY <1>3, <1>4, <2>1, Joined, EmptySeq, Bounds
  <2>3. Rearmed(p, o, FALSE)
    BY <1>3, <1>8, <2>1 DEF Rearmed
  <2>4. proc'[p].out = o
    BY <1>1, <1>8, <2>1 DEF Types, ProcRec
  <2>5. Balance(p, s, n)
    BY <1>1, <2>2, <2>4 DEF Balance
  <2>6. cur' \in CurRec /\ pc' \in Outside \cup Inside /\ stream' = Carried(p, s, n)
    BY <1>1, <1>8 DEF Types
  <2>7. UNCHANGED <<open, attached, cmds, query, closed, fault>>
    BY <1>1
  <2> HIDE DEF s
  <2> HIDE <2>1
  <2> QED
    BY <1>1, <1>2, <2>2, <2>3, <2>5, <2>6, <2>7, SentKeeps
<1>9. ASSUME Failed PROVE Rest
  <2>1. PICK o \in Seq(Byte) : o = out
    BY <1>3
  <2>2. proc' = [proc EXCEPT ![p].out = o]
    BY <1>1, <1>9, <2>1 DEF Types, ProcRec
  <2>3. stream' = Torn(p) /\ UNCHANGED <<hand, open, attached, cmds, query, pc, cur, closed, fault>>
    BY <1>1, <1>9
  <2>4. Len(o) <= SendBuffer /\ Len(o) <= Len(proc[p].out)
    BY <1>3, <2>1
  <2>5. Types' /\ Gone' /\ Pairs' /\ Timed' /\ Owned' /\ InOrder' /\ Armed'
    <3> HIDE <2>1
    <3> QED
      BY <1>1, <1>2, <2>2, <2>3, <2>4, TornKeeps
  <2> QED
    BY <2>3, <2>5
<1>10. Rest
  <2> HIDE DEF Rest, Saved, AllSent, Failed
  <2> QED
    BY <1>5, <1>6, <1>7, <1>8, <1>9
<1>11. Where'
  BY <1>1, <1>10, WhereSame DEF Good
<1>12. Blame'
  BY <1>1 DEF Blame
<1> QED
  BY <1>10, <1>11, <1>12 DEF ConnInv, Good


\* A write event sends what it can, or ends the connection.
LEMMA WriteEventStep == ASSUME ConnInv, WriteEvent PROVE ConnInv'
<1>1. PICK p : p = hand[cur.h].p
  OBVIOUS
<1>2. /\ Types /\ Good /\ fault = "none" /\ pc = "flush" /\ pc \in Inside
      /\ cur.h \in Handlers /\ hand[cur.h].ty # "none" /\ IsCarrier(cur.h) /\ cur.h \notin query
  BY KindsDiffer DEF ConnInv, WriteEvent, Good, Where, Inside, IsCarrier
<1>3. p \in Procs /\ proc[p].st # "none" /\ proc[p].io = cur.h /\ proc[p].io \in Handlers
  BY <1>1, <1>2 DEF Good, Pairs, HandlerPaired
<1>4. CASE End
  BY <1>2, <1>4, EndKeeps
<1>5. ASSUME NEW k \in 0..Len(proc[p].out), NEW off \in BOOLEAN, off => k = Len(proc[p].out),
             Flush(p, k, off), pc' = "tail", cur' = [cur EXCEPT !.ev = @ \ {"out"}, !.at = "none"],
             UNCHANGED <<open, attached, cmds, query, closed, fault>>
      PROVE  ConnInv'
  <2>1. /\ proc[p].out \in Seq(Byte) /\ proc[p].wr \in BOOLEAN /\ stream[p].given \in 0..MaxGiven
        /\ Len(proc[p].out) <= SendBuffer /\ (proc[p].out # <<>> => proc[p].wr)
    BY <1>2, <1>3 DEF Types, ProcRec, StreamRec, Good, Armed, ArmedOf
  <2>2. PICK o, s, b : /\ o = SubSeq(proc[p].out, k + 1, Len(proc[p].out))
                       /\ s = SubSeq(proc[p].out, 1, k)
                       /\ b = (proc[p].wr /\ ~off)
    OBVIOUS
  <2>3. /\ o \in Seq(Byte) /\ s \in Seq(Byte) /\ s \o o = proc[p].out
        /\ Len(o) = Len(proc[p].out) - k
    BY <2>1, <2>2, Cut
  <2>4. b \in BOOLEAN
    BY <2>1, <2>2
  <2>5. Len(o) <= SendBuffer /\ (o # <<>> => b)
    <3>1. Len(proc[p].out) \in Nat /\ Len(o) <= SendBuffer
      BY <2>1, <2>3, Bounds
    <3>2. off => o = <<>>
      BY <1>5, <2>1, <2>3, <3>1, EmptySeq
    <3>3. proc[p].out = <<>> => o = <<>>
      BY <1>5, <2>1, <2>3, <3>1, EmptySeq
    <3> QED
      BY <1>5, <2>1, <2>2, <3>1, <3>2, <3>3
  <2>6. /\ proc' = [proc EXCEPT ![p].out = o, ![p].wr = b]
        /\ hand' = IF off THEN Watch(cur.h, FALSE) ELSE hand
        /\ stream' = Carried(p, s, 0)
    BY <1>5, <2>2 DEF Flush
  <2>7. Rearmed(p, o, b)
    BY <1>3, <1>5, <2>1, <2>2, <2>5, <2>6 DEF Rearmed
  <2>8. Balance(p, s, 0)
    <3>1. proc'[p].out = o
      BY <1>2, <1>3, <2>6 DEF Types, ProcRec
    <3>2. NextBytes(stream[p].given, 0) = <<>>
      BY <2>1 DEF NextBytes
    <3>3. stream[p].given + 0 <= MaxGiven
      BY <2>1, Bounds
    <3>4. proc[p].out \o <<>> = proc[p].out
      BY <2>1, Joined
    <3> QED
      BY <2>3, <3>1, <3>2, <3>3, <3>4 DEF Balance
  <2>9. /\ cur' \in CurRec /\ cur'.h = cur.h /\ cur'.at = "none"
        /\ pc' \in Outside \cup Inside /\ pc' \in Inside
    BY <1>2, <1>5 DEF Types, CurRec, Inside
  <2>10. /\ Types' /\ Gone' /\ Pairs' /\ Timed' /\ Owned' /\ InOrder' /\ Armed'
         /\ \A g \in Handlers : hand'[g].ty = hand[g].ty
    <3> HIDE <2>2
    <3>1. 0 \in Nat /\ UNCHANGED <<open, attached, cmds, query, closed, fault>>
      BY <1>5
    <3> QED
      BY <1>2, <1>3, <2>3, <2>4, <2>5, <2>6, <2>7, <2>8, <2>9, <3>1, SentKeeps
  <2>11. Where'
    BY <1>2, <1>5, <2>9, <2>10 DEF Good, Where, IsCarrier, Inside, Outside, Types
  <2>12. Blame'
    BY <1>2, <1>5 DEF Blame
  <2> QED
    BY <2>10, <2>11, <2>12 DEF ConnInv, Good
<1>6. ASSUME NEW k \in 0..Len(proc[p].out), TcpWrite(p, k) \/ UnixWrite(p, k) \/ UdpWrite(p, k) \/ PipeWrite(p, k),
             pc' = "tail", cur' = [cur EXCEPT !.ev = @ \ {"out"}, !.at = "none"],
             UNCHANGED <<open, attached, cmds, query, closed, fault>>
      PROVE  ConnInv'
  <2>1. PICK off \in BOOLEAN : (off => k = Len(proc[p].out)) /\ Flush(p, k, off)
    BY <1>6 DEF TcpWrite, UnixWrite, UdpWrite, PipeWrite
  <2> QED
    BY <1>5, <1>6, <2>1
<1> QED
  BY <1>1, <1>4, <1>6 DEF WriteEvent


------------------------------------------------------------------------------
(* The theorems.                                                           *)

\* A call of the application.
LEMMA AppStep == ASSUME ConnInv, App PROVE ConnInv'
<1>1. ASSUME NEW p \in Procs, NEW n \in 1..MaxMsg, SendMsg(p, n) PROVE ConnInv'
  <2>1. n \in Nat
    BY Bounds
  <2> QED
    BY <1>1, <2>1, SendStep DEF SendMsg
<1>2. ASSUME NEW p \in Procs, SendToMsg(p) PROVE ConnInv'
  <2>1. 1 \in Nat
    OBVIOUS
  <2> QED
    BY <1>2, <2>1, SendStep DEF SendToMsg
<1>3. ASSUME NEW p \in Procs, NEW me \in BOOLEAN, Create(p, me) \/ SetWithMe(p, me) PROVE ConnInv'
  BY <1>3, CreateStep, SetWithMeStep
<1>4. ASSUME NEW p \in Procs, SetEnableWrite(p) \/ Free(p) PROVE ConnInv'
  BY <1>4, SetEnableWriteStep, FreeStep
<1>5. ASSUME NEW p \in Procs, NEW fd \in Fds, TCPTransfer(p, fd) \/ UNIXTransfer(p, fd)
      PROVE  ConnInv'
  BY <1>5, TransferStep DEF TCPTransfer, UNIXTransfer
<1>6. ASSUME NEW p \in Procs, NEW h \in Handlers, NEW fd \in Fds,
             TCPConnect(p, h, fd) \/ UNIXConnect(p, h, fd)
      PROVE  ConnInv'
  <2>1. PICK ty \in Connectors : Offered(ty) /\ Connect(p, ty, h, fd)
    BY <1>6 DEF TCPConnect, UNIXConnect, KindsOf, Offered, Connectors
  <2> QED
    BY <2>1, ConnectStep
<1>7. ASSUME NEW p \in Procs, NEW h \in Handlers, NEW fd \in Fds,
             \/ UDPListenOrConnect(p, h, fd)
             \/ OpenPipeForRead(p, h, fd) \/ OpenPipeForWrite(p, h, fd)
      PROVE  ConnInv'
  <2>1. PICK ty \in {"udp", "pipe"}, out \in SUBSET {"out"} : OpenCarrier(p, ty, h, fd, out)
    BY <1>7 DEF UDPListenOrConnect, OpenPipeForRead, OpenPipeForWrite
  <2> QED
    BY <2>1, OpenCarrierStep
<1> QED
  BY <1>1, <1>2, <1>3, <1>4, <1>5, <1>6, <1>7 DEF App

\* The invariant is inductive.
LEMMA InvStep == ASSUME ConnInv, [Next]_vars PROVE ConnInv'
<1>1. CASE App
  BY <1>1, AppStep
<1>2. CASE EpollWait \/ EndAtOnce \/ Read \/ AskToWrite \/ WriteEvent \/ Tail_
  BY <1>2, EpollWaitStep, EndAtOnceStep, ReadStep, AskToWriteStep, WriteEventStep, TailStep
<1>3. ASSUME NEW h \in Handlers, NEW ev \in SUBSET (hand[h].ev \cup {"err", "hup"}) \ {{}}, OnEvent(h, ev)
      PROVE  ConnInv'
  BY <1>3, OnEventStep
<1>4. ASSUME NEW ok \in BOOLEAN, Return(ok) PROVE ConnInv'
  BY <1>4, ReturnStep
<1>5. CASE Served \/ CmdsDone \/ TimeoutsDone
  BY <1>5, PhaseStep
<1>6. ASSUME NEW fd \in Fds, TCPAccept(fd) \/ UNIXAccept(fd) PROVE ConnInv'
  BY <1>6, ArriveStep DEF TCPAccept, UNIXAccept
<1>7. ASSUME NEW p \in Procs, NEW h \in Handlers, ProcessCmd(p, h) PROVE ConnInv'
  BY <1>7, ProcessCmdStep
<1>8. ASSUME NEW p \in Procs, Timeout(p) PROVE ConnInv'
  BY <1>8, TimeoutStep
<1>9. CASE CloseTimers
  BY <1>9, CloseTimersStep
<1>10. CASE UNCHANGED vars
  <2>1. Types' /\ Blame' /\ fault' = fault
    BY <1>10 DEF ConnInv, Types, Blame, Live, vars
  <2>2. fault = "none" => Gone' /\ Timed' /\ Owned'
    BY <1>10 DEF ConnInv, Good, Gone, Timed, Owned, IsCarrier, vars
  <2>3. fault = "none" => Pairs'
    BY <1>10 DEF ConnInv, Good, Pairs, HandlerPaired, KindKnown, ProcPaired, vars
  <2>4. fault = "none" => Where'
    BY <1>10 DEF ConnInv, Good, Where, IsCarrier, vars
  <2>5. fault = "none" => InOrder' /\ Armed'
    BY <1>10 DEF ConnInv, Good, InOrder, InOrderOf, Armed, ArmedOf, vars
  <2> QED
    BY <2>1, <2>2, <2>3, <2>4, <2>5 DEF ConnInv, Good
<1> QED
  BY <1>1, <1>2, <1>3, <1>4, <1>5, <1>6, <1>7, <1>8, <1>9, <1>10 DEF Next

\* Handlers, processes, descriptors, the timeout manager and the output agree
\* with each other in every state in which no deleted memory was used, and
\* with what Pulse has pointers to (basecarrier, baseconnector, iohandler).
THEOREM ConnInvariant == Spec => []ConnInv
  BY InitInv, InvStep, PTL DEF Spec

\* For any number of connections of every kind: a handler and its process point
\* at each other until both are gone, Pulse points at no deleted handler, and
\* exactly the processes with a carrier can time out, whoever deletes them
\* (EnqueueForDelete, Free, TimeElapsedTimeout, Close).
THEOREM LinksCorrect == Spec => []LinksOK
<1>1. ConnInv => LinksOK
  BY LinksFollow
<1> QED
  BY <1>1, ConnInvariant, PTL

\* No descriptor is leaked or closed twice, also when a connector hands it to a
\* carrier, a command brings it from another worker, or CreateTCPProcess
\* refuses it.
THEOREM DescriptorsOwned == Spec => []FdOwned
<1>1. ConnInv => FdOwned
  BY OwnersFollow
<1> QED
  BY <1>1, ConnInvariant, PTL

\* For every buffer size and however the descriptor takes the bytes, the peer
\* sees what was given to SendMsg, in order and once, and buffered bytes have
\* their write event (SendMsg, SENDMSG_SAVE_CACHE and the carriers' OnEvent).
THEOREM OutputCorrect == Spec => []OutputOK
<1>1. ConnInv => OutputOK
  BY OutputFollows
<1> QED
  BY <1>1, ConnInvariant, PTL

\* Deleted memory is used for no other reason than the ones Blame names: no
\* other sequence of connects, events, commands, timeouts and callbacks leads
\* to it, for any number of connections.
THEOREM BlameCorrect == Spec => []Blame
<1>1. ConnInv => Blame
  BY DEF ConnInv
<1> QED
  BY <1>1, ConnInvariant, PTL


==============================================================================
