------------------------------ MODULE CycleList ------------------------------
(***************************************************************************)
(* CycleList<BaseCmd> (include/utils/container.h): the lock-free list      *)
(* through which one thread sends commands to another and gets the used    *)
(* command objects back.  One thread runs GetCycle and Insert (the sender, *)
(* NetWorker::GetCmd and SendCmd), another GetData (the receiver,          *)
(* NetWorker::ProcessCmd), with no lock: every access to memory the other  *)
(* thread may touch is a step of its own.                                  *)
(*                                                                         *)
(* The heap is explicit: "live" is the set of allocated nodes, and "new"   *)
(* may give out again a node that was deleted.                             *)
(*                                                                         *)
(* "chain" and "cycle" are auxiliary: the nodes linked from head_ and from *)
(* cycle_head_ on, in order.  No step reads them.                          *)
(***************************************************************************)
EXTENDS Naturals, Sequences

CONSTANTS Node,     \* the BaseCmd objects
          NULL,     \* the null pointer
          Head0,    \* the first  placeholder SetupQueue allocates
          Cycle0    \* the second placeholder SetupQueue allocates

ASSUME NodeAssumption == /\ NULL \notin Node
                         /\ Head0 \in Node
                         /\ Cycle0 \in Node
                         /\ Head0 # Cycle0

VARIABLES head_, tail_, cycle_head_, cycle_tail_,  \* the members of the list
          next, is_free,    \* the members of every node
          live,             \* the allocated nodes
          spc,              \* where the sender is
          data,             \* the sender's command (tmp in GetCycle, data in Insert)
          sreg,             \* the sender's register: head_ as read by Insert
          rpc,              \* where the receiver is
          tmp,              \* tmp in GetData
          rreg,             \* the receiver's register: cycle_head_ as read by GetData
          phase,            \* "open", then the two loops of the destructor
          chain, cycle      \* auxiliary

listVars == <<head_, tail_, cycle_head_, cycle_tail_>>
nodeVars == <<next, is_free, live>>
sVars == <<spc, data, sreg>>
rVars == <<rpc, tmp, rreg>>
auxVars == <<chain, cycle>>
vars == <<listVars, nodeVars, sVars, rVars, phase, auxVars>>

SenderPc == {"idle", "loop", "advance", "unlink", "check", "new", "fill",
             "readhead", "linkfirst"}
ReceiverPc == {"idle", "read", "unlink", "retire", "readcycle", "linkfirst",
               "advance", "process"}

\* SetupQueue: two placeholders that are deleted when they are first passed.
Init == /\ head_ = Head0 /\ tail_ = NULL
        /\ cycle_head_ = Cycle0 /\ cycle_tail_ = NULL
        /\ next = [n \in Node |-> NULL]
        /\ is_free = [n \in Node |-> TRUE]
        /\ live = {Head0, Cycle0}
        /\ spc = "idle" /\ data = NULL /\ sreg = NULL
        /\ rpc = "idle" /\ tmp = NULL /\ rreg = NULL
        /\ phase = "open"
        /\ chain = <<Head0>> /\ cycle = <<Cycle0>>

------------------------------------------------------------------------------
(* The sender.                                                             *)

\* Mutant: the last node of the free list is given out too.
GetCycleAdvance_TakesLast ==
  /\ phase = "open"
  /\ spc \in {"advance", "new"}
  /\ data' = cycle_head_
  /\ cycle_head_' = next[cycle_head_]
  /\ cycle' = Tail(cycle)
  /\ spc' = "unlink"
  /\ UNCHANGED <<head_, tail_, cycle_tail_, nodeVars, sreg, rVars, phase, chain>>

\* while ( cycle_head_->next ) { T *tmp = cycle_head_;
GetCycleTest ==
  /\ phase = "open"
  /\ spc \in {"idle", "loop"}
  /\ \/ /\ next[cycle_head_] # NULL
        /\ spc' = "advance"
        /\ data' = cycle_head_
     \/ /\ next[cycle_head_] = NULL
        /\ spc' = "new"
        /\ data' = NULL
  /\ UNCHANGED <<listVars, nodeVars, sreg, rVars, phase, auxVars>>

\* cycle_head_ = cycle_head_->next;
GetCycleAdvance ==
  /\ phase = "open"
  /\ spc = "advance"
  /\ cycle_head_' = next[cycle_head_]
  /\ cycle' = Tail(cycle)
  /\ spc' = "unlink"
  /\ UNCHANGED <<head_, tail_, cycle_tail_, nodeVars, data, sreg, rVars, phase, chain>>

\* tmp->next = NULL;
GetCycleUnlink ==
  /\ phase = "open"
  /\ spc = "unlink"
  /\ next' = [next EXCEPT ![data] = NULL]
  /\ spc' = "check"
  /\ UNCHANGED <<listVars, is_free, live, data, sreg, rVars, phase, auxVars>>

\* if ( tmp->is_free ) { delete tmp; continue; }  return tmp;
GetCycleCheck ==
  /\ phase = "open"
  /\ spc = "check"
  /\ \/ /\ is_free[data]
        /\ live' = live \ {data}
        /\ data' = NULL
        /\ spc' = "loop"
     \/ /\ ~ is_free[data]
        /\ spc' = "fill"
        /\ UNCHANGED <<live, data>>
  /\ UNCHANGED <<listVars, next, is_free, sreg, rVars, phase, auxVars>>

\* GetCycle returned NULL: the caller allocates a command.
NewCmd ==
  /\ phase = "open"
  /\ spc = "new"
  /\ \E n \in Node \ live, free \in BOOLEAN :
        /\ live' = live \cup {n}
        /\ next' = [next EXCEPT ![n] = NULL]
        /\ is_free' = [is_free EXCEPT ![n] = free]
        /\ data' = n
  /\ spc' = "fill"
  /\ UNCHANGED <<listVars, sreg, rVars, phase, auxVars>>

\* Mutant: the command is linked after head_ instead of after tail_.
InsertLink_AfterHead ==
  /\ phase = "open"
  /\ spc = "fill"
  /\ tail_ # NULL
  /\ next' = [next EXCEPT ![head_] = data, ![data] = next[head_]]
  /\ tail_' = data
  /\ chain' = Append(chain, data)
  /\ data' = NULL
  /\ spc' = "idle"
  /\ UNCHANGED <<head_, cycle_head_, cycle_tail_, is_free, live, sreg, rVars, phase, cycle>>

\* Mutant: tail_ = data is forgotten.
InsertLink_StaleTail ==
  /\ phase = "open"
  /\ spc = "fill"
  /\ tail_ # NULL
  /\ next' = [next EXCEPT ![tail_] = data]
  /\ chain' = Append(chain, data)
  /\ data' = NULL
  /\ spc' = "idle"
  /\ UNCHANGED <<listVars, is_free, live, sreg, rVars, phase, cycle>>

\* Insert, not the first: tail_->next = data; tail_ = data;
InsertLink ==
  /\ phase = "open"
  /\ spc = "fill"
  /\ tail_ # NULL
  /\ next' = [next EXCEPT ![tail_] = data]
  /\ tail_' = data
  /\ chain' = Append(chain, data)
  /\ data' = NULL
  /\ spc' = "idle"
  /\ UNCHANGED <<head_, cycle_head_, cycle_tail_, is_free, live, sreg, rVars, phase, cycle>>

\* Insert, the first: tail_ = data;
InsertFirst ==
  /\ phase = "open"
  /\ spc = "fill"
  /\ tail_ = NULL
  /\ tail_' = data
  /\ spc' = "readhead"
  /\ UNCHANGED <<head_, cycle_head_, cycle_tail_, nodeVars, data, sreg, rVars, phase, auxVars>>

\* head_->next = tail_;  reads the receiver's head_, then writes the node
InsertReadHead ==
  /\ phase = "open"
  /\ spc = "readhead"
  /\ sreg' = head_
  /\ spc' = "linkfirst"
  /\ UNCHANGED <<listVars, nodeVars, data, rVars, phase, auxVars>>

InsertLinkFirst ==
  /\ phase = "open"
  /\ spc = "linkfirst"
  /\ next' = [next EXCEPT ![sreg] = tail_]
  /\ chain' = Append(chain, data)
  /\ data' = NULL
  /\ sreg' = NULL
  /\ spc' = "idle"
  /\ UNCHANGED <<listVars, is_free, live, rVars, phase, cycle>>

------------------------------------------------------------------------------
(* The receiver.                                                           *)

\* if ( head_->next ) ... else return NULL
GetDataTest ==
  /\ phase = "open"
  /\ rpc = "idle"
  /\ next[head_] # NULL
  /\ rpc' = "read"
  /\ UNCHANGED <<listVars, nodeVars, sVars, tmp, rreg, phase, auxVars>>

\* T *tmp = head_->next;
GetDataRead ==
  /\ phase = "open"
  /\ rpc = "read"
  /\ tmp' = next[head_]
  /\ rpc' = "unlink"
  /\ UNCHANGED <<listVars, nodeVars, sVars, rreg, phase, auxVars>>

\* head_->next = NULL;
GetDataUnlink ==
  /\ phase = "open"
  /\ rpc = "unlink"
  /\ next' = [next EXCEPT ![head_] = NULL]
  /\ chain' = Tail(chain)
  /\ rpc' = "retire"
  /\ UNCHANGED <<listVars, is_free, live, sVars, tmp, rreg, phase, cycle>>

\* if ( head_->is_free ) delete head_;
GetDataDelete ==
  /\ phase = "open"
  /\ rpc = "retire"
  /\ is_free[head_]
  /\ live' = live \ {head_}
  /\ rpc' = "advance"
  /\ UNCHANGED <<listVars, next, is_free, sVars, tmp, rreg, phase, auxVars>>

\* Mutant: the command just received is recycled instead of the previous one.
GetDataRecycle_Current ==
  /\ phase = "open"
  /\ rpc = "retire"
  /\ ~ is_free[head_]
  /\ cycle_tail_ # NULL
  /\ next' = [next EXCEPT ![cycle_tail_] = tmp]
  /\ cycle_tail_' = tmp
  /\ cycle' = Append(cycle, tmp)
  /\ rpc' = "advance"
  /\ UNCHANGED <<head_, tail_, cycle_head_, is_free, live, sVars, tmp, rreg, phase, chain>>

\* cycle_tail_->next = head_; cycle_tail_ = head_;
GetDataRecycle ==
  /\ phase = "open"
  /\ rpc = "retire"
  /\ ~ is_free[head_]
  /\ cycle_tail_ # NULL
  /\ next' = [next EXCEPT ![cycle_tail_] = head_]
  /\ cycle_tail_' = head_
  /\ cycle' = Append(cycle, head_)
  /\ rpc' = "advance"
  /\ UNCHANGED <<head_, tail_, cycle_head_, is_free, live, sVars, tmp, rreg, phase, chain>>

\* cycle_tail_ = head_;
GetDataRecycleFirst ==
  /\ phase = "open"
  /\ rpc = "retire"
  /\ ~ is_free[head_]
  /\ cycle_tail_ = NULL
  /\ cycle_tail_' = head_
  /\ rpc' = "readcycle"
  /\ UNCHANGED <<head_, tail_, cycle_head_, nodeVars, sVars, tmp, rreg, phase, auxVars>>

\* cycle_head_->next = cycle_tail_;  reads the sender's cycle_head_, then writes the node
GetDataReadCycle ==
  /\ phase = "open"
  /\ rpc = "readcycle"
  /\ rreg' = cycle_head_
  /\ rpc' = "linkfirst"
  /\ UNCHANGED <<listVars, nodeVars, sVars, tmp, phase, auxVars>>

GetDataLinkFirst ==
  /\ phase = "open"
  /\ rpc = "linkfirst"
  /\ next' = [next EXCEPT ![rreg] = cycle_tail_]
  /\ cycle' = Append(cycle, head_)
  /\ rreg' = NULL
  /\ rpc' = "advance"
  /\ UNCHANGED <<listVars, is_free, live, sVars, tmp, phase, chain>>

\* head_ = tmp; return tmp;
GetDataAdvance ==
  /\ phase = "open"
  /\ rpc = "advance"
  /\ head_' = tmp
  /\ tmp' = NULL
  /\ rpc' = "process"
  /\ UNCHANGED <<tail_, cycle_head_, cycle_tail_, nodeVars, sVars, rreg, phase, auxVars>>

\* tmp->Process(ex_) returns; the command stays the head of the list.
ProcessDone ==
  /\ phase = "open"
  /\ rpc = "process"
  /\ rpc' = "idle"
  /\ UNCHANGED <<listVars, nodeVars, sVars, tmp, rreg, phase, auxVars>>

------------------------------------------------------------------------------
(* ~CycleList, from ~NetWorker, when both threads have been joined.        *)

Destroy ==
  /\ phase = "open"
  /\ spc = "idle" /\ rpc = "idle"
  /\ phase' = "main"
  /\ UNCHANGED <<listVars, nodeVars, sVars, rVars, auxVars>>

DestroyMain ==
  /\ phase = "main"
  /\ \/ /\ head_ # NULL
        /\ head_' = next[head_]
        /\ live' = live \ {head_}
        /\ chain' = Tail(chain)
        /\ UNCHANGED <<tail_, phase>>
     \/ /\ head_ = NULL
        /\ tail_' = NULL
        /\ phase' = "cycle"
        /\ UNCHANGED <<head_, live, chain>>
  /\ UNCHANGED <<cycle_head_, cycle_tail_, next, is_free, sVars, rVars, cycle>>

DestroyCycle ==
  /\ phase = "cycle"
  /\ \/ /\ cycle_head_ # NULL
        /\ cycle_head_' = next[cycle_head_]
        /\ live' = live \ {cycle_head_}
        /\ cycle' = Tail(cycle)
        /\ UNCHANGED <<cycle_tail_, phase>>
     \/ /\ cycle_head_ = NULL
        /\ cycle_tail_' = NULL
        /\ phase' = "done"
        /\ UNCHANGED <<cycle_head_, live, cycle>>
  /\ UNCHANGED <<head_, tail_, next, is_free, sVars, rVars, chain>>

------------------------------------------------------------------------------
Sender == \/ GetCycleTest \/ GetCycleAdvance \/ GetCycleUnlink \/ GetCycleCheck
          \/ NewCmd
          \/ InsertLink \/ InsertFirst \/ InsertReadHead \/ InsertLinkFirst

Receiver == \/ GetDataTest \/ GetDataRead \/ GetDataUnlink
            \/ GetDataDelete \/ GetDataRecycle
            \/ GetDataRecycleFirst \/ GetDataReadCycle \/ GetDataLinkFirst
            \/ GetDataAdvance \/ ProcessDone

Destructor == Destroy \/ DestroyMain \/ DestroyCycle

Next == Sender \/ Receiver \/ Destructor

Spec == Init /\ [][Next]_vars
------------------------------------------------------------------------------
(* Properties.                                                             *)

Elems(s) == {s[i] : i \in 1..Len(s)}

\* The node the sender holds, taken off the free list or just allocated and
\* not yet linked into the queue.
SenderHolds == IF spc \in {"unlink", "check", "fill", "readhead", "linkfirst"}
               THEN {data} ELSE {}

\* The node GetData has unlinked and not yet deleted or recycled.
ReceiverHolds == IF rpc \in {"retire", "readcycle", "linkfirst"}
                 THEN {head_} ELSE {}

\* The node every next step of the sender and of the receiver dereferences.
SenderDerefs == CASE spc \in {"idle", "loop", "advance"} -> {cycle_head_}
                  [] spc \in {"unlink", "check", "readhead"} -> {data}
                  [] spc = "fill" -> {data} \cup ({tail_} \ {NULL})
                  [] spc = "linkfirst" -> {sreg}
                  [] OTHER -> {}

ReceiverDerefs == CASE rpc \in {"idle", "read", "unlink", "process"} -> {head_}
                    [] rpc = "retire" -> {head_} \cup ({cycle_tail_} \ {NULL})
                    [] rpc = "linkfirst" -> {rreg}
                    [] rpc = "advance" -> {tmp}
                    [] OTHER -> {}

DestructorDerefs == CASE phase = "main" -> {head_} \ {NULL}
                      [] phase = "cycle" -> {cycle_head_} \ {NULL}
                      [] OTHER -> {}

PtrOrNull == Node \cup {NULL}

\* Every pointer is NULL or a node, and both threads are at a statement of theirs.
TypeOK == /\ head_ \in PtrOrNull /\ tail_ \in PtrOrNull
          /\ cycle_head_ \in PtrOrNull /\ cycle_tail_ \in PtrOrNull
          /\ next \in [Node -> PtrOrNull]
          /\ is_free \in [Node -> BOOLEAN]
          /\ live \in SUBSET Node
          /\ spc \in SenderPc /\ data \in PtrOrNull /\ sreg \in PtrOrNull
          /\ rpc \in ReceiverPc /\ tmp \in PtrOrNull /\ rreg \in PtrOrNull
          /\ phase \in {"open", "main", "cycle", "done"}
          /\ chain \in Seq(Node) /\ cycle \in Seq(Node)

\* Memory safety (container.h deletes nodes in GetData, in GetCycle and in the
\* destructor while the other side holds pointers into the same lists): no
\* thread is ever about to dereference or delete a node that is not allocated.
NoUseAfterFree == /\ phase = "open" => SenderDerefs \cup ReceiverDerefs \subseteq live
                  /\ DestructorDerefs \subseteq live

\* The command a worker fills in (GetCmd ... SendCmd) is its own: it is not the
\* one the receiver is working on (head_, and tmp inside GetData), nor one
\* still queued or still on the free list.
ExclusiveCmd == spc \in {"check", "fill", "readhead", "linkfirst"}
                  => data \notin ReceiverHolds \cup ReceiverDerefs
                                   \cup Elems(chain) \cup Elems(cycle)

\* Every allocated node is on exactly one of the two lists or in the hands of
\* exactly one thread, so none is leaked and none is reachable twice; the
\* destructor therefore deletes each exactly once and leaves nothing behind.
NoLeak == /\ phase # "done" => live = Elems(chain) \cup Elems(cycle) \cup
                                       SenderHolds \cup ReceiverHolds
          /\ phase = "done" => live = {}

\* s is a list in memory nx: nx leads from each of its nodes to the one after it
\* and from the last nowhere, and no node occurs twice.
Linked(nx, s) == /\ \A i \in 1..Len(s) : nx[s[i]] = IF i < Len(s) THEN s[i + 1] ELSE NULL
                 /\ \A i, j \in 1..Len(s) : s[i] = s[j] => i = j

\* Where the queue begins: at tmp while GetData has cut head_ off.
ChainHead == IF rpc \in {"retire", "readcycle", "linkfirst", "advance"} THEN tmp ELSE head_

Disjoint(S, T) == \A n \in S : n \notin T

WellLinked == /\ Linked(next, chain)
              /\ Linked(next, cycle)
              /\ Disjoint(Elems(chain), Elems(cycle))

\* head_, tail_, cycle_head_ and cycle_tail_ point to the ends of the lists.
Ends == /\ IF chain = <<>> THEN head_ = NULL ELSE chain[1] = ChainHead
        /\ IF cycle = <<>> THEN cycle_head_ = NULL ELSE cycle[1] = cycle_head_
        /\ phase = "open" =>
             /\ chain # <<>> /\ cycle # <<>>
             /\ tail_ = NULL \/ spc \in {"readhead", "linkfirst"}
                  => Len(chain) = 1 /\ rpc = "idle"
             /\ tail_ # NULL /\ spc \notin {"readhead", "linkfirst"}
                  => tail_ = chain[Len(chain)]
             /\ cycle_tail_ = NULL \/ rpc \in {"readcycle", "linkfirst"}
                  => Len(cycle) = 1
             /\ cycle_tail_ # NULL /\ rpc \notin {"readcycle", "linkfirst"}
                  => cycle_tail_ = cycle[Len(cycle)]

\* What a thread holds is on no list and is not held by the other thread.
Ownership == /\ Disjoint(SenderHolds, Elems(chain) \cup Elems(cycle) \cup ReceiverHolds)
             /\ Disjoint(ReceiverHolds, Elems(chain) \cup Elems(cycle))
             /\ \A n \in SenderHolds \cup ReceiverHolds : n \in Node

\* What the sender knows between two of its steps.
SenderView == /\ spc = "advance" => Len(cycle) > 1 /\ data = cycle_head_
              /\ spc \in {"check", "fill", "readhead", "linkfirst"} => next[data] = NULL
              /\ spc \in {"readhead", "linkfirst"} => tail_ = data
              /\ spc = "linkfirst" => sreg = head_

\* What the receiver knows between two of its steps.
ReceiverView == /\ rpc \in {"read", "unlink"} => Len(chain) > 1
                /\ rpc = "unlink" => tmp = chain[2]
                /\ rpc \in {"retire", "readcycle", "linkfirst"} => next[head_] = NULL
                /\ rpc \in {"readcycle", "linkfirst"} => cycle_tail_ = head_
                /\ rpc = "linkfirst" => rreg = cycle_head_

Closing == /\ phase # "open" => spc = "idle" /\ rpc = "idle"
           /\ phase \in {"cycle", "done"} => chain = <<>>
           /\ phase = "done" => cycle = <<>>

\* The inductive invariant: whatever the interleaving of GetCycle, Insert and
\* GetData, the pointers form two disjoint lists with tail_ and cycle_tail_ at
\* their ends, and each thread's view of them survives the other's steps.
ListInv == WellLinked /\ Ends /\ Ownership /\ SenderView /\ ReceiverView /\ Closing

------------------------------------------------------------------------------
(* The list implements the channel it stands for.                          *)

\* The refinement mapping.
ChHeld == IF SenderHolds = {} THEN NULL ELSE data
ChQueue == IF phase = "open" THEN Tail(chain) ELSE <<>>
ChCurrent == IF phase = "open" THEN ChainHead ELSE NULL
ChRetiring == IF ReceiverHolds = {} THEN NULL ELSE head_
ChIdle == IF phase = "open" THEN Elems(cycle) ELSE {}

Channel == INSTANCE CmdChannel WITH
  held <- ChHeld, queue <- ChQueue, current <- ChCurrent,
  retiring <- ChRetiring, idle <- ChIdle

\* CycleList implements CmdChannel: first in, first out, exactly once, one
\* holder per command (GetData, Insert and GetCycle together).
ImplementsChannel == Channel!CSpec
==============================================================================
