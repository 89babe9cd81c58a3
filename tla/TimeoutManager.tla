---------------------------- MODULE TimeoutManager ----------------------------
(***************************************************************************)
(* The list of the connections of a worker that may time out               *)
(* (src/utils/timersmanager.cpp, TimeoutEvent and TimeoutManager).  It is  *)
(* doubly linked through the events themselves, a connection goes to its   *)
(* end whenever it is heard of, so that only the head is looked at.  The   *)
(* scan calls the application (DoTimeout, and the destructor of what Free  *)
(* deletes), which may attach, update, detach and delete other connections *)
(* while the scan is in the middle of the list.                            *)
(*                                                                         *)
(* list and late are auxiliary: no step reads them.                        *)
(***************************************************************************)
EXTENDS Naturals, Sequences

CONSTANTS Event,      \* the TimeoutEvents: BaseProcess objects
          Null,       \* NULL
          Timeout,    \* timeout_
          MaxClock,   \* bound: the last millisecond
          Tame        \* callbacks leave the event alone that the loop goes on with

ASSUME TimeoutAssumption == /\ Null \notin Event
                            /\ Timeout \in Nat /\ MaxClock \in Nat
                            /\ Tame \in BOOLEAN

VARIABLES m,       \* head_, tail_ and count_, and prev_, next_ and is_add_ of the events
          heart,   \* heart_
          life,    \* an event is not constructed yet, live or freed
          clock,   \* getCurrentGsdmMsec(), taken as monotone
          pc,      \* where TimeElapsedTimeout or the destructor is
          tmp,     \* tmp, the event of the callback
          saved,   \* the destructor's tmp
          now,     \* now
          list,    \* the attached events in the order they time out
          late     \* attached with a heart_ older than the attachment

vars == <<m, heart, life, clock, pc, tmp, saved, now, list, late>>

Init == /\ m = [head |-> Null, tail |-> Null, count |-> 0,
                prev |-> [e \in Event |-> Null], next |-> [e \in Event |-> Null],
                is_add |-> [e \in Event |-> FALSE]]
        /\ heart = [e \in Event |-> 0]
        /\ life = [e \in Event |-> "none"]
        /\ clock = 0 /\ now = 0
        /\ pc = "idle" /\ tmp = Null /\ saved = Null
        /\ list = <<>> /\ late = {}

------------------------------------------------------------------------------
(* The list.                                                               *)

\* AddTimeoutEvent(timer)
AddTo(l, e) ==
  IF l.is_add[e] THEN l
  ELSE LET a == [l EXCEPT !.count = @ + 1, !.is_add[e] = TRUE, !.tail = e]
       IN IF l.head = Null THEN [a EXCEPT !.head = e]
          ELSE [a EXCEPT !.prev[e] = l.tail, !.next[l.tail] = e]

\* Mutant: the tail is not moved back when the last event is removed.
RemoveFrom_KeepsTail(l, e) ==
  IF ~l.is_add[e] THEN l
  ELSE LET p == l.prev[e]
           n == l.next[e]
           r == [l EXCEPT !.count = @ - 1, !.is_add[e] = FALSE]
       IN CASE p # Null /\ n # Null -> [r EXCEPT !.next[p] = n, !.prev[n] = p,
                                                 !.next[e] = Null, !.prev[e] = Null]
            [] p = Null /\ n = Null -> [r EXCEPT !.head = Null, !.tail = Null]
            [] p = Null /\ n # Null -> [r EXCEPT !.prev[n] = Null, !.head = n, !.next[e] = Null]
            [] p # Null /\ n = Null -> [r EXCEPT !.next[p] = Null, !.prev[e] = Null]

\* RemoveTimeoutEvent(timer): an inner event, the only one, the first, the
\* last.
RemoveFrom(l, e) ==
  IF ~l.is_add[e] THEN l
  ELSE LET p == l.prev[e]
           n == l.next[e]
           r == [l EXCEPT !.count = @ - 1, !.is_add[e] = FALSE]
       IN CASE p # Null /\ n # Null -> [r EXCEPT !.next[p] = n, !.prev[n] = p,
                                                 !.next[e] = Null, !.prev[e] = Null]
            [] p = Null /\ n = Null -> [r EXCEPT !.head = Null, !.tail = Null]
            [] p = Null /\ n # Null -> [r EXCEPT !.prev[n] = Null, !.head = n, !.next[e] = Null]
            [] p # Null /\ n = Null -> [r EXCEPT !.next[p] = Null, !.tail = p, !.prev[e] = Null]

\* ReaddTimeoutEvent(timer)
Readd(l, e) == AddTo(RemoveFrom(l, e), e)

\* The list s without e, which is on it once at most.
Drop(s, e) ==
  LET k == CHOOSE i \in 1..Len(s) : s[i] = e
  IN IF \E i \in 1..Len(s) : s[i] = e
     THEN [j \in 1..(Len(s) - 1) |-> IF j < k THEN s[j] ELSE s[j + 1]] ELSE s

Without(e) == Drop(list, e)

------------------------------------------------------------------------------
(* What the application and the connections do, between scans or from a    *)
(* callback of one.                                                        *)

InCallback == pc \in {"timeout", "freeing"}

\* May e be touched now?
Allowed(e) ==
  /\ life[e] = "live"
  /\ \/ pc = "idle"
     \/ InCallback /\ (Tame => e # IF pc = "timeout" THEN m.head ELSE saved)

\* TimeoutEvent(): heart_(getCurrentGsdmMsec())
Construct(e) ==
  /\ pc = "idle" \/ InCallback
  /\ life[e] = "none"
  /\ life' = [life EXCEPT ![e] = "live"]
  /\ heart' = [heart EXCEPT ![e] = clock]
  /\ UNCHANGED <<m, clock, pc, tmp, saved, now, list, late>>

\* AttachNet(): a carrier is made, for an accepted connection at once, for
\* a connector when the peer has answered.
AttachNet(e) ==
  /\ pc \in {"idle", "timeout"}
  /\ life[e] = "live" /\ e # tmp
  /\ ~m.is_add[e]
  /\ m' = AddTo(m, e)
  /\ list' = Append(list, e)
  /\ late' = IF heart[e] < clock THEN late \cup {e} ELSE late
  /\ UNCHANGED <<heart, life, clock, pc, tmp, saved, now>>

\* DetachNet() of a connection whose process stays (SetWithMe(false)).
DetachNet(e) ==
  /\ Allowed(e) /\ e # tmp
  /\ m.is_add[e]
  /\ m' = RemoveFrom(m, e)
  /\ list' = Without(e)
  /\ late' = late \ {e}
  /\ UNCHANGED <<heart, life, clock, pc, tmp, saved, now>>

\* Free(): ~TCPCarrier calls DetachNet(), then the process is deleted.
Free(e) ==
  /\ Allowed(e) /\ e # tmp
  /\ m' = RemoveFrom(m, e)
  /\ list' = Without(e)
  /\ late' = late \ {e}
  /\ life' = [life EXCEPT ![e] = "freed"]
  /\ UNCHANGED <<heart, clock, pc, tmp, saved, now>>

\* Mutant: the event is not moved to the end.
UpdateTimeout_NoReadd(e) ==
  /\ Allowed(e) /\ m.is_add[e]
  /\ heart' = [heart EXCEPT ![e] = clock]
  /\ late' = late \ {e}
  /\ UNCHANGED <<m, life, clock, pc, tmp, saved, now, list>>

\* UpdateTimeout(): manager_ is set, which TimeElapsedTimeout leaves so.
UpdateTimeout(e) ==
  /\ Allowed(e)
  /\ m.is_add[e] \/ (pc = "timeout" /\ e = tmp)
  /\ heart' = [heart EXCEPT ![e] = clock]
  /\ m' = Readd(m, e)
  /\ list' = Append(Without(e), e)
  /\ late' = late \ {e}
  /\ UNCHANGED <<life, clock, pc, tmp, saved, now>>

Tick ==
  /\ clock < MaxClock
  /\ clock' = clock + 1
  /\ UNCHANGED <<m, heart, life, pc, tmp, saved, now, list, late>>

------------------------------------------------------------------------------
(* TimeElapsedTimeout.                                                     *)

ScanStart ==
  /\ pc = "idle"
  /\ now' = clock
  /\ pc' = "scan"
  /\ UNCHANGED <<m, heart, life, clock, tmp, saved, list, late>>

\* Check(now, timeout_)
Check(e) == Timeout + heart[e] >= now

\* head_ has not been heard of: it leaves the list, and DoTimeout() runs.
\* The prev_ of the new head stays.
TimedOut ==
  /\ pc = "scan"
  /\ m.head # Null /\ ~Check(m.head)
  /\ tmp' = m.head
  /\ m' = [m EXCEPT !.head = m.next[m.head], !.is_add[m.head] = FALSE,
                    !.prev[m.head] = Null, !.next[m.head] = Null, !.count = @ - 1]
  /\ list' = Without(m.head)
  /\ late' = late \ {m.head}
  /\ pc' = "timeout"
  /\ UNCHANGED <<heart, life, clock, saved, now>>

\* DoTimeout() is true: tmp->Free().
TimeoutTrue ==
  /\ pc = "timeout"
  /\ m' = RemoveFrom(m, tmp)
  /\ list' = Without(tmp)
  /\ life' = [life EXCEPT ![tmp] = "freed"]
  /\ tmp' = Null
  /\ pc' = "scan"
  /\ UNCHANGED <<heart, clock, saved, now, late>>

\* DoTimeout() is false: tmp->UpdateTimeout().
TimeoutFalse ==
  /\ pc = "timeout"
  /\ heart' = [heart EXCEPT ![tmp] = clock]
  /\ m' = Readd(m, tmp)
  /\ list' = Append(Without(tmp), tmp)
  /\ tmp' = Null
  /\ pc' = "scan"
  /\ UNCHANGED <<life, clock, saved, now, late>>

\* if (!head_) tail_ = NULL; else head_->prev_ = NULL;
ScanEnd ==
  /\ pc = "scan"
  /\ m.head # Null => Check(m.head)
  /\ m' = IF m.head = Null THEN [m EXCEPT !.tail = Null] ELSE [m EXCEPT !.prev[m.head] = Null]
  /\ pc' = "idle"
  /\ UNCHANGED <<heart, life, clock, tmp, saved, now, list, late>>

------------------------------------------------------------------------------
(* ~TimeoutManager, when the worker closes.                                *)

\* tmp = head_->next_; head_->Free(): DetachNet(), then the destructor of
\* the process.
CloseNext ==
  /\ pc \in {"idle", "closing"}
  /\ m.head # Null
  /\ saved' = m.next[m.head]
  /\ tmp' = m.head
  /\ m' = RemoveFrom(m, m.head)
  /\ list' = Without(m.head)
  /\ late' = late \ {m.head}
  /\ pc' = "freeing"
  /\ UNCHANGED <<heart, life, clock, now>>

\* The process is deleted; head_ = tmp;
CloseFreed ==
  /\ pc = "freeing"
  /\ life' = [life EXCEPT ![tmp] = "freed"]
  /\ tmp' = Null
  /\ saved' = Null
  /\ m' = [m EXCEPT !.head = saved]
  /\ pc' = "closing"
  /\ UNCHANGED <<heart, clock, now, list, late>>

CloseEnd ==
  /\ pc \in {"idle", "closing"}
  /\ m.head = Null
  /\ m' = [m EXCEPT !.tail = Null]
  /\ pc' = "closed"
  /\ UNCHANGED <<heart, life, clock, tmp, saved, now, list, late>>

------------------------------------------------------------------------------
Next == \/ \E e \in Event : \/ Construct(e) \/ AttachNet(e) \/ DetachNet(e)
                            \/ Free(e) \/ UpdateTimeout(e)
        \/ Tick
        \/ ScanStart \/ TimedOut \/ TimeoutTrue \/ TimeoutFalse \/ ScanEnd
        \/ CloseNext \/ CloseFreed \/ CloseEnd

Spec == Init /\ [][Next]_vars

------------------------------------------------------------------------------
(* Properties.                                                             *)

EventOrNull == Event \cup {Null}

\* The types of the variables.
TypeOK == /\ m \in [head : EventOrNull, tail : EventOrNull, count : Nat,
                    prev : [Event -> EventOrNull], next : [Event -> EventOrNull],
                    is_add : [Event -> BOOLEAN]]
          /\ heart \in [Event -> 0..MaxClock]
          /\ life \in [Event -> {"none", "live", "freed"}]
          /\ clock \in 0..MaxClock /\ now \in 0..MaxClock
          /\ pc \in {"idle", "scan", "timeout", "closing", "freeing", "closed"}
          /\ tmp \in EventOrNull /\ saved \in EventOrNull
          /\ list \in Seq(Event) /\ late \subseteq Event

\* The pointers spell the list of the attached events, front to back and
\* back to front, and count_ is its length.  The prev_ of the head is only
\* set to NULL when the scan ends (Add, Remove, Readd, TimeElapsedTimeout).
ListOK ==
  /\ m.head = IF list = <<>> THEN Null ELSE list[1]
  /\ list # <<>> => m.tail = list[Len(list)]
  /\ \A i \in 1..Len(list) :
       /\ m.next[list[i]] = IF i < Len(list) THEN list[i + 1] ELSE Null
       /\ i > 1 => m.prev[list[i]] = list[i - 1]
  /\ list # <<>> /\ pc = "idle" => m.prev[list[1]] = Null
  /\ \A e \in Event : m.is_add[e] <=> \E i \in 1..Len(list) : list[i] = e
  /\ m.count = Len(list)

\* No event the list can reach, and not the one the destructor goes on
\* with, has been freed.
NoDangling ==
  /\ \A e \in Event : life[e] # "live" => ~m.is_add[e]
  /\ \A p \in {m.head, saved} \ {Null} : life[p] = "live"
  /\ \A e \in Event : m.is_add[e] /\ m.next[e] # Null => life[m.next[e]] = "live"

\* AddEvent, RemoveEvent, UpdateTimeout, the scan and the destructor, each of
\* which may be called from a process that a timeout frees, leave a list whose
\* links agree and that reaches no connection that is gone.
ScanListOK == TypeOK /\ ListOK /\ NoDangling

\* Looking at the head is enough: when a scan ends, every event that has
\* timed out by then was found, but for those that were attached later than
\* they were heard of (a connector's process: AttachNet leaves heart_).
ScanComplete ==
  [][ScanEnd => \A e \in Event : m.is_add[e] /\ ~Check(e) => e \in late]_vars

\* The events GetNextTimeoutEvent visits from head_ on.
Visited == LET at[n \in 0..Len(list)] ==
                 IF n = 0 THEN m.head
                 ELSE IF at[n - 1] = Null THEN Null ELSE m.next[at[n - 1]]
           IN {at[n] : n \in 0..Len(list)}

\* "default to add that checking timeout" (include/eventdrive/baseprocess.h,
\* on AttachNet): between scans an attached event is on the list the scan
\* looks at.
AttachedChecked == pc = "idle" => \A e \in Event : m.is_add[e] => e \in Visited

==============================================================================
