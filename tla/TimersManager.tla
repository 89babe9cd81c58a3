---------------------------- MODULE TimersManager ----------------------------
(***************************************************************************)
(* The periodic timers of a worker (src/utils/timersmanager.cpp,           *)
(* TimersManager) and the wait of its event loop that they bound           *)
(* (IOHandlerManager::Pulse).  slots_ is a multimap ordered by the         *)
(* millisecond a timer is due.  TimeElapsedProcess walks it from the       *)
(* front, calls Process() of what is due, inserts it again a period later  *)
(* and erases the old entry; Process() is application code that may add    *)
(* and remove timers meanwhile, and takes time.                            *)
(*                                                                         *)
(* last is auxiliary: no step reads it.                                    *)
(***************************************************************************)
EXTENDS Naturals, Sequences

CONSTANTS Timer,      \* the TimerEvents
          period,     \* period_
          MaxWait,    \* the longest wait in epoll_wait, 1000 ms
          MaxClock,   \* bound: the last millisecond
          SelfRemove  \* a timer may remove itself in its Process()

ASSUME TimerAssumption == /\ period \in [Timer -> Nat \ {0}]
                          /\ MaxWait \in Nat \ {0} /\ MaxClock \in Nat
                          /\ SelfRemove \in BOOLEAN

VARIABLES slots,    \* slots_: the entries [key, val] in order
          clock,    \* getCurrentGsdmMsec(), taken as monotone
          now,      \* now
          tmPc,     \* where the worker is: in epoll_wait, TimeElapsedProcess, Process()
          cur,      \* the timer whose Process() runs, or what it was
          valid,    \* the iterator i points at an entry of slots_
          eintr,    \* the last epoll_wait was interrupted
          wait,     \* what Pulse returned: the next timeout of epoll_wait
          last      \* the now at which a timer of slots_ last ran

tmVars == <<slots, clock, now, tmPc, cur, valid, eintr, wait, last>>

Never == MaxClock + 1
Forever == MaxClock + MaxWait + 1

Entry(k, t) == [key |-> k, val |-> t]
Has(s, t) == \E i \in 1..Len(s) : s[i].val = t

\* Mutant: in front of the entries whose key is not smaller.
Insert_Front(s, k, t) == SelectSeq(s, LAMBDA e : e.key < k) \o <<Entry(k, t)>>
                           \o SelectSeq(s, LAMBDA e : e.key >= k)

\* The entries of s with a key not greater than k, which are the first ones.
UpperBound(s, k) ==
  CHOOSE p \in 0..Len(s) : /\ \A i \in 1..p : s[i].key <= k
                           /\ \A i \in (p + 1)..Len(s) : s[i].key > k

\* slots_.insert(...): behind the entries whose key is not greater.
Insert(s, k, t) ==
  LET p == UpperBound(s, k)
  IN [j \in 1..(Len(s) + 1) |-> IF j <= p THEN s[j] ELSE IF j = p + 1 THEN Entry(k, t) ELSE s[j - 1]]

\* slots_.erase(i)
Erase(s, i) == [j \in 1..(Len(s) - 1) |-> IF j < i THEN s[j] ELSE s[j + 1]]

\* The entry RemoveTimerEvent stops at: the first one of the timer.
EntryOf(s, t) ==
  CHOOSE i \in 1..Len(s) : s[i].val = t /\ \A j \in 1..(i - 1) : s[j].val # t

TMInit == /\ slots = <<>>
          /\ clock = 0 /\ now = 0
          /\ tmPc = "wait"
          /\ cur \in Timer /\ valid = FALSE
          /\ eintr = FALSE /\ wait = MaxWait
          /\ last = [t \in Timer |-> Never]

------------------------------------------------------------------------------
\* AddTimerEvent: due at once.  The application adds a timer once.
AddTimerEvent(t) ==
  /\ tmPc \in {"wait", "process"}
  /\ ~Has(slots, t) /\ (tmPc = "process" => t # cur)
  /\ slots' = Insert(slots, clock, t)
  /\ UNCHANGED <<clock, now, tmPc, cur, valid, eintr, wait, last>>

\* RemoveTimerEvent erases the entry of the timer; the iterator of
\* TimeElapsedProcess is invalid when that is the one it is at.
RemoveTimerEvent(t) ==
  /\ tmPc \in {"wait", "process"}
  /\ Has(slots, t)
  /\ tmPc = "process" /\ t = cur => SelfRemove
  /\ slots' = Erase(slots, EntryOf(slots, t))
  /\ valid' = (valid /\ t # cur)
  /\ last' = [last EXCEPT ![t] = Never]
  /\ UNCHANGED <<clock, now, tmPc, cur, eintr, wait>>

\* Time passes in epoll_wait, which returns when wait is over at the
\* latest, and in Process().
Tick ==
  /\ tmPc \in {"wait", "process"}
  /\ clock < MaxClock
  /\ clock' = clock + 1
  /\ UNCHANGED <<slots, now, tmPc, cur, valid, eintr, wait, last>>

\* epoll_wait returns or is interrupted, and TimeElapsedProcess begins:
\* uint64_t now = getCurrentGsdmMsec();
TimeElapsed ==
  /\ tmPc = "wait"
  /\ eintr' \in BOOLEAN
  /\ now' = clock
  /\ tmPc' = "loop"
  /\ UNCHANGED <<slots, clock, cur, valid, wait, last>>

\* now >= MAP_KEY(i)
Due(k) == now >= k

\* MAP_VAL(i)->Process(): i is at the first entry, for every earlier one
\* was erased.
Process ==
  /\ tmPc = "loop"
  /\ slots # <<>> /\ Due(slots[1].key)
  /\ cur' = slots[1].val
  /\ valid' = TRUE
  /\ last' = [last EXCEPT ![slots[1].val] = now]
  /\ tmPc' = "process"
  /\ UNCHANGED <<slots, clock, now, eintr, wait>>

\* Mutant: the timer is inserted a period after it was due.
Reinsert_FromKey ==
  /\ tmPc = "process" /\ valid
  /\ slots' = Insert(Tail(slots), slots[1].key + period[cur], cur)
  /\ valid' = FALSE
  /\ tmPc' = "loop"
  /\ UNCHANGED <<clock, now, cur, eintr, wait, last>>

\* slots_.insert(now + period_); slots_.erase(i++);
Reinsert ==
  /\ tmPc = "process" /\ valid
  /\ slots' = Insert(Tail(slots), now + period[cur], cur)
  /\ valid' = FALSE
  /\ tmPc' = "loop"
  /\ UNCHANGED <<clock, now, cur, eintr, wait, last>>

\* Mutant: 1000 is returned whatever is next.
LoopEnd_Default ==
  /\ tmPc = "loop"
  /\ slots # <<>> => ~Due(slots[1].key)
  /\ wait' = MaxWait
  /\ tmPc' = "wait"
  /\ UNCHANGED <<slots, clock, now, cur, valid, eintr, last>>

\* return (uint32_t)(MAP_KEY(i) - now), or 1000 when there is none; Pulse
\* returns 1000 at most.  After an interrupt it returns the delay plus the
\* current time, which epoll_wait takes as an int: any wait, for ever too.
LoopEnd ==
  /\ tmPc = "loop"
  /\ slots # <<>> => ~Due(slots[1].key)
  /\ \/ /\ eintr
        /\ wait' \in (1..MaxWait) \cup {Forever}
     \/ /\ ~eintr /\ slots = <<>>
        /\ wait' = MaxWait
     \/ /\ ~eintr /\ slots # <<>>
        /\ wait' = IF slots[1].key - now > MaxWait THEN MaxWait ELSE slots[1].key - now
  /\ tmPc' = "wait"
  /\ UNCHANGED <<slots, clock, now, cur, valid, eintr, last>>

TMNext == \/ \E t \in Timer : AddTimerEvent(t) \/ RemoveTimerEvent(t)
          \/ Tick \/ TimeElapsed \/ Process \/ Reinsert \/ LoopEnd

TMSpec == TMInit /\ [][TMNext]_tmVars

------------------------------------------------------------------------------
(* Properties.                                                             *)

\* The types of the variables.
TMTypeOK == /\ slots \in Seq([key : Nat, val : Timer])
            /\ clock \in 0..MaxClock /\ now \in 0..clock
            /\ tmPc \in {"wait", "loop", "process"}
            /\ cur \in Timer /\ valid \in BOOLEAN
            /\ eintr \in BOOLEAN /\ wait \in (1..MaxWait) \cup {Forever}
            /\ last \in [Timer -> 0..Never]

\* slots_ is in order and holds a timer once, and the entry whose Process()
\* runs stays the first one, whatever is added and removed meanwhile: the
\* walk skips nothing (TimeElapsedProcess, AddTimerEvent).
SlotsOK ==
  /\ \A i, j \in 1..Len(slots) : i < j => /\ slots[i].key <= slots[j].key
                                          /\ slots[i].val # slots[j].val
  /\ tmPc = "process" /\ valid => slots # <<>> /\ slots[1].val = cur /\ slots[1].key <= now

\* AddTimerEvent and RemoveTimerEvent, called at any moment and also from
\* inside Process(), keep slots_ what the walk of TimeElapsedProcess needs.
SlotsInv == TMTypeOK /\ SlotsOK

\* When the walk is over nothing that was due is left, and the loop waits
\* no longer than until the next timer; it is never told to wait 0 ms, which
\* would end NetWorker::Run (TimeElapsedProcess, Pulse).  EINTR apart.
NotLate ==
  [][LoopEnd /\ ~eintr => /\ wait' > 0
                         /\ \A i \in 1..Len(slots) : slots[i].key >= now + wait']_tmVars

\* Two runs of a timer are a period apart, also after the loop was held up
\* for several periods (TimeElapsedProcess).
Spaced ==
  [][Process => LET t == slots[1].val
                IN last[t] # Never => now >= last[t] + period[t]]_tmVars

==============================================================================
