----------------------------- MODULE CmdChannel -----------------------------
(***************************************************************************)
(* What a command queue between two NetWorkers promises, whatever list it  *)
(* is built from: commands are delivered in the order they were sent, each *)
(* exactly once, a command has one holder at a time, and the command the   *)
(* receiver is working on is never handed back to the sender.              *)
(*                                                                         *)
(* A command moves  sender -> queue -> current -> retiring -> idle ->      *)
(* sender, and may be disposed of by whoever holds it.                     *)
(***************************************************************************)
EXTENDS Naturals, Sequences

CONSTANTS Node,     \* the command objects
          NULL,     \* no command
          Head0,    \* the placeholder the receiver starts on
          Cycle0    \* the placeholder the free list starts with

VARIABLES held,      \* the command the sender is preparing, or NULL
          queue,     \* the commands sent and not yet received
          current,   \* the command the receiver is working on
          retiring,  \* the previous one, not yet recycled or disposed of, or NULL
          idle       \* the commands the sender may use again

cvars == <<held, queue, current, retiring, idle>>

InQueue(n) == \E i \in 1..Len(queue) : queue[i] = n

\* A command with no holder at all: not allocated.
Unborn(n) == /\ n \notin {held, current, retiring}
             /\ n \notin idle
             /\ ~ InQueue(n)

CInit == /\ held = NULL
         /\ queue = <<>>
         /\ current = Head0
         /\ retiring = NULL
         /\ idle = {Cycle0}

Create(n) == /\ held = NULL
             /\ Unborn(n)
             /\ held' = n
             /\ UNCHANGED <<queue, current, retiring, idle>>

Reuse(n) == /\ held = NULL
            /\ n \in idle
            /\ held' = n
            /\ idle' = idle \ {n}
            /\ UNCHANGED <<queue, current, retiring>>

\* The sender throws away what it took off the free list.
Discard == /\ held # NULL
           /\ held' = NULL
           /\ UNCHANGED <<queue, current, retiring, idle>>

Send == /\ held # NULL
        /\ queue' = Append(queue, held)
        /\ held' = NULL
        /\ UNCHANGED <<current, retiring, idle>>

Receive == /\ queue # <<>>
           /\ retiring = NULL
           /\ current' = Head(queue)
           /\ queue' = Tail(queue)
           /\ retiring' = current
           /\ UNCHANGED <<held, idle>>

Retire == /\ retiring # NULL
          /\ retiring' = NULL
          /\ idle' \in {idle, idle \cup {retiring}}
          /\ UNCHANGED <<held, queue, current>>

\* The queue is torn down: nobody uses it any more.
Teardown == /\ held = NULL
            /\ retiring = NULL
            /\ held' = NULL
            /\ queue' = <<>>
            /\ current' = NULL
            /\ retiring' = NULL
            /\ idle' = {}

CNext == \/ \E n \in Node : Create(n) \/ Reuse(n)
         \/ Discard
         \/ Send
         \/ Receive
         \/ Retire
         \/ Teardown

CSpec == CInit /\ [][CNext]_cvars
=============================================================================
