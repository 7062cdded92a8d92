------------------------------ MODULE ObeQueue ------------------------------
(***************************************************************************)
(* The thread queues of OBE (common/queue.c): an unbounded FIFO with one   *)
(* mutex and two condition variables.  in_cv is signalled when an item is  *)
(* added, out_cv when one is removed.                                      *)
(*                                                                         *)
(* Every function of queue.c holds the mutex from its first to its last    *)
(* line, so it is one atomic step: an operator from the queue before to    *)
(* the set of queues there may be after.  There is more than one because   *)
(* pthread_cond_signal wakes any one of the threads asleep on the          *)
(* condition variable.  A thread is asleep when it is in the wait set; a   *)
(* woken thread is no longer in it and evaluates its predicate again.      *)
(***************************************************************************)
EXTENDS Naturals, Sequences, SequencesExt

(* A queue of items with the threads asleep on its condition variables.    *)
Queue(Item, Thread) ==
  [items : Seq(Item), in : SUBSET Thread, out : SUBSET Thread]

EmptyQueue == [items |-> <<>>, in |-> {}, out |-> {}]

(* pthread_cond_signal: one waiter, if there is any, is woken.             *)
WakeOne(waiters) ==
  IF waiters = {} THEN {{}} ELSE {waiters \ {t} : t \in waiters}

(* add_to_queue *)
AddToQueue(q, item) ==
  {[q EXCEPT !.items = Append(@, item), !.in = w] : w \in WakeOne(q.in)}

(* remove_from_queue: the caller knows that there is a head.               *)
RemoveFromQueue(q) ==
  {[q EXCEPT !.items = Tail(@), !.out = w] : w \in WakeOne(q.out)}

(* remove_item_from_queue: the first match goes, out_cv is signalled even  *)
(* when there is none.                                                     *)
RemoveItem(q, item) ==
  {[q EXCEPT !.items = RemoveFirst(@, item), !.out = w] : w \in WakeOne(q.out)}

(* How other code uses the condition variables of a queue, with its mutex  *)
(* held.                                                                   *)
SignalIn(q) == {[q EXCEPT !.in = w] : w \in WakeOne(q.in)}
BroadcastIn(q) == [q EXCEPT !.in = {}]
SleepIn(q, t) == [q EXCEPT !.in = @ \cup {t}]
SleepOut(q, t) == [q EXCEPT !.out = @ \cup {t}]
=============================================================================
