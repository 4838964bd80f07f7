------------------------------- MODULE Channel ------------------------------
(***************************************************************************)
(* champsim::channel (inc/channel.h, src/channel.cc): the three bounded    *)
(* request queues from an upper to a lower component, and the unbounded    *)
(* queue of responses back.                                                *)
(***************************************************************************)
EXTENDS Naturals, Sequences

EmptyChannel == [RQ |-> << >>, WQ |-> << >>, PQ |-> << >>, returned |-> << >>]

RequestQueues == {"RQ", "WQ", "PQ"}

\* do_add_queue refuses a packet, without side effects, when the queue is full.
HasRoom(queue, size) == Len(queue) < size

Push(channel, q, packet) == [channel EXCEPT ![q] = Append(@, packet)]

Pop(channel, q) == [channel EXCEPT ![q] = Tail(@)]
=============================================================================
