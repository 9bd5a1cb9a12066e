---------------------------- MODULE MCHttpServer ----------------------------
(* Two connections of any kind, one producer of events, an inbox of two      *)
(* events and an outgoing queue of one, a pool of one thread and one offer   *)
(* at a time.                                                                *)
EXTENDS HttpServer, SequencesExt

(* enqueueAll is the loop of drain_incoming: n calls of enqueue, one after   *)
(* the other, in every state of a session that matters to them.              *)
EnqueueEach(s, n) == FoldLeft(LAMBDA t, i : enqueue(t), s, [i \in 1 .. n |-> i])

ASSUME EnqueueAllIsLoop ==
    \A n \in 0 .. InboxCapacity + 1, waiting \in 0 .. OutgoingCapacity, ongoing \in 0 .. 1 :
    \A busy, ending, over \in BOOLEAN :
       LET s == [NewSession EXCEPT !.outgoing = waiting, !.ops = ongoing, !.writing = busy,
                                   !.stopping = ending, !.closed = over]
       IN  enqueueAll(s, n) = EnqueueEach(s, n)
=============================================================================
