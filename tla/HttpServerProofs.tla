-------------------------- MODULE HttpServerProofs --------------------------
(* Proofs about HttpServer for every set of connections and publishers, all  *)
(* capacities of the session queues, and every pool size and offer limit.    *)
EXTENDS HttpServer, FiniteSetTheorems, TLAPS

SessionType ==
    [inbox : Nat, scheduled : BOOLEAN, drains : Nat, outgoing : Nat, writing : BOOLEAN,
     ops : Nat, timer : {"off", "armed", "due"}, subscribed : BOOLEAN,
     registered : BOOLEAN, stopping : BOOLEAN, closing : BOOLEAN, closed : BOOLEAN]

(* SingleWriter is not inductive: writing_ and closing_ are what keeps a     *)
(* second operation from starting, so while a session is open they have to   *)
(* tell exactly whether one is in progress.  A failed write leaves writing_  *)
(* set, and then closed_ keeps the rest out.  Output waits only for a write, *)
(* and the close handshake begins only once stop was called.                 *)
WriterOK(s) ==
    /\ s.ops <= 1
    /\ ~s.closed => /\ s.ops = IF s.writing \/ s.closing THEN 1 ELSE 0
                    /\ ~(s.writing /\ s.closing)
                    /\ s.closing => s.stopping
                    /\ s.outgoing > 0 => s.writing \/ s.stopping

(* An inbox with events has drain_scheduled_ set. *)
SessionOK(s) == s \in SessionType /\ WriterOK(s) /\ (s.inbox > 0 => s.scheduled)

(* A drain that is scheduled is posted, or a publisher is about to post it.  *)
(* A publisher posts for one session at a time.                              *)
DrainInv ==
    /\ io \in {"running", "stopped", "gone"}
    /\ pub \in [Publishers -> [left : SUBSET Conns, hand : SUBSET Conns]]
    /\ \A p \in Publishers : \A c, d \in pub[p].hand : c = d
    /\ io = "running" =>
          \A c \in Conns : ws[c].scheduled =>
              ws[c].drains > 0 \/ \E p \in Publishers : c \in pub[p].hand

SessionsInv == ws \in [Conns -> SessionType] /\ \A c \in Conns : SessionOK(ws[c])

(* A session of the manager belongs to an offer that was answered with 201   *)
(* and whose write has not failed, and there is none once stop has begun.    *)
PeerInv ==
    /\ conn \in [Conns -> {"none", "reading", "closed", "writing", "accepting", "job",
                           "routing", "routed", "answer", "failed", "ws"}]
    /\ response \in [Conns -> {"created", "other"}]
    /\ peers \in SUBSET Conns
    /\ \A c \in peers : /\ response[c] = "created"
                        /\ conn[c] \in {"routed", "answer", "writing", "closed"}
    /\ owner # "up" => shut
    /\ shut => peers = {}

(* signaling_jobs counts the offers that a pool thread has or will have, and *)
(* dispatch_whep never lets it pass its limit.                               *)
JobsBounded == /\ jobs = Cardinality(In({"job", "routing", "routed"}))
               /\ jobs <= SignalingLimit
-----------------------------------------------------------------------------
(* What a handler other than the drain leaves alone. *)
SameInbox(s, t) == t.inbox = s.inbox /\ t.scheduled = s.scheduled /\ t.drains = s.drains

(* write_next on a session with no operation in progress starts one write. *)
LEMMA WriteNextOK ==
    ASSUME NEW s \in SessionType, s.ops = 0, ~s.writing, s.closed \/ ~s.closing,
           s.inbox > 0 => s.scheduled
    PROVE  SessionOK(write_next(s)) /\ SameInbox(s, write_next(s))
  <1>1. CASE s.outgoing = 0
    BY <1>1 DEF write_next, SessionOK, WriterOK, SameInbox, SessionType
  <1>2. CASE s.outgoing # 0
    <2> DEFINE n == s.outgoing - 1
               t == write_next(s)
    <2>1. n \in Nat /\ 1 \in Nat /\ s.ops + 1 = 1
      BY <1>2 DEF SessionType
    <2>2. t = [s EXCEPT !.outgoing = n, !.writing = TRUE, !.ops = 1]
      BY <1>2, <2>1 DEF write_next, SessionType
    <2> HIDE DEF n, t
    <2>3. t \in SessionType
      BY <2>1, <2>2, Zenon DEF SessionType
    <2>4. /\ t.ops = 1 /\ t.writing /\ t.outgoing = n /\ t.closing = s.closing
          /\ t.closed = s.closed /\ t.stopping = s.stopping /\ SameInbox(s, t)
      BY <2>2 DEF SessionType, SameInbox
    <2> QED
      BY <2>3, <2>4 DEF SessionOK, WriterOK, SameInbox, t, SessionType
  <1> QED
    BY <1>1, <1>2

(* enqueue: a full queue drops, an idle session writes at once. *)
LEMMA EnqueueOK ==
    ASSUME NEW s, SessionOK(s)
    PROVE  /\ SessionOK(enqueue(s)) /\ SameInbox(s, enqueue(s))
           /\ s.closed \/ s.stopping \/ enqueue(s).writing
  <1> DEFINE k == Least(s.outgoing + 1, OutgoingCapacity)
             g == [s EXCEPT !.outgoing = k]
  <1>1. s \in SessionType /\ WriterOK(s) /\ (s.inbox > 0 => s.scheduled)
    BY DEF SessionOK
  <1>2. k \in Nat /\ k > 0
    BY <1>1, CapacityAssumption DEF Least, SessionType
  <1>3. enqueue(s) = IF s.closed \/ s.stopping THEN s
                     ELSE IF s.writing THEN g ELSE write_next(g)
    BY DEF enqueue
  <1> HIDE DEF k
  <1>4. /\ g \in SessionType /\ g.outgoing = k /\ g.ops = s.ops /\ g.writing = s.writing
        /\ g.closing = s.closing /\ g.closed = s.closed /\ g.stopping = s.stopping
        /\ SameInbox(s, g)
    BY <1>1, <1>2 DEF SessionType, SameInbox
  <1> HIDE DEF g
  <1>5. CASE s.closed \/ s.stopping
    BY <1>3, <1>5 DEF SameInbox
  <1>6. CASE ~(s.closed \/ s.stopping) /\ s.writing
    BY <1>1, <1>3, <1>4, <1>6 DEF SessionOK, WriterOK, SameInbox, SessionType
  <1>7. CASE ~(s.closed \/ s.stopping) /\ ~s.writing
    <2>1. g.ops = 0 /\ ~g.writing /\ ~g.closing /\ (g.inbox > 0 => g.scheduled)
      BY <1>1, <1>4, <1>7 DEF WriterOK, SessionType, SameInbox
    <2>2. SessionOK(write_next(g)) /\ SameInbox(g, write_next(g))
      BY <1>4, <2>1, WriteNextOK
    <2>3. write_next(g).writing
      BY <1>2, <1>4 DEF write_next, SessionType
    <2> QED
      BY <1>3, <1>4, <1>7, <2>2, <2>3 DEF SameInbox
  <1> QED
    BY <1>5, <1>6, <1>7

(* The loop of drain_incoming. *)
LEMMA EnqueueAllOK ==
    ASSUME NEW s, NEW n \in Nat, SessionOK(s)
    PROVE  SessionOK(enqueueAll(s, n)) /\ SameInbox(s, enqueueAll(s, n))
  <1>1. CASE n = 0 \/ s.closed \/ s.stopping
    BY <1>1 DEF enqueueAll, SameInbox
  <1>2. CASE ~(n = 0 \/ s.closed \/ s.stopping)
    <2> DEFINE e == enqueue(s)
               k == Least(e.outgoing + n - 1, OutgoingCapacity)
               t == [e EXCEPT !.outgoing = k]
    <2>1. SessionOK(e) /\ SameInbox(s, e) /\ e.writing
      BY <1>2, EnqueueOK
    <2>2. enqueueAll(s, n) = t
      BY <1>2 DEF enqueueAll
    <2> HIDE DEF e
    <2>3. k \in Nat
      BY <1>2, <2>1, CapacityAssumption DEF Least, SessionOK, SessionType
    <2> HIDE DEF k
    <2>4. /\ t \in SessionType /\ t.outgoing = k /\ t.ops = e.ops /\ t.writing = e.writing
          /\ t.closing = e.closing /\ t.closed = e.closed /\ t.stopping = e.stopping
          /\ SameInbox(e, t)
      BY <2>1, <2>3 DEF SessionOK, SessionType, SameInbox
    <2> HIDE DEF t
    <2> QED
      BY <2>1, <2>2, <2>4 DEF SessionOK, WriterOK, SameInbox
  <1> QED
    BY <1>1, <1>2

(* cleanup closes the session for good. *)
LEMMA CleanupOK ==
    ASSUME NEW s \in SessionType, s.ops <= 1, s.inbox > 0 => s.scheduled
    PROVE  SessionOK(cleanup(s)) /\ SameInbox(s, cleanup(s))
  <1>1. cancel(s.timer) \in {"off", "armed", "due"}
    BY DEF cancel, SessionType
  <1>2. cleanup(s) \in SessionType
    BY <1>1, Zenon DEF cleanup, SessionType
  <1>3. cleanup(s).closed /\ cleanup(s).ops = s.ops /\ SameInbox(s, cleanup(s))
    BY DEF cleanup, SessionType, SameInbox
  <1> QED
    BY <1>2, <1>3 DEF SessionOK, WriterOK, SameInbox

(* begin_close on a session with no operation in progress. *)
LEMMA BeginCloseOK ==
    ASSUME NEW s \in SessionType, s.ops = 0, ~s.writing, s.closed \/ ~s.closing, s.stopping,
           s.inbox > 0 => s.scheduled
    PROVE  SessionOK(begin_close(s)) /\ SameInbox(s, begin_close(s))
  <1>1. CASE s.closed
    BY <1>1 DEF begin_close, SessionOK, WriterOK, SameInbox, SessionType
  <1>2. CASE ~s.closed
    <2> DEFINE t == begin_close(s)
    <2>1. t = [s EXCEPT !.closing = TRUE, !.ops = 1]
      BY <1>2 DEF begin_close, SessionType
    <2> HIDE DEF t
    <2>2. /\ t \in SessionType /\ t.ops = 1 /\ t.closing /\ t.writing = s.writing
          /\ t.stopping = s.stopping /\ t.closed = s.closed /\ SameInbox(s, t)
      BY <2>1 DEF SessionType, SameInbox
    <2> QED
      BY <2>2 DEF SessionOK, WriterOK, SameInbox, t
  <1> QED
    BY <1>1, <1>2

(* The status timer and the registrations have no part in SessionOK. *)
LEMMA TimerOK ==
    ASSUME NEW s, SessionOK(s), NEW x \in {"off", "armed", "due"}
    PROVE  /\ SessionOK([s EXCEPT !.timer = x]) /\ SameInbox(s, [s EXCEPT !.timer = x])
           /\ SessionOK([s EXCEPT !.subscribed = TRUE, !.registered = TRUE])
           /\ SameInbox(s, [s EXCEPT !.subscribed = TRUE, !.registered = TRUE])
           /\ SessionOK([s EXCEPT !.subscribed = FALSE, !.drains = 0])
  <1>1. s \in SessionType
    BY DEF SessionOK
  <1>2. /\ [s EXCEPT !.timer = x] \in SessionType
        /\ [s EXCEPT !.subscribed = TRUE, !.registered = TRUE] \in SessionType
        /\ [s EXCEPT !.subscribed = FALSE, !.drains = 0] \in SessionType
    BY <1>1 DEF SessionType
  <1>3. SessionOK([s EXCEPT !.timer = x]) /\ SameInbox(s, [s EXCEPT !.timer = x])
    BY <1>1, <1>2 DEF SessionOK, WriterOK, SameInbox, SessionType
  <1>4. /\ SessionOK([s EXCEPT !.subscribed = TRUE, !.registered = TRUE])
        /\ SameInbox(s, [s EXCEPT !.subscribed = TRUE, !.registered = TRUE])
    BY <1>1, <1>2 DEF SessionOK, WriterOK, SameInbox, SessionType
  <1>5. SessionOK([s EXCEPT !.subscribed = FALSE, !.drains = 0])
    BY <1>1, <1>2 DEF SessionOK, WriterOK, SessionType
  <1> QED
    BY <1>3, <1>4, <1>5

(* The completion of the handshake sends two events and arms the timer. *)
LEMMA OnAcceptOK ==
    ASSUME NEW s, SessionOK(s)
    PROVE  SessionOK(on_accept(s)) /\ SameInbox(s, on_accept(s))
  <1> DEFINE a == [s EXCEPT !.subscribed = TRUE, !.registered = TRUE]
             b == enqueue(enqueue(a))
  <1>1. SessionOK(a) /\ SameInbox(s, a)
    BY TimerOK
  <1> HIDE DEF a
  <1>2. SessionOK(b) /\ SameInbox(a, b)
    BY <1>1, EnqueueOK DEF SameInbox
  <1>3. on_accept(s) = [b EXCEPT !.timer = "armed"]
    BY DEF on_accept, a
  <1> HIDE DEF b
  <1>4. SessionOK(on_accept(s)) /\ SameInbox(b, on_accept(s))
    BY <1>2, <1>3, TimerOK
  <1> QED
    BY <1>1, <1>2, <1>4 DEF SameInbox

(* The completion of a write: the next one, the close, or the end. *)
LEMMA OnWriteOK ==
    ASSUME NEW s, SessionOK(s), s.ops > 0, ~s.closing, NEW error \in BOOLEAN
    PROVE  SessionOK(on_write(s, error)) /\ SameInbox(s, on_write(s, error))
  <1> DEFINE d == [s EXCEPT !.ops = @ - 1]
             f == [d EXCEPT !.writing = FALSE]
  <1>1. s \in SessionType /\ s.ops = 1 /\ (s.inbox > 0 => s.scheduled)
    BY DEF SessionOK, WriterOK, SessionType
  <1>2. d = [s EXCEPT !.ops = 0]
    BY <1>1 DEF SessionType
  <1>3. on_write(s, error) = IF error THEN cleanup(d)
                             ELSE IF s.stopping THEN begin_close(f) ELSE write_next(f)
    BY DEF on_write
  <1> HIDE DEF d
  <1>4. d \in SessionType /\ d.ops = 0 /\ d.closing = s.closing /\ d.stopping = s.stopping
        /\ SameInbox(s, d)
    BY <1>1, <1>2 DEF SessionType, SameInbox
  <1>5. f \in SessionType /\ f.ops = 0 /\ ~f.writing /\ ~f.closing /\ f.stopping = s.stopping
        /\ SameInbox(s, f)
    BY <1>4 DEF SessionType, SameInbox
  <1> HIDE DEF f
  <1>6. CASE error
    BY <1>1, <1>3, <1>4, <1>6, CleanupOK DEF SameInbox
  <1>7. CASE ~error /\ s.stopping
    <2>1. SessionOK(begin_close(f)) /\ SameInbox(f, begin_close(f))
      BY <1>1, <1>5, <1>7, BeginCloseOK DEF SameInbox
    <2> QED
      BY <1>3, <1>5, <1>7, <2>1 DEF SameInbox
  <1>8. CASE ~error /\ ~s.stopping
    <2>1. SessionOK(write_next(f)) /\ SameInbox(f, write_next(f))
      BY <1>1, <1>5, WriteNextOK DEF SameInbox
    <2> QED
      BY <1>3, <1>5, <1>8, <2>1 DEF SameInbox
  <1> QED
    BY <1>6, <1>7, <1>8

(* The completion of the close. *)
LEMMA OnCloseOK ==
    ASSUME NEW s, SessionOK(s), s.ops > 0
    PROVE  SessionOK(on_close(s)) /\ SameInbox(s, on_close(s))
  <1> DEFINE d == [s EXCEPT !.ops = @ - 1]
  <1>1. s \in SessionType /\ s.ops = 1 /\ (s.inbox > 0 => s.scheduled)
    BY DEF SessionOK, WriterOK, SessionType
  <1>2. d \in SessionType /\ d.ops = 0 /\ SameInbox(s, d)
    BY <1>1 DEF SessionType, SameInbox
  <1>3. on_close(s) = cleanup(d)
    BY DEF on_close
  <1> HIDE DEF d
  <1> QED
    BY <1>1, <1>2, <1>3, CleanupOK DEF SameInbox

(* The status timer's handler. *)
LEMMA OnTimerOK ==
    ASSUME NEW s, SessionOK(s)
    PROVE  SessionOK(on_timer(s)) /\ SameInbox(s, on_timer(s))
  <1>1. SessionOK(enqueue(s)) /\ SameInbox(s, enqueue(s))
    BY EnqueueOK
  <1>2. CASE on_timer(s) = [s EXCEPT !.timer = "off"]
    BY <1>2, TimerOK
  <1>3. CASE on_timer(s) = [enqueue(s) EXCEPT !.timer = "armed"]
    <2>1. SessionOK(on_timer(s)) /\ SameInbox(enqueue(s), on_timer(s))
      BY <1>1, <1>3, TimerOK
    <2> QED
      BY <1>1, <2>1 DEF SameInbox
  <1> QED
    BY <1>2, <1>3 DEF on_timer

(* stop waits for a write in progress and closes at once otherwise. *)
LEMMA StopOK ==
    ASSUME NEW s, SessionOK(s)
    PROVE  SessionOK(stop(s)) /\ SameInbox(s, stop(s))
  <1> DEFINE x == cancel(s.timer)
             z == [s EXCEPT !.stopping = TRUE, !.timer = x, !.subscribed = FALSE]
  <1>1. s \in SessionType /\ WriterOK(s) /\ (s.inbox > 0 => s.scheduled)
    BY DEF SessionOK
  <1>2. x \in {"off", "armed", "due"}
    BY <1>1 DEF cancel, SessionType
  <1>3. stop(s) = IF s.closed \/ s.stopping THEN s ELSE IF s.writing THEN z ELSE begin_close(z)
    BY DEF stop
  <1> HIDE DEF x
  <1>4. /\ z \in SessionType /\ z.ops = s.ops /\ z.writing = s.writing /\ z.stopping
        /\ z.closing = s.closing /\ z.closed = s.closed /\ SameInbox(s, z)
    BY <1>1, <1>2 DEF SessionType, SameInbox
  <1> HIDE DEF z
  <1>5. CASE s.closed \/ s.stopping
    BY <1>3, <1>5 DEF SameInbox
  <1>6. CASE ~(s.closed \/ s.stopping) /\ s.writing
    BY <1>1, <1>3, <1>4, <1>6 DEF SessionOK, WriterOK, SameInbox
  <1>7. CASE ~(s.closed \/ s.stopping) /\ ~s.writing
    <2>1. z.ops = 0 /\ ~z.writing /\ ~z.closing /\ (z.inbox > 0 => z.scheduled)
      BY <1>1, <1>4, <1>7 DEF WriterOK, SameInbox, SessionType
    <2>2. SessionOK(begin_close(z)) /\ SameInbox(z, begin_close(z))
      BY <1>4, <2>1, BeginCloseOK
    <2> QED
      BY <1>3, <1>4, <1>7, <2>2 DEF SameInbox
  <1> QED
    BY <1>5, <1>6, <1>7

(* EventInbox::push and the drain. *)
LEMMA InboxOK ==
    ASSUME NEW s, SessionOK(s)
    PROVE  /\ SessionOK(inbox_push(s)) /\ inbox_push(s).drains = s.drains
           /\ SessionOK([s EXCEPT !.drains = @ + 1])
           /\ [s EXCEPT !.drains = @ + 1].scheduled = s.scheduled
           /\ [s EXCEPT !.drains = @ + 1].drains > 0
           /\ s.drains > 0 => SessionOK(drain_incoming(s)) /\ ~drain_incoming(s).scheduled
  <1>1. s \in SessionType /\ WriterOK(s) /\ s.inbox \in Nat /\ s.drains \in Nat
    BY DEF SessionOK, SessionType
  <1>2. SessionOK(inbox_push(s)) /\ inbox_push(s).drains = s.drains
    <2> DEFINE k == Least(s.inbox + 1, InboxCapacity)
               t == [s EXCEPT !.inbox = k, !.scheduled = TRUE]
    <2>1. k \in Nat
      BY <1>1, CapacityAssumption DEF Least
    <2>2. inbox_push(s) = t
      BY DEF inbox_push
    <2> HIDE DEF k
    <2>3. /\ t \in SessionType /\ t.scheduled /\ t.drains = s.drains /\ t.ops = s.ops
          /\ t.writing = s.writing /\ t.closing = s.closing /\ t.closed = s.closed
          /\ t.stopping = s.stopping /\ t.outgoing = s.outgoing
      BY <1>1, <2>1 DEF SessionType
    <2> HIDE DEF t
    <2> QED
      BY <1>1, <2>2, <2>3 DEF SessionOK, WriterOK
  <1>3. /\ SessionOK([s EXCEPT !.drains = @ + 1])
        /\ [s EXCEPT !.drains = @ + 1].scheduled = s.scheduled
        /\ [s EXCEPT !.drains = @ + 1].drains > 0
    <2> DEFINE t == [s EXCEPT !.drains = @ + 1]
    <2>1. /\ t \in SessionType /\ t.scheduled = s.scheduled /\ t.drains = s.drains + 1
          /\ t.inbox = s.inbox /\ t.ops = s.ops
          /\ t.writing = s.writing /\ t.closing = s.closing /\ t.closed = s.closed
          /\ t.stopping = s.stopping /\ t.outgoing = s.outgoing
      BY <1>1 DEF SessionType
    <2> HIDE DEF t
    <2>2. SessionOK(t) /\ t.drains > 0
      BY <1>1, <2>1 DEF SessionOK, WriterOK
    <2> QED
      BY <2>1, <2>2 DEF t
  <1>4. ASSUME s.drains > 0 PROVE SessionOK(drain_incoming(s)) /\ ~drain_incoming(s).scheduled
    <2> DEFINE t == [drain(s) EXCEPT !.drains = @ - 1]
               m == s.drains - 1
    <2>1. t = [s EXCEPT !.inbox = 0, !.scheduled = FALSE, !.drains = m] /\ m \in Nat
      BY <1>1, <1>4 DEF drain, SessionType
    <2>2. drain_incoming(s) = enqueueAll(t, s.inbox)
      BY DEF drain_incoming
    <2> HIDE DEF t, m
    <2>3. /\ t \in SessionType /\ ~t.scheduled /\ t.inbox = 0 /\ t.ops = s.ops
          /\ t.writing = s.writing /\ t.closing = s.closing /\ t.closed = s.closed
          /\ t.stopping = s.stopping /\ t.outgoing = s.outgoing
      BY <1>1, <2>1 DEF SessionType
    <2>4. SessionOK(t)
      BY <1>1, <2>3 DEF SessionOK, WriterOK
    <2> QED
      BY <1>1, <2>2, <2>3, <2>4, EnqueueAllOK DEF SameInbox
  <1> QED
    BY <1>2, <1>3, <1>4
-----------------------------------------------------------------------------
(* The sessions and the drains in the initial state. *)
LEMMA SessionsInit == Init => SessionsInv /\ DrainInv
  <1> SUFFICES ASSUME Init PROVE SessionsInv /\ DrainInv
    OBVIOUS
  <1>1. NewSession \in SessionType /\ SessionOK(NewSession)
    BY DEF NewSession, SessionType, SessionOK, WriterOK
  <1>2. SessionsInv
    BY <1>1 DEF Init, SessionsInv
  <1>3. DrainInv
    BY DEF Init, DrainInv, Idle, NewSession
  <1> QED
    BY <1>2, <1>3

(* A handler that changes one session and neither its inbox nor its drains. *)
LEMMA OneSession ==
    ASSUME SessionsInv, DrainInv, NEW c \in Conns, NEW t, SessionOK(t), SameInbox(ws[c], t),
           ws' = [ws EXCEPT ![c] = t], UNCHANGED << io, pub >>
    PROVE  SessionsInv' /\ DrainInv'
  <1>1. t \in SessionType
    BY DEF SessionOK
  <1>2. SessionsInv'
    BY <1>1 DEF SessionsInv
  <1>3. \A d \in Conns : ws'[d].scheduled = ws[d].scheduled /\ ws'[d].drains = ws[d].drains
    BY DEF SessionsInv, SameInbox
  <1>4. DrainInv'
    BY <1>3 DEF DrainInv
  <1> QED
    BY <1>2, <1>4

(* Every step keeps them. *)
LEMMA SessionsStep == SessionsInv /\ DrainInv /\ [Next]_vars => SessionsInv' /\ DrainInv'
  <1> SUFFICES ASSUME SessionsInv, DrainInv, [Next]_vars PROVE SessionsInv' /\ DrainInv'
    OBVIOUS
  <1> USE DEF server, webrtc, traffic
  <1>1. \A c \in Conns : SessionOK(ws[c]) /\ ws[c] \in SessionType
    BY DEF SessionsInv
  <1>2. ASSUME UNCHANGED << io, ws, pub >> PROVE SessionsInv' /\ DrainInv'
    BY <1>2 DEF SessionsInv, DrainInv
  <1>3. ASSUME NEW c \in Conns, NEW error \in BOOLEAN, OnAccept(c, error)
        PROVE  SessionsInv' /\ DrainInv'
    <2>1. PICK t : ws' = [ws EXCEPT ![c] = t] /\ SessionOK(t) /\ SameInbox(ws[c], t)
      <3>1. SessionOK(cleanup(ws[c])) /\ SameInbox(ws[c], cleanup(ws[c]))
        BY <1>1, CleanupOK DEF SessionOK, WriterOK
      <3>2. SessionOK(on_accept(ws[c])) /\ SameInbox(ws[c], on_accept(ws[c]))
        BY <1>1, OnAcceptOK
      <3> QED
        BY <1>3, <3>1, <3>2 DEF OnAccept
    <2> QED
      BY <1>3, <2>1, OneSession DEF OnAccept
  <1>4. ASSUME NEW c \in Conns, NEW error \in BOOLEAN,
               OnWrite(c, error) \/ OnClose(c) \/ Expires(c) \/ OnTimer(c) \/ OnReadError(c)
        PROVE  SessionsInv' /\ DrainInv'
    <2>1. CASE OnWrite(c, error)
      <3>1. SessionOK(on_write(ws[c], error)) /\ SameInbox(ws[c], on_write(ws[c], error))
        BY <1>1, <2>1, OnWriteOK DEF OnWrite, Session
      <3> QED
        BY <2>1, <3>1, OneSession DEF OnWrite, Session
    <2>2. CASE OnClose(c)
      <3>1. SessionOK(on_close(ws[c])) /\ SameInbox(ws[c], on_close(ws[c]))
        BY <1>1, <2>2, OnCloseOK DEF OnClose, Session
      <3> QED
        BY <2>2, <3>1, OneSession DEF OnClose, Session
    <2>3. CASE Expires(c)
      <3>1. /\ SessionOK([ws[c] EXCEPT !.timer = "due"])
            /\ SameInbox(ws[c], [ws[c] EXCEPT !.timer = "due"])
        BY <1>1, TimerOK
      <3> QED
        BY <2>3, <3>1, OneSession DEF Expires, Session
    <2>4. CASE OnTimer(c)
      <3>1. SessionOK(on_timer(ws[c])) /\ SameInbox(ws[c], on_timer(ws[c]))
        BY <1>1, OnTimerOK
      <3> QED
        BY <2>4, <3>1, OneSession DEF OnTimer, Session
    <2>5. CASE OnReadError(c)
      <3>1. SessionOK(cleanup(ws[c])) /\ SameInbox(ws[c], cleanup(ws[c]))
        BY <1>1, CleanupOK DEF SessionOK, WriterOK
      <3> QED
        BY <2>5, <3>1, OneSession DEF OnReadError, Session
    <2> QED
      BY <1>4, <2>1, <2>2, <2>3, <2>4, <2>5
  <1>5. ASSUME NEW c \in Conns, Drain(c) PROVE SessionsInv' /\ DrainInv'
    <2> DEFINE t == drain_incoming(ws[c])
    <2>1. SessionOK(t) /\ ~t.scheduled /\ ws' = [ws EXCEPT ![c] = t] /\ UNCHANGED << io, pub >>
      BY <1>1, <1>5, InboxOK DEF Drain, Session
    <2> HIDE DEF t
    <2>2. SessionsInv'
      BY <2>1 DEF SessionsInv, SessionOK
    <2>3. DrainInv'
      BY <2>1 DEF DrainInv, SessionsInv
    <2> QED
      BY <2>2, <2>3
  <1>6. ASSUME NEW p \in Publishers, Publish(p) PROVE SessionsInv' /\ DrainInv'
    <2>1. ws' = ws /\ io' = io /\ pub' \in [Publishers -> [left : SUBSET Conns, hand : SUBSET Conns]]
          /\ \A r \in Publishers : pub'[r].hand = pub[r].hand
      BY <1>6 DEF Publish, DrainInv
    <2> QED
      BY <2>1 DEF SessionsInv, DrainInv
  <1>7. ASSUME NEW p \in Publishers, NEW c \in Conns, Deliver(p, c)
        PROVE  SessionsInv' /\ DrainInv'
    <2>1. CASE /\ ws' = [ws EXCEPT ![c] = inbox_push(@)]
               /\ pub' = [pub EXCEPT ![p] = [left |-> @.left \ {c},
                                             hand |-> IF ws[c].scheduled THEN {} ELSE {c}]]
      <3> DEFINE t == inbox_push(ws[c])
      <3>1. SessionOK(t) /\ t.drains = ws[c].drains /\ ws' = [ws EXCEPT ![c] = t] /\ io' = io
        BY <1>1, <1>7, <2>1, InboxOK DEF Deliver
      <3> HIDE DEF t
      <3>2. SessionsInv'
        BY <3>1 DEF SessionsInv, SessionOK
      <3>3. /\ pub' \in [Publishers -> [left : SUBSET Conns, hand : SUBSET Conns]]
            /\ \A r \in Publishers : r # p => pub'[r] = pub[r]
            /\ pub[p].hand = {} /\ pub'[p].hand = IF ws[c].scheduled THEN {} ELSE {c}
        BY <1>7, <2>1 DEF Deliver, DrainInv
      <3>4. ASSUME NEW d \in Conns, io = "running", ws'[d].scheduled
            PROVE  ws'[d].drains > 0 \/ \E r \in Publishers : d \in pub'[r].hand
        <4>1. CASE d = c /\ ~ws[c].scheduled
          BY <3>3, <4>1
        <4>2. CASE d # c \/ ws[c].scheduled
          <5>1. ws[d].scheduled /\ ws'[d].drains = ws[d].drains
            BY <3>1, <3>4, <4>2 DEF SessionsInv
          <5>2. ws[d].drains > 0 \/ \E r \in Publishers : d \in pub[r].hand
            BY <3>4, <5>1 DEF DrainInv
          <5> QED
            BY <3>3, <5>1, <5>2
        <4> QED
          BY <4>1, <4>2
      <3>5. \A r \in Publishers : \A x, y \in pub'[r].hand : x = y
        BY <3>3 DEF DrainInv
      <3> QED
        BY <3>1, <3>2, <3>3, <3>4, <3>5 DEF DrainInv
    <2>2. CASE pub' = [pub EXCEPT ![p].left = @ \ {c}] /\ UNCHANGED ws
      <3>1. io' = io /\ pub' \in [Publishers -> [left : SUBSET Conns, hand : SUBSET Conns]]
            /\ \A r \in Publishers : pub'[r].hand = pub[r].hand
        BY <1>7, <2>2 DEF Deliver, DrainInv
      <3> QED
        BY <2>2, <3>1 DEF SessionsInv, DrainInv
    <2> QED
      BY <1>7, <2>1, <2>2 DEF Deliver
  <1>8. ASSUME NEW p \in Publishers, NEW c \in Conns, PostDrain(p, c)
        PROVE  SessionsInv' /\ DrainInv'
    <2>1. /\ pub' \in [Publishers -> [left : SUBSET Conns, hand : SUBSET Conns]] /\ io' = io
          /\ \A r \in Publishers : r # p => pub'[r].hand = pub[r].hand
          /\ pub[p].hand = {c} /\ pub'[p].hand = {}
      BY <1>8 DEF PostDrain, DrainInv
    <2>2. CASE io = "gone"
      <3>1. ws' = ws
        BY <1>8, <2>2 DEF PostDrain, SessionsInv, SessionType
      <3> QED
        BY <2>1, <2>2, <3>1 DEF SessionsInv, DrainInv
    <2>3. CASE io # "gone"
      <3> DEFINE t == [ws[c] EXCEPT !.drains = @ + 1]
      <3>1. ws' = [ws EXCEPT ![c] = t]
        BY <1>8, <2>3 DEF PostDrain, SessionsInv
      <3>2. SessionOK(t) /\ t.scheduled = ws[c].scheduled /\ t.drains > 0
        BY <1>1, InboxOK
      <3> HIDE DEF t
      <3>3. SessionsInv'
        BY <3>1, <3>2 DEF SessionsInv, SessionOK
      <3>4. ASSUME NEW d \in Conns, io = "running", ws'[d].scheduled
            PROVE  ws'[d].drains > 0 \/ \E r \in Publishers : d \in pub'[r].hand
        <4>1. CASE d = c
          BY <3>1, <3>2, <4>1 DEF SessionsInv
        <4>2. CASE d # c
          BY <2>1, <3>1, <3>4, <4>2 DEF SessionsInv, DrainInv
        <4> QED
          BY <4>1, <4>2
      <3>5. \A r \in Publishers : \A x, y \in pub'[r].hand : x = y
        BY <2>1 DEF DrainInv
      <3> QED
        BY <2>1, <3>3, <3>4, <3>5 DEF DrainInv
    <2> QED
      BY <2>2, <2>3
  <1>9. CASE StopHandler
    <2> DEFINE open == {c \in Conns : ws[c].registered}
    <2>1. ws' = [c \in Conns |-> IF c \in open THEN stop(ws[c]) ELSE ws[c]]
          /\ io' \in {io, "stopped"} /\ pub' = pub
      BY <1>9 DEF StopHandler
    <2>2. \A c \in Conns : SessionOK(ws'[c]) /\ SameInbox(ws[c], ws'[c])
      BY <1>1, <2>1, StopOK DEF SameInbox
    <2>3. SessionsInv'
      BY <2>1, <2>2 DEF SessionsInv, SessionOK
    <2>4. DrainInv'
      BY <2>1, <2>2 DEF DrainInv, SameInbox
    <2> QED
      BY <2>3, <2>4
  <1>10. CASE StopTimer
    BY <1>10 DEF StopTimer, SessionsInv, DrainInv
  <1>11. CASE Wait
    <2>1. \A c \in Conns : SessionOK([ws[c] EXCEPT !.subscribed = FALSE, !.drains = 0])
      BY <1>1, TimerOK
    <2>2. SessionsInv'
      BY <1>11, <2>1 DEF Wait, SessionsInv, SessionOK
    <2> QED
      BY <1>11, <2>2 DEF Wait, DrainInv
  <1>12. ASSUME NEW c \in Conns,
                \/ Accept(c) \/ (\E next \in {"closed", "writing"} : OnRead(c, next))
                \/ Upgrade(c) \/ Dispatch(c) \/ Send(c) \/ (\E d \in Conns : Delete(c, d))
                \/ (\E error \in BOOLEAN : Written(c, error))
                \/ TakeJob(c) \/ Route(c) \/ Answer(c)
         PROVE  SessionsInv' /\ DrainInv'
    BY <1>2, <1>12 DEF Accept, OnRead, Upgrade, Dispatch, Send, Delete, Written, TakeJob, Route,
                       Answer
  <1>13. CASE StopWebRtc \/ PostStop
    BY <1>2, <1>13 DEF StopWebRtc, PostStop
  <1>14. CASE UNCHANGED vars
    BY <1>2, <1>14 DEF vars
  <1> QED
    BY <1>3, <1>4, <1>5, <1>6, <1>7, <1>8, <1>9, <1>10, <1>11, <1>12, <1>13, <1>14
       DEF Next, IoThread, Pool, Producer

(* The sessions and the drains hold in every behaviour. *)
LEMMA SessionsCorrect == Spec => [](SessionsInv /\ DrainInv)
  BY SessionsInit, SessionsStep, PTL DEF Spec

(* At most one write or close is in progress on a WebSocket stream, for any  *)
(* number of publishers, sessions and queued events.                         *)
THEOREM SingleWriterCorrect == Spec => []SingleWriter
  <1>1. SessionsInv => SingleWriter
    BY DEF SessionsInv, SessionOK, WriterOK, SingleWriter
  <1> QED
    BY <1>1, SessionsCorrect, PTL

(* No event that reached an inbox or an outgoing queue is left there without *)
(* the handler that will take it.                                            *)
THEOREM NoStrandedCorrect == Spec => []NoStrandedEvents
  <1>1. SessionsInv /\ DrainInv => NoStrandedEvents
    <2> SUFFICES ASSUME SessionsInv, DrainInv, io = "running", NEW c \in Conns
                 PROVE  /\ ws[c].inbox > 0 =>
                              ws[c].drains > 0 \/ \E p \in Publishers : c \in pub[p].hand
                        /\ ws[c].outgoing > 0 /\ ~ws[c].closed /\ ~ws[c].stopping =>
                              ws[c].ops > 0
      BY DEF NoStrandedEvents
    <2>1. SessionOK(ws[c])
      BY DEF SessionsInv
    <2> QED
      BY <2>1 DEF SessionOK, WriterOK, DrainInv
  <1> QED
    BY <1>1, SessionsCorrect, PTL
-----------------------------------------------------------------------------
(* The offers in the initial state. *)
LEMMA PeerInit == Init => PeerInv
  BY DEF Init, PeerInv

(* Every step keeps the manager's sessions accounted for. *)
LEMMA PeerStep == PeerInv /\ [Next]_vars => PeerInv'
  <1> SUFFICES ASSUME PeerInv, [Next]_vars PROVE PeerInv'
    OBVIOUS
  <1> USE DEF server, webrtc, traffic, PeerInv
  <1>1. ASSUME NEW c \in Conns, Accept(c) PROVE PeerInv'
    BY <1>1 DEF Accept
  <1>2. ASSUME NEW c \in Conns, NEW next \in {"closed", "writing"}, OnRead(c, next)
        PROVE  PeerInv'
    BY <1>2 DEF OnRead
  <1>3. ASSUME NEW c \in Conns, NEW d \in Conns, Delete(c, d) PROVE PeerInv'
    BY <1>3 DEF Delete
  <1>4. ASSUME NEW c \in Conns, Upgrade(c) PROVE PeerInv'
    BY <1>4 DEF Upgrade
  <1>5. ASSUME NEW c \in Conns, Dispatch(c) PROVE PeerInv'
    BY <1>5 DEF Dispatch
  <1>6. ASSUME NEW c \in Conns, TakeJob(c) PROVE PeerInv'
    BY <1>6 DEF TakeJob
  <1>7. ASSUME NEW c \in Conns, Route(c) PROVE PeerInv'
    BY <1>7 DEF Route
  <1>8. ASSUME NEW c \in Conns, Answer(c) PROVE PeerInv'
    BY <1>8 DEF Answer
  <1>9. ASSUME NEW c \in Conns, Send(c) PROVE PeerInv'
    BY <1>9 DEF Send
  <1>10. ASSUME NEW c \in Conns, NEW error \in BOOLEAN, Written(c, error) PROVE PeerInv'
    BY <1>10 DEF Written
  <1>11. ASSUME NEW c \in Conns, NEW error \in BOOLEAN, OnAccept(c, error) PROVE PeerInv'
    BY <1>11 DEF OnAccept
  <1>12. ASSUME UNCHANGED << conn, response, peers, shut, owner >> PROVE PeerInv'
    BY <1>12
  <1>13. ASSUME NEW c \in Conns, NEW error \in BOOLEAN,
                Drain(c) \/ OnWrite(c, error) \/ OnClose(c) \/ Expires(c) \/ OnTimer(c)
                \/ OnReadError(c)
         PROVE  PeerInv'
    BY <1>12, <1>13 DEF Drain, OnWrite, OnClose, Expires, OnTimer, OnReadError, Session
  <1>14. ASSUME NEW p \in Publishers, Producer(p) PROVE PeerInv'
    BY <1>12, <1>14 DEF Producer, Publish, Deliver, PostDrain
  <1>15. CASE StopHandler \/ StopTimer
    BY <1>12, <1>15 DEF StopHandler, StopTimer
  <1>16. CASE StopWebRtc
    BY <1>16 DEF StopWebRtc
  <1>17. CASE PostStop \/ Wait
    BY <1>17 DEF PostStop, Wait
  <1>18. CASE UNCHANGED vars
    BY <1>12, <1>18 DEF vars
  <1> QED
    BY <1>1, <1>2, <1>3, <1>4, <1>5, <1>6, <1>7, <1>8, <1>9, <1>10, <1>11, <1>13, <1>14, <1>15,
       <1>16, <1>17, <1>18 DEF Next, IoThread, Pool

(* The accounting holds in every behaviour. *)
LEMMA PeerCorrect == Spec => []PeerInv
  BY PeerInit, PeerStep, PTL DEF Spec

(* No WHEP session survives a 201 that could not be sent, nor the server. *)
THEOREM NoLeakedPeerCorrect == Spec => []NoLeakedPeer
  <1>1. PeerInv => NoLeakedPeer
    BY DEF PeerInv, NoLeakedPeer
  <1> QED
    BY <1>1, PeerCorrect, PTL
-----------------------------------------------------------------------------
(* The connections whose offer is with the pool. *)
InPool == In({"job", "routing", "routed"})

(* One connection more or less with the pool. *)
LEMMA PoolCount ==
    ASSUME PeerInv, NEW c \in Conns
    PROVE  /\ IsFiniteSet(InPool) /\ Cardinality(InPool) \in Nat
           /\ c \notin InPool => Cardinality(InPool \cup {c}) = Cardinality(InPool) + 1
           /\ c \in InPool => Cardinality(InPool \ {c}) = Cardinality(InPool) - 1
  <1>1. InPool \subseteq Conns
    BY DEF InPool, In
  <1>2. IsFiniteSet(InPool) /\ Cardinality(InPool) \in Nat
    BY <1>1, ServerAssumption, FS_Subset, FS_CardinalityType
  <1> QED
    BY <1>2, FS_AddElement, FS_RemoveElement

(* Every step of a connection keeps signaling_jobs exact. *)
LEMMA JobsStep == PeerInv /\ JobsBounded /\ [Next]_vars => JobsBounded'
  <1> SUFFICES ASSUME PeerInv, JobsBounded, [Next]_vars PROVE JobsBounded'
    OBVIOUS
  <1> USE DEF server, webrtc, traffic
  <1>0. jobs = Cardinality(InPool) /\ jobs <= SignalingLimit
    BY DEF JobsBounded, InPool
  <1>1. ASSUME InPool' = InPool, jobs' = jobs PROVE JobsBounded'
    BY <1>0, <1>1 DEF JobsBounded, InPool
  <1>2. ASSUME NEW c \in Conns, NEW x, conn[c] \notin {"job", "routing", "routed"},
               x \notin {"job", "routing", "routed"}, conn' = [conn EXCEPT ![c] = x], jobs' = jobs
        PROVE  JobsBounded'
    <2>1. InPool' = InPool
      BY <1>2 DEF InPool, In, PeerInv
    <2> QED
      BY <1>1, <1>2, <2>1
  <1>3. ASSUME NEW c \in Conns,
               \/ Accept(c) \/ (\E next \in {"closed", "writing"} : OnRead(c, next))
               \/ Upgrade(c) \/ Send(c) \/ (\E d \in Conns : Delete(c, d))
               \/ (\E error \in BOOLEAN : Written(c, error) \/ OnAccept(c, error))
        PROVE  JobsBounded'
    <2>1. PICK x : /\ x \notin {"job", "routing", "routed"} /\ conn' = [conn EXCEPT ![c] = x]
                   /\ conn[c] \notin {"job", "routing", "routed"} /\ jobs' = jobs
      BY <1>3 DEF Accept, OnRead, Upgrade, Send, Delete, Written, OnAccept
    <2> QED
      BY <1>2, <2>1
  <1>4. ASSUME NEW c \in Conns, Dispatch(c) PROVE JobsBounded'
    <2>1. CASE jobs >= SignalingLimit
      BY <1>2, <1>4, <2>1 DEF Dispatch
    <2>2. CASE ~(jobs >= SignalingLimit)
      <3>1. c \notin InPool /\ InPool' = InPool \cup {c} /\ jobs' = jobs + 1
        BY <1>4, <2>2 DEF Dispatch, InPool, In, PeerInv
      <3> QED
        BY <1>0, <2>2, <3>1, PoolCount, ServerAssumption DEF JobsBounded, InPool
    <2> QED
      BY <2>1, <2>2
  <1>5. ASSUME NEW c \in Conns, TakeJob(c) \/ Route(c) PROVE JobsBounded'
    <2>1. InPool' = InPool /\ jobs' = jobs
      BY <1>5 DEF TakeJob, Route, InPool, In, PeerInv
    <2> QED
      BY <1>1, <2>1
  <1>6. ASSUME NEW c \in Conns, Answer(c) PROVE JobsBounded'
    <2>1. c \in InPool /\ InPool' = InPool \ {c} /\ jobs' = jobs - 1
      BY <1>6 DEF Answer, InPool, In, PeerInv
    <2> QED
      BY <1>0, <2>1, PoolCount, ServerAssumption DEF JobsBounded, InPool
  <1>7. ASSUME UNCHANGED << conn, jobs >> PROVE JobsBounded'
    BY <1>1, <1>7 DEF InPool, In
  <1>8. ASSUME NEW c \in Conns, NEW error \in BOOLEAN,
               Drain(c) \/ OnWrite(c, error) \/ OnClose(c) \/ Expires(c) \/ OnTimer(c)
               \/ OnReadError(c)
        PROVE  JobsBounded'
    BY <1>7, <1>8 DEF Drain, OnWrite, OnClose, Expires, OnTimer, OnReadError, Session
  <1>9. ASSUME NEW p \in Publishers, Producer(p) PROVE JobsBounded'
    BY <1>7, <1>9 DEF Producer, Publish, Deliver, PostDrain
  <1>10. CASE StopHandler \/ StopTimer \/ StopWebRtc \/ PostStop \/ Wait
    BY <1>7, <1>10 DEF StopHandler, StopTimer, StopWebRtc, PostStop, Wait
  <1>11. CASE UNCHANGED vars
    BY <1>7, <1>11 DEF vars
  <1> QED
    BY <1>3, <1>4, <1>5, <1>6, <1>8, <1>9, <1>10, <1>11 DEF Next, IoThread, Pool

(* dispatch_whep's counter is exact, so no more than signaling_limit offers  *)
(* are ever with the pool, and none is lost from the count by an answer.     *)
THEOREM JobsCorrect == Spec => []JobsBounded
  <1>1. Init => JobsBounded
    <2> SUFFICES ASSUME Init PROVE JobsBounded
      OBVIOUS
    <2>1. In({"job", "routing", "routed"}) = {} /\ jobs = 0
      BY DEF Init, In
    <2> QED
      BY <2>1, FS_EmptySet, ServerAssumption DEF JobsBounded
  <1> QED
    BY <1>1, JobsStep, PeerCorrect, PTL DEF Spec
=============================================================================
