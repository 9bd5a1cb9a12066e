------------------------ MODULE WhipPublisherProofs -------------------------
(* What TLAPS proves about the WHIP uplink for every capacity of its queues, *)
(* every kind of unit and all bounds: a retry leaves nothing behind at the   *)
(* server (ResourceInv), what is sent can be decoded (GateInv), and the RTP  *)
(* time goes on over restarts of the source (ClockInv).  Which results ride  *)
(* on a unit is left open.                                                   *)
EXTENDS WhipPublisher, TLAPS

(* The labels of the worker while it has a session. *)
Session == {"check", "pop", "drain", "send"}
Ending  == {"close", "delete", "caught"}
Labels  == Session \cup Ending \cup {"off", "begin", "gather", "post", "report", "decide",
                                     "asleep", "done"}

(* The resource at the server: its URL is known from the 201 to the DELETE,  *)
(* and one without a URL is carried as an exception that ends the worker.    *)
ResourceInv ==
    /\ pc \in Labels /\ err \in {"none", "error", "orphan"} /\ location \in BOOLEAN
    /\ owner = "off" => pc = "off"
    /\ pc \notin Ending => err = "none"
    /\ pc \in Session => location
    /\ pc \notin Session \cup {"close", "delete"} => ~location
    /\ \/ unreleased = IF location THEN 1 ELSE 0
       \/ unreleased = 1 /\ ~location /\ (err = "orphan" \/ pc = "done")
-----------------------------------------------------------------------------
Units == [seq : Nat, gen : Nat, pts : Nat, has_pts : BOOLEAN, key : BOOLEAN, disc : BOOLEAN]

Queues == [items : Seq(Units), shutdown : BOOLEAN, pushed : Nat, popped : Nat,
           dropped : Nat, discarded : Nat, high_water_mark : Nat]

Flows == [opened : BOOLEAN, awaiting : BOOLEAN, closed : BOOLEAN, waiting : BOOLEAN,
          drops : Nat]

Clocks == [start : 0 .. Modulus - 1, offset : 0 .. Modulus - 1, last : 0 .. Modulus - 1,
           frame_ticks : 1 .. MaxStep, last_pts : {None} \cup 0 .. Modulus - 1,
           generation : Nat, has_last : BOOLEAN]

(* The queue holds the last units of the stream, in order. *)
Held(items) ==
    /\ Len(items) <= head.seq
    /\ \A i \in 1 .. Len(items) :
          /\ items[i].seq = head.seq - Len(items) + i
          /\ items[i].gen <= head.gen
          /\ \A j \in i .. Len(items) : items[i].gen <= items[j].gen

StreamInv ==
    /\ head \in Units /\ unit \in Units /\ media \in Queues /\ flow \in Flows
    /\ sent.unit \in Units /\ sent.raced \in BOOLEAN
    /\ Held(media.items)
    /\ (unit = NoUnit) <=> (unit.seq = 0)
    /\ pc \notin {"drain", "send"} => unit = NoUnit
    /\ pc = "send" => unit # NoUnit

(* The number of the unit that a pop takes next. *)
NextSeq == head.seq - Len(media.items) + 1

(* A unit n that is not a keyframe may follow the last one sent. *)
Follows(n) == sent.unit # NoUnit /\ (sent.unit.seq = n - 1 \/ (sent.unit.key /\ sent.raced))

(* DecodableUplink speaks of the units that are sent.  Before that the gate  *)
(* is closed, or a drop will close it when it is noticed, or the next unit   *)
(* follows.                                                                  *)
Joined(n) == flow.waiting \/ flow.awaiting \/ media.dropped # flow.drops \/ Follows(n)

GateInv ==
    pc \in Session =>
        /\ flow.drops <= media.dropped
        /\ pc # "check" => ~flow.awaiting
        /\ unit = NoUnit => Joined(NextSeq)
        /\ unit # NoUnit => /\ Joined(unit.seq)
                            /\ NextSeq = unit.seq + 1 \/ media.dropped # flow.drops
-----------------------------------------------------------------------------
(* Generations never go back from the last unit sent to the ones queued. *)
GenInv ==
    /\ sent.unit.gen <= head.gen
    /\ unit # NoUnit => sent.unit.gen <= unit.gen /\ unit.gen <= head.gen
    /\ \A i \in 1 .. Len(media.items) :
          /\ sent.unit.gen <= media.items[i].gen
          /\ unit # NoUnit => unit.gen <= media.items[i].gen

(* The clock of a session is where its last unit was, and as long as the     *)
(* generation is that of the last unit with a PTS its offset is unchanged.   *)
ClockInv ==
    /\ clock \in Clocks /\ sent.anchor \in Units
    /\ pc \notin Session \cup {"close", "delete"} => sent = NoSent
    /\ pc \in Session =>
          /\ (sent = NoSent) <=> ~clock.has_last
          /\ clock.has_last => clock.last = sent.ts /\ clock.generation = sent.unit.gen
          /\ sent.anchor # NoUnit =>
                /\ clock.has_last /\ sent.anchor.gen <= clock.generation
                /\ sent.anchor.gen = clock.generation =>
                      /\ clock.last_pts # None
                      /\ sent.at = (h264_rtp_timestamp(sent.anchor.pts) + clock.offset) % Modulus
-----------------------------------------------------------------------------
(* Callbacks, time and the producers leave the worker and the resource alone. *)
LEMMA Outside ==
    ASSUME \/ Gathered \/ Connected \/ Disconnected \/ Failed \/ TrackChanges
           \/ \E limit \in {"grace", "connect", "track"} : TimePasses(limit)
           \/ \E k \in Kinds : PublishUnit(k)
           \/ \E boxes \in BoxLists, lag \in Lags : PublishDetections(boxes, lag)
    PROVE  UNCHANGED << pc, err, control, server, uplink >>
  BY Zenon DEF Gathered, Connected, Disconnected, Failed, TrackChanges, TimePasses, PublishUnit,
               PublishDetections, control, server, uplink

(* The session begins and ends with the resource. *)
LEMMA ResourceStep == ResourceInv /\ [Next]_vars => ResourceInv'
  <1> SUFFICES ASSUME ResourceInv, [Next]_vars PROVE ResourceInv'
    BY Zenon
  <1> USE DEF ResourceInv, Labels, Session, Ending
  <1>1. CASE Initialize
    BY <1>1, Zenon DEF Initialize, server
  <1>2. CASE Begin
    BY <1>2, Zenon DEF Begin, server, control
  <1>3. CASE Gather
    BY <1>3, Zenon DEF Gather, server, control
  <1>4. CASE Post
    <2>1. unreleased = 0 /\ ~location /\ err = "none"
      BY <1>4, Zenon DEF Post
    <2>2. Created => unreleased' = 1
      BY <2>1 DEF Created
    <2>3. \/ unreleased' = 1 /\ location' = TRUE /\ pc' = "check" /\ err' = "none"
          \/ unreleased' = 1 /\ location' = TRUE /\ pc' = "close" /\ err' = "error"
          \/ unreleased' = 1 /\ location' = FALSE /\ pc' = "close" /\ err' = "orphan"
          \/ unreleased' = 0 /\ location' = FALSE /\ pc' = "close" /\ err' = "error"
      <3>1. location = FALSE /\ (UNCHANGED server => unreleased' = 0 /\ location' = location)
        BY <2>1, Zenon DEF server
      <3> QED
        BY <1>4, <2>1, <2>2, <3>1, Zenon DEF Post
    <2>4. owner' # "off"
      BY <1>4, Zenon DEF Post, control
    <2> QED
      BY <2>3, <2>4, Zenon
  <1>5. CASE Check
    BY <1>5, Zenon DEF Check, server, control
  <1>6. CASE Pop \/ Drain
    BY <1>6, Zenon DEF Pop, Drain, server, control
  <1>7. CASE Send
    BY <1>7, Zenon DEF Send, server, control
  <1>8. CASE Close
    BY <1>8, Zenon DEF Close, server, control
  <1>9. CASE Delete
    <2>1. unreleased \in {0, 1} /\ (location => unreleased = 1)
      BY Zenon
    <2>2. unreleased' = IF location THEN 0 ELSE unreleased
      BY <1>9, <2>1 DEF Delete
    <2> QED
      BY <1>9, <2>1, <2>2, Zenon DEF Delete, control
  <1>10. CASE Caught
    BY <1>10, Zenon DEF Caught, server, control
  <1>11. CASE Report \/ Decide \/ Wake
    BY <1>11 DEF Report, Decide, Wake, server, control
  <1>12. CASE Stop \/ Wait
    BY <1>12 DEF Stop, Wait, server
  <1>13. CASE UNCHANGED << pc, err, control, server, uplink >>
    BY <1>13, Zenon DEF control, server
  <1>14. CASE UNCHANGED vars
    BY <1>14, Zenon DEF vars
  <1> QED
    BY <1>1, <1>2, <1>3, <1>4, <1>5, <1>6, <1>7, <1>8, <1>9, <1>10, <1>11, <1>12, <1>13, <1>14,
       Outside, Zenon DEF Next, Worker

(* ResourceInv holds throughout. *)
LEMMA ResourceCorrect == Spec => []ResourceInv
  <1>1. Init => ResourceInv
    BY Zenon DEF Init, ResourceInv, Labels, Session, Ending
  <1> QED
    BY <1>1, ResourceStep, PTL DEF Spec

(* run asks for a session only when nothing is left at the server, whatever  *)
(* failed before.                                                            *)
THEOREM RetryCorrect == Spec => []RetryIsSafe
  <1>1. ResourceInv => RetryIsSafe
    BY Zenon DEF ResourceInv, Labels, Session, Ending, RetryIsSafe
  <1> QED
    BY <1>1, ResourceCorrect, PTL
-----------------------------------------------------------------------------
(* Lean changes counters only. *)
LEMMA LeanFacts ==
    ASSUME NEW q \in Queues
    PROVE  /\ Lean(q) \in Queues /\ Lean(q).items = q.items /\ Lean(q).dropped = q.dropped
  BY Zenon DEF Lean, Queues

(* push keeps the last units, and counts the one it drops. *)
Grown(q, u, p) ==
    \E k \in {0, 1} :
        /\ p.dropped = q.dropped + k /\ Len(p.items) = Len(q.items) + 1 - k
        /\ \A i \in 1 .. Len(p.items) :
              p.items[i] = IF i + k = Len(q.items) + 1 THEN u ELSE q.items[i + k]

LEMMA PushFacts ==
    ASSUME NEW q \in Queues, NEW u \in Units
    PROVE  /\ Lean(push(q, MediaCapacity, u)) \in Queues
           /\ Grown(q, u, Lean(push(q, MediaCapacity, u)))
  <1> DEFINE g == Append(q.items, u)
             o == Len(g) > MediaCapacity
             t == IF o THEN Tail(g) ELSE g
             d == IF o THEN q.dropped + 1 ELSE q.dropped
             h == IF Len(t) > q.high_water_mark THEN Len(t) ELSE q.high_water_mark
             p == push(q, MediaCapacity, u)
  <1>1. /\ q.items \in Seq(Units) /\ MediaCapacity \in Nat \ {0} /\ q.pushed + 1 \in Nat
        /\ q.dropped \in Nat /\ q.high_water_mark \in Nat
    BY WhipAssumption DEF Queues
  <1>2. /\ g \in Seq(Units) /\ Len(g) = Len(q.items) + 1 /\ g # << >>
        /\ \A i \in 1 .. Len(g) : g[i] = IF i = Len(q.items) + 1 THEN u ELSE q.items[i]
    <2>1. /\ g \in Seq(Units) /\ Len(g) = Len(q.items) + 1 /\ Len(q.items) \in Nat
          /\ g[Len(q.items) + 1] = u /\ \A i \in 1 .. Len(q.items) : g[i] = q.items[i]
      BY <1>1
    <2> HIDE DEF g
    <2> QED
      BY <2>1
  <1>3. /\ Tail(g) \in Seq(Units) /\ Len(Tail(g)) = Len(q.items)
        /\ \A i \in 1 .. Len(q.items) : Tail(g)[i] = g[i + 1]
    <2> HIDE DEF g
    <2> QED
      BY <1>1, <1>2
  <1>4. p = [q EXCEPT !.items = t, !.pushed = q.pushed + 1, !.dropped = d,
                      !.high_water_mark = h]
    BY Zenon DEF push
  <1> HIDE DEF g, p
  <1>5. t \in Seq(Units) /\ Len(t) \in Nat /\ d \in Nat /\ h \in Nat
    BY <1>1, <1>2, <1>3
  <1>6. \E k \in {0, 1} :
           /\ d = q.dropped + k /\ Len(t) = Len(q.items) + 1 - k
           /\ \A i \in 1 .. Len(t) :
                 t[i] = IF i + k = Len(q.items) + 1 THEN u ELSE q.items[i + k]
    <2>1. CASE o
      <3>1. /\ d = q.dropped + 1 /\ Len(t) = Len(q.items) + 1 - 1
            /\ \A i \in 1 .. Len(t) :
                 t[i] = IF i + 1 = Len(q.items) + 1 THEN u ELSE q.items[i + 1]
        <4>1. t = Tail(g) /\ d = q.dropped + 1 /\ Len(q.items) \in Nat
          BY <1>1, <2>1
        <4> HIDE DEF t, d, o
        <4>2. \A i \in 1 .. Len(q.items) : i + 1 \in 1 .. Len(g)
          BY <1>2, <4>1
        <4>3. \A i \in 1 .. Len(q.items) :
                 Tail(g)[i] = IF i + 1 = Len(q.items) + 1 THEN u ELSE q.items[i + 1]
          <5>1. TAKE i \in 1 .. Len(q.items)
          <5>2. Tail(g)[i] = g[i + 1] /\ i + 1 \in 1 .. Len(g)
            BY <1>3, <4>2, Zenon
          <5>3. g[i + 1] = IF i + 1 = Len(q.items) + 1 THEN u ELSE q.items[i + 1]
            BY <1>2, <5>2, Zenon
          <5> QED
            BY <5>2, <5>3, Zenon
        <4>4. Len(q.items) = Len(q.items) + 1 - 1
          BY <4>1
        <4> QED
          BY <1>3, <4>1, <4>3, <4>4, Zenon
      <3> QED
        BY <3>1, Zenon
    <2>2. CASE ~o
      <3>1. /\ d = q.dropped + 0 /\ Len(t) = Len(q.items) + 1 - 0
            /\ \A i \in 1 .. Len(t) :
                 t[i] = IF i + 0 = Len(q.items) + 1 THEN u ELSE q.items[i + 0]
        BY <1>1, <1>2, <2>2
      <3> QED
        BY <3>1, Zenon
    <2> QED
      BY <2>1, <2>2, Zenon
  <1> HIDE DEF t, d, h, o
  <1>7. p \in Queues
    BY <1>1, <1>4, <1>5, Zenon DEF Queues
  <1>8. p.items = t /\ p.dropped = d
    BY <1>4
  <1> QED
    BY <1>6, <1>7, <1>8, LeanFacts, Zenon DEF Grown, p

(* The other operations drop nothing; take_front takes the oldest unit. *)
LEMMA TakeFacts ==
    ASSUME NEW q \in Queues
    PROVE  /\ shutdown(q) \in Queues /\ shutdown(q).items = q.items
           /\ shutdown(q).dropped = q.dropped
           /\ Lean(discard_all(q)) \in Queues /\ Lean(discard_all(q)).items = << >>
           /\ Lean(discard_all(q)).dropped = q.dropped
           /\ reset \in Queues /\ reset.items = << >>
           /\ q.items # << >> =>
                 /\ Len(q.items) \in Nat \ {0}
                 /\ Head(q.items) = q.items[1] /\ Head(q.items) \in Units
                 /\ Lean(take_front(q)) \in Queues
                 /\ Lean(take_front(q)).dropped = q.dropped
                 /\ Len(Lean(take_front(q)).items) = Len(q.items) - 1
                 /\ \A i \in 1 .. Len(q.items) - 1 :
                       Lean(take_front(q)).items[i] = q.items[i + 1]
  <1>1. /\ shutdown(q) \in Queues /\ shutdown(q).items = q.items
        /\ shutdown(q).dropped = q.dropped
    BY Zenon DEF shutdown, Queues
  <1>2. reset \in Queues /\ reset.items = << >>
    BY DEF reset, Queues
  <1>3. discard_all(q) \in Queues /\ discard_all(q).items = << >>
        /\ discard_all(q).dropped = q.dropped
    <2>1. << >> \in Seq(Units) /\ q.discarded + Len(q.items) \in Nat
      BY DEF Queues
    <2> QED
      BY <2>1, Zenon DEF discard_all, Queues
  <1>4. ASSUME q.items # << >>
        PROVE  /\ Len(q.items) \in Nat \ {0}
               /\ Head(q.items) = q.items[1] /\ Head(q.items) \in Units
               /\ Lean(take_front(q)) \in Queues
               /\ Lean(take_front(q)).dropped = q.dropped
               /\ Len(Lean(take_front(q)).items) = Len(q.items) - 1
               /\ \A i \in 1 .. Len(q.items) - 1 :
                     Lean(take_front(q)).items[i] = q.items[i + 1]
    <2> DEFINE t == Tail(q.items)
    <2>1. /\ Len(q.items) \in Nat \ {0}
          /\ Head(q.items) = q.items[1] /\ Head(q.items) \in Units
          /\ t \in Seq(Units) /\ Len(t) = Len(q.items) - 1
          /\ \A i \in 1 .. Len(q.items) - 1 : t[i] = q.items[i + 1]
      BY <1>4 DEF Queues
    <2>2. take_front(q) = [q EXCEPT !.items = t, !.popped = @ + 1] /\ q.popped + 1 \in Nat
      BY <1>4 DEF take_front, Queues
    <2> HIDE DEF t
    <2>3. /\ take_front(q) \in Queues /\ take_front(q).items = t
          /\ take_front(q).dropped = q.dropped
      BY <2>1, <2>2, Zenon DEF Queues
    <2> QED
      BY <2>1, <2>3, LeanFacts, Zenon
  <1> QED
    BY <1>1, <1>2, <1>3, <1>4, LeanFacts, Zenon
-----------------------------------------------------------------------------
(* What changes neither the stream nor the gate, and does not enter a session. *)
LEMMA StreamKept ==
    ASSUME StreamInv, GateInv, UNCHANGED << head, media, unit, flow, sent >>,
           pc' = pc \/ (pc' \notin Session /\ pc \notin {"drain", "send"})
    PROVE  StreamInv' /\ GateInv'
  <1>1. StreamInv'
    BY Zenon DEF StreamInv, Held, Session
  <1>2. GateInv'
    BY Zenon DEF GateInv, Joined, Follows, NextSeq, Session
  <1> QED
    BY <1>1, <1>2, Zenon

(* A unit that is published, and what it makes the queue drop. *)
LEMMA PublishStep ==
    ASSUME StreamInv, GateInv, NEW k \in Kinds, PublishUnit(k)
    PROVE  StreamInv' /\ GateInv'
  <1> DEFINE n == Len(media.items)
  <1>1. /\ head \in Units /\ head.seq \in Nat /\ media \in Queues /\ flow \in Flows
        /\ media.items \in Seq(Units) /\ n \in Nat /\ n <= head.seq
        /\ media.dropped \in Nat /\ flow.drops \in Nat
    BY DEF StreamInv, Held, Units, Queues, Flows
  <1>2. head' \in Units /\ head'.seq = head.seq + 1 /\ head.gen <= head'.gen
    <2>1. k \in [key : BOOLEAN, has_pts : BOOLEAN, restart : BOOLEAN]
      BY WhipAssumption, Zenon
    <2> QED
      BY <1>1, <2>1 DEF PublishUnit, Units
  <1>3. /\ media' \in Queues /\ Grown(media, head', media')
        /\ UNCHANGED << pc, unit, flow, sent >>
    BY <1>1, <1>2, PushFacts, Zenon DEF PublishUnit, uplink
  <1>4. PICK d \in {0, 1} :
           /\ media'.dropped = media.dropped + d /\ Len(media'.items) = n + 1 - d
           /\ \A i \in 1 .. Len(media'.items) :
                 media'.items[i] = IF i + d = n + 1 THEN head' ELSE media.items[i + d]
    BY <1>3, Zenon DEF Grown
  <1>5. Held(media.items)'
    <2>1. ASSUME NEW i \in 1 .. Len(media'.items)
          PROVE  /\ media'.items[i].seq = head'.seq - Len(media'.items) + i
                 /\ media'.items[i].gen <= head'.gen
                 /\ \A j \in i .. Len(media'.items) :
                       media'.items[i].gen <= media'.items[j].gen
      <3>1. /\ \A j \in 1 .. n : /\ media.items[j].seq = head.seq - n + j
                                 /\ media.items[j].gen <= head.gen
            /\ \A j \in 1 .. n : \A m \in j .. n : media.items[j].gen <= media.items[m].gen
        BY Zenon DEF StreamInv, Held
      <3>2. /\ head.gen \in Nat /\ head'.gen \in Nat /\ n + 1 - d \in Nat
            /\ \A j \in 1 .. n : media.items[j].gen \in Nat
        <4>1. \A j \in 1 .. n : media.items[j] \in Units
          BY <1>1
        <4>2. n + 1 - d \in Nat
          BY <1>1, <1>4
        <4>3. \A u \in Units : u.gen \in Nat
          BY Zenon DEF Units
        <4> QED
          BY <1>1, <1>2, <4>1, <4>2, <4>3, Zenon
      <3> DEFINE Old(j) == j + d \in 1 .. n /\ media'.items[j] = media.items[j + d]
                 New(j) == j + d = n + 1 /\ media'.items[j] = head'
      <3> HIDE DEF n
      <3>3. \A j \in 1 .. n + 1 - d : New(j) \/ Old(j)
        BY <1>1, <1>4
      <3>4. i \in 1 .. n + 1 - d
        BY <1>4, Zenon
      <3>5. CASE New(i)
        <4>1. \A j \in i .. Len(media'.items) : j = i
          BY <1>1, <1>4, <3>4, <3>5
        <4>2. head'.seq = head'.seq - (n + 1 - d) + i
          <5>1. head'.seq \in Int /\ n \in Int /\ d \in Int /\ i \in Int /\ i + d = n + 1
            BY <1>1, <1>2, <3>4, <3>5
          <5> QED
            BY <5>1
        <4>3. head'.gen <= head'.gen
          BY <3>2
        <4> QED
          BY <1>4, <3>5, <4>1, <4>2, <4>3, Zenon
      <3>6. CASE Old(i)
        <4>1. /\ media'.items[i].seq = head.seq - n + (i + d)
              /\ media'.items[i].gen <= head'.gen /\ media'.items[i].gen \in Nat
          BY <1>2, <3>1, <3>2, <3>6
        <4>2. ASSUME NEW j \in i .. Len(media'.items)
              PROVE  media'.items[i].gen <= media'.items[j].gen
          <5>1. j \in 1 .. n + 1 - d /\ j + d \in i + d .. n + 1
            BY <1>1, <1>4, <3>4
          <5>2. CASE New(j)
            BY <4>1, <5>2, Zenon
          <5>3. CASE Old(j)
            <6>1. j + d \in i + d .. n
              BY <1>1, <3>4, <5>1, <5>3
            <6> QED
              BY <3>1, <3>6, <5>3, <6>1, Zenon
          <5> QED
            BY <3>3, <5>1, <5>2, <5>3, Zenon
        <4> QED
          BY <1>1, <1>2, <1>4, <3>4, <4>1, <4>2
      <3> QED
        BY <3>3, <3>4, <3>5, <3>6, Zenon
    <2>2. Len(media'.items) <= head'.seq
      BY <1>1, <1>2, <1>4
    <2> QED
      BY <2>1, <2>2, Zenon DEF Held
  <1>6. StreamInv'
    BY <1>2, <1>3, <1>5, Zenon DEF StreamInv
  <1>7. NextSeq' = NextSeq + d /\ NextSeq \in Int
    BY <1>1, <1>2, <1>4 DEF NextSeq
  <1>8. GateInv'
    <2>1. CASE d = 0
      <3>1. NextSeq' = NextSeq /\ media'.dropped = media.dropped
        BY <1>1, <1>4, <1>7, <2>1
      <3> QED
        BY <1>3, <3>1, Zenon DEF GateInv, Joined, Follows
    <2>2. CASE d = 1
      BY <1>1, <1>3, <1>4, <2>2 DEF GateInv, Joined
    <2> QED
      BY <1>4, <2>1, <2>2, Zenon
  <1> QED
    BY <1>6, <1>8, Zenon

(* The queue of a discard or a reset holds nothing. *)
LEMMA HeldNothing ==
    ASSUME StreamInv, head' = head, media'.items = << >> PROVE Held(media.items)'
  BY DEF StreamInv, Held, Units

(* A session begins with the gate closed. *)
LEMMA PostStep ==
    ASSUME StreamInv, GateInv, Post PROVE StreamInv' /\ GateInv'
  <1>1. CASE pc' = "close"
    <2>1. UNCHANGED << head, media, unit, flow, sent >> /\ pc = "post"
      BY <1>1, Zenon DEF Post, input
    <2> QED
      BY <1>1, <2>1, StreamKept, Zenon DEF Session
  <1>2. CASE pc' # "close"
    <2>1. /\ pc = "post" /\ pc' = "check" /\ flow' = [NewFlow EXCEPT !.drops = media.dropped]
          /\ UNCHANGED << head, media, unit, sent >>
      BY <1>2, Zenon DEF Post, input
    <2>2. media.dropped \in Nat
      BY Zenon DEF StreamInv, Queues
    <2>3. flow' \in Flows /\ flow'.waiting = TRUE /\ flow'.drops = media.dropped
      BY <2>1, <2>2, Zenon DEF NewFlow, Flows
    <2>4. StreamInv'
      BY <2>1, <2>3, Zenon DEF StreamInv, Held
    <2>5. GateInv'
      BY <2>1, <2>2, <2>3 DEF GateInv, Joined, StreamInv
    <2> QED
      BY <2>4, <2>5, Zenon
  <1> QED
    BY <1>1, <1>2, Zenon

(* An interruption closes the gate before units flow again. *)
LEMMA CheckStep ==
    ASSUME StreamInv, GateInv, Check PROVE StreamInv' /\ GateInv'
  <1>1. /\ pc = "check" /\ unit = NoUnit /\ UNCHANGED << head, unit, sent >>
        /\ flow \in Flows /\ media \in Queues
    BY Zenon DEF Check, StreamInv
  <1>2. CASE pc' = "close" /\ UNCHANGED << flow, media >>
    BY <1>1, <1>2, StreamKept, Zenon DEF Session
  <1>3. CASE /\ UNCHANGED pc
             /\ flow' = [flow EXCEPT !.awaiting = TRUE,
                                     !.closed = @ \/ (flow.opened /\ track = "closed")]
             /\ media' = IF flow.awaiting THEN media ELSE Lean(discard_all(media))
    <2>1. flow' \in Flows /\ flow'.awaiting = TRUE /\ flow'.drops = flow.drops
      BY <1>1, <1>3, Zenon DEF Flows
    <2>2. media' \in Queues /\ media'.dropped = media.dropped /\ Held(media.items)'
      <3>1. CASE flow.awaiting
        BY <1>1, <1>3, <3>1, Zenon DEF StreamInv, Held
      <3>2. CASE ~flow.awaiting
        BY <1>1, <1>3, <3>2, TakeFacts, HeldNothing, Zenon
      <3> QED
        BY <3>1, <3>2, Zenon
    <2>3. StreamInv'
      BY <1>1, <1>3, <2>1, <2>2, Zenon DEF StreamInv
    <2>4. GateInv'
      BY <1>1, <1>3, <2>1, <2>2, Zenon DEF GateInv, Joined, Session
    <2> QED
      BY <2>3, <2>4, Zenon
  <1>4. CASE /\ flow' = [flow EXCEPT !.waiting = @ \/ flow.awaiting, !.awaiting = FALSE,
                                     !.opened = TRUE, !.closed = FALSE]
             /\ pc' = "pop" /\ UNCHANGED media
    <2>1. /\ flow' \in Flows /\ flow'.awaiting = FALSE /\ flow'.drops = flow.drops
          /\ flow'.waiting = (flow.waiting \/ flow.awaiting)
      BY <1>1, <1>4, Zenon DEF Flows
    <2>2. StreamInv'
      BY <1>1, <1>4, <2>1, Zenon DEF StreamInv, Held
    <2>3. GateInv'
      BY <1>1, <1>4, <2>1, Zenon DEF GateInv, Joined, Follows, NextSeq, Session
    <2> QED
      BY <2>2, <2>3, Zenon
  <1> QED
    BY <1>1, <1>2, <1>3, <1>4, Zenon DEF Check

(* A pop takes the unit that is next. *)
LEMMA PopStep ==
    ASSUME StreamInv, GateInv, Pop PROVE StreamInv' /\ GateInv'
  <1>1. /\ pc = "pop" /\ pc' = "drain" /\ unit = NoUnit /\ UNCHANGED << head, flow, sent >>
        /\ media \in Queues
    BY Zenon DEF Pop, StreamInv
  <1>2. CASE media.items = << >>
    <2>1. UNCHANGED << unit, media >>
      BY <1>2, Zenon DEF Pop
    <2>2. StreamInv'
      BY <1>1, <2>1, Zenon DEF StreamInv, Held
    <2>3. GateInv'
      BY <1>1, <2>1, Zenon DEF GateInv, Joined, Follows, NextSeq, Session
    <2> QED
      BY <2>2, <2>3, Zenon
  <1>3. CASE media.items # << >>
    <2> DEFINE n == Len(media.items)
    <2>1. /\ unit' = media.items[1] /\ unit' \in Units /\ n \in Nat \ {0}
          /\ media' \in Queues /\ media'.dropped = media.dropped
          /\ Len(media'.items) = n - 1
          /\ \A i \in 1 .. n - 1 : media'.items[i] = media.items[i + 1]
      BY <1>1, <1>3, TakeFacts, Zenon DEF Pop
    <2>2. /\ head.seq \in Nat /\ n <= head.seq
          /\ \A i \in 1 .. n : /\ media.items[i].seq = head.seq - n + i
                               /\ media.items[i].gen <= head.gen
          /\ \A i \in 1 .. n : \A j \in i .. n : media.items[i].gen <= media.items[j].gen
      BY Zenon DEF StreamInv, Held, Units
    <2> HIDE DEF n
    <2>3. unit'.seq = head.seq - n + 1 /\ unit'.seq # 0 /\ unit' # NoUnit
      BY <2>1, <2>2 DEF NoUnit
    <2>4. Held(media.items)'
      <3>1. \A i \in 1 .. n - 1 : /\ i + 1 \in 1 .. n
                                   /\ \A j \in i .. n - 1 : j \in 1 .. n - 1 /\ j + 1 \in i + 1 .. n
        BY <2>1
      <3>2. \A i \in 1 .. n - 1 : /\ media'.items[i].seq = head.seq - (n - 1) + i
                                   /\ media'.items[i].gen <= head.gen
        <4> TAKE i \in 1 .. n - 1
        <4>1. media'.items[i] = media.items[i + 1] /\ i + 1 \in 1 .. n
          BY <2>1, <3>1, Zenon
        <4>2. media'.items[i].seq = head.seq - n + (i + 1) /\ media'.items[i].gen <= head.gen
          BY <2>2, <4>1, Zenon
        <4>3. head.seq \in Int /\ n \in Int /\ i \in Int
          BY <2>1, <2>2
        <4>4. head.seq - n + (i + 1) = head.seq - (n - 1) + i
          BY <4>3
        <4> QED
          BY <4>2, <4>4, Zenon
      <3>3. \A i \in 1 .. n - 1 : \A j \in i .. n - 1 :
               media'.items[i].gen <= media'.items[j].gen
        BY <2>1, <2>2, <3>1, Zenon
      <3>4. n - 1 <= head.seq
        BY <2>1, <2>2
      <3> QED
        BY <1>1, <2>1, <3>2, <3>3, <3>4, Zenon DEF Held
    <2>5. StreamInv'
      BY <1>1, <2>1, <2>3, <2>4, Zenon DEF StreamInv
    <2>6. NextSeq = unit'.seq /\ NextSeq' = unit'.seq + 1
      BY <1>1, <2>1, <2>2, <2>3 DEF NextSeq, n
    <2>7. GateInv'
      BY <1>1, <2>1, <2>3, <2>6, Zenon DEF GateInv, Joined, Follows, Session
    <2> QED
      BY <2>5, <2>7, Zenon
  <1> QED
    BY <1>2, <1>3, Zenon

(* What the session remembers of a unit that is sent. *)
LEMMA SentFacts ==
    ASSUME Send, pc' = "check", unit.key \/ ~Gated
    PROVE  /\ sent'.unit = unit /\ sent'.ts = clock'.last
           /\ sent'.anchor = (IF unit.has_pts THEN unit ELSE sent.anchor)
           /\ sent'.at = (IF unit.has_pts THEN clock'.last ELSE sent.at)
           /\ sent'.raced = (media.dropped # flow.drops)
  <1> DEFINE sei    == IF unit.has_pts THEN take_for(pending, unit.pts, unit.gen) ELSE << >>
             anchor == IF unit.has_pts THEN unit ELSE sent.anchor
             at     == IF unit.has_pts THEN clock'.last ELSE sent.at
             raced  == media.dropped # flow.drops
  <1>1. sent' = [unit |-> unit, ts |-> clock'.last, sei |-> sei, anchor |-> anchor, at |-> at,
                 raced |-> raced]
    <2>1. ~(Gated /\ ~unit.key) /\ pc' # "close"
      BY Zenon
    <2> QED
      BY <2>1, Zenon DEF Send
  <1> HIDE DEF sei, anchor, at, raced
  <1>2. sent'.unit = unit /\ sent'.ts = clock'.last /\ sent'.anchor = anchor /\ sent'.at = at
        /\ sent'.raced = raced
    BY <1>1, Zenon
  <1> QED
    BY <1>2, Zenon DEF anchor, at, raced

(* What a send does to the gate. *)
LEMMA SendFacts ==
    ASSUME StreamInv, GateInv, Send
    PROVE  /\ pc = "send" /\ unit # NoUnit /\ unit' = NoUnit /\ UNCHANGED << head, media >>
           /\ flow' \in Flows /\ flow'.drops = media.dropped /\ flow'.awaiting = FALSE
           /\ \/ pc' = "check" /\ UNCHANGED << sent, clock >> /\ flow'.waiting = TRUE
              \/ pc' = "close" /\ UNCHANGED sent
              \/ pc' = "check" /\ (unit.key \/ ~Gated)
  <1>1. /\ pc = "send" /\ unit # NoUnit /\ unit' = NoUnit /\ UNCHANGED << head, media >>
        /\ flow \in Flows /\ media.dropped \in Nat
    BY Zenon DEF Send, StreamInv, Queues, input
  <1>2. flow.awaiting = FALSE
    BY <1>1, Zenon DEF GateInv, Session, Flows
  <1>3. CASE Gated /\ ~unit.key
    <2>1. /\ flow' = [flow EXCEPT !.waiting = TRUE, !.drops = media.dropped]
          /\ pc' = "check" /\ UNCHANGED << sent, clock >>
      BY <1>3, Zenon DEF Send
    <2> QED
      BY <1>1, <1>2, <2>1, Zenon DEF Flows
  <1>4. CASE ~(Gated /\ ~unit.key)
    <2>1. /\ flow' = [flow EXCEPT !.waiting = FALSE, !.drops = media.dropped]
          /\ pc' = "check" \/ (pc' = "close" /\ UNCHANGED sent)
      BY <1>4, Zenon DEF Send
    <2>2. flow' \in Flows /\ flow'.drops = media.dropped /\ flow'.awaiting = FALSE
      BY <1>1, <1>2, <2>1, Zenon DEF Flows
    <2> QED
      BY <1>1, <1>4, <2>1, <2>2, Zenon
  <1> QED
    BY <1>3, <1>4, Zenon

(* A unit that goes through the gate is the one the next unit follows, but   *)
(* for a drop since the last look, which only a keyframe passes.             *)
LEMMA SendStep ==
    ASSUME StreamInv, GateInv, Send PROVE StreamInv' /\ GateInv'
  <1>1. /\ pc = "send" /\ unit # NoUnit /\ unit' = NoUnit /\ UNCHANGED << head, media >>
        /\ flow' \in Flows /\ flow'.drops = media.dropped /\ pc' \in {"check", "close"}
        /\ unit \in Units /\ media.dropped \in Nat
    BY SendFacts, Zenon DEF StreamInv, Queues
  <1>2. /\ sent'.unit \in Units /\ sent'.raced \in BOOLEAN
    BY <1>1, SendFacts, SentFacts, Zenon DEF StreamInv
  <1>3. StreamInv'
    <2>1. NoUnit \in Units /\ NoUnit.seq = 0
      BY Zenon DEF NoUnit, Units
    <2>2. Held(media.items)'
      BY <1>1, Zenon DEF StreamInv, Held
    <2> QED
      BY <1>1, <1>2, <2>1, <2>2, Zenon DEF StreamInv
  <1>4. CASE pc' = "close"
    BY <1>3, <1>4, Zenon DEF GateInv, Session
  <1>5. CASE pc' = "check" /\ flow'.waiting = TRUE
    BY <1>1, <1>3, <1>5 DEF GateInv, Joined
  <1>6. CASE pc' = "check" /\ (unit.key \/ ~Gated)
    <2> sent'.unit = unit /\ sent'.raced = (media.dropped # flow.drops)
      BY <1>6, SentFacts, Zenon
    <2>1. NextSeq = unit.seq + 1 \/ media.dropped # flow.drops
      BY <1>1, Zenon DEF GateInv, Session
    <2>2. NextSeq' = NextSeq /\ unit.seq \in Nat
      BY <1>1, Zenon DEF NextSeq, Units
    <2>3. CASE media.dropped # flow.drops
      <3>1. unit.key /\ sent'.raced
        BY <1>6, <2>3, Zenon DEF Gated
      <3>2. Follows(NextSeq)'
        BY <1>1, <1>6, <3>1, Zenon DEF Follows
      <3> QED
        BY <1>1, <1>3, <1>6, <3>2 DEF GateInv, Joined
    <2>4. CASE NextSeq = unit.seq + 1
      <3>1. sent'.unit.seq = NextSeq' - 1
        BY <1>6, <2>2, <2>4
      <3>2. Follows(NextSeq)'
        BY <1>1, <1>6, <3>1, Zenon DEF Follows
      <3> QED
        BY <1>1, <1>3, <1>6, <3>2 DEF GateInv, Joined
    <2> QED
      BY <2>1, <2>3, <2>4, Zenon
  <1> QED
    BY <1>3, <1>4, <1>5, <1>6, SendFacts, Zenon

(* What the server decodes: no step of the program loses the place of the    *)
(* next unit unnoticed.                                                      *)
LEMMA StreamStep ==
    ResourceInv /\ StreamInv /\ GateInv /\ [Next]_vars => StreamInv' /\ GateInv'
  <1> SUFFICES ASSUME ResourceInv, StreamInv, GateInv, [Next]_vars PROVE StreamInv' /\ GateInv'
    BY Zenon
  <1>1. CASE Initialize
    <2>1. /\ pc' = "begin" /\ media' = reset /\ UNCHANGED << head, unit, flow, sent >>
          /\ pc = "off" /\ media \in Queues
      BY <1>1, Zenon DEF Initialize, uplink, ResourceInv, StreamInv
    <2>2. StreamInv'
      BY <2>1, TakeFacts, HeldNothing, Zenon DEF StreamInv
    <2> QED
      BY <2>1, <2>2, Zenon DEF GateInv, Session
  <1>2. CASE Begin \/ Gather \/ Close \/ Caught \/ Report \/ Wake \/ Wait
    <2>1. /\ UNCHANGED << head, media, unit, flow, sent >>
          /\ pc' \notin Session /\ pc \notin {"drain", "send"}
      BY <1>2, Zenon DEF Begin, Gather, Close, Caught, Report, Wake, Wait, uplink, input, Session
    <2> QED
      BY <2>1, StreamKept, Zenon
  <1>3. CASE Post
    BY <1>3, PostStep, Zenon
  <1>4. CASE Check
    BY <1>4, CheckStep, Zenon
  <1>5. CASE Pop
    BY <1>5, PopStep, Zenon
  <1>6. CASE Drain
    <2>1. /\ UNCHANGED << head, media, unit, flow, sent >> /\ pc = "drain"
          /\ pc' = pc \/ pc' = IF unit = NoUnit THEN "check" ELSE "send"
      BY <1>6, Zenon DEF Drain
    <2>2. StreamInv'
      BY <2>1, Zenon DEF StreamInv, Held
    <2>3. GateInv'
      BY <2>1, Zenon DEF GateInv, Joined, Follows, NextSeq, Session
    <2> QED
      BY <2>2, <2>3, Zenon
  <1>7. CASE Send
    BY <1>7, SendStep, Zenon
  <1>8. CASE Delete
    <2>1. /\ UNCHANGED << head, media, unit >> /\ pc = "delete" /\ pc' = "caught"
          /\ flow' = NewFlow /\ sent' = NoSent
      BY <1>8, Zenon DEF Delete, input
    <2>2. NewFlow \in Flows /\ NoSent.unit \in Units /\ NoSent.raced \in BOOLEAN
      BY Zenon DEF NewFlow, Flows, NoSent, NoUnit, Units
    <2>3. StreamInv'
      BY <2>1, <2>2, Zenon DEF StreamInv, Held
    <2> QED
      BY <2>1, <2>3, Zenon DEF GateInv, Session
  <1>9. CASE Decide
    <2>1. /\ UNCHANGED << head, unit, flow, sent >> /\ pc = "decide"
          /\ pc' \in {"done", "asleep"} /\ media \in Queues
          /\ media' = media \/ media' = Lean(discard_all(media))
      BY <1>9, Zenon DEF Decide, uplink, StreamInv
    <2>2. media' \in Queues /\ Held(media.items)'
      BY <2>1, TakeFacts, HeldNothing, Zenon DEF StreamInv, Held
    <2>3. StreamInv'
      BY <2>1, <2>2, Zenon DEF StreamInv
    <2> QED
      BY <2>1, <2>3, Zenon DEF GateInv, Session
  <1>10. CASE Stop
    <2>1. /\ UNCHANGED << pc, head, unit, flow, sent >> /\ media \in Queues
          /\ media' = shutdown(media)
      BY <1>10, Zenon DEF Stop, uplink, StreamInv
    <2>2. media' \in Queues /\ media'.items = media.items /\ media'.dropped = media.dropped
      BY <2>1, TakeFacts, Zenon
    <2>3. StreamInv'
      BY <2>1, <2>2, Zenon DEF StreamInv, Held
    <2>4. GateInv'
      BY <2>1, <2>2, Zenon DEF GateInv, Joined, Follows, NextSeq
    <2> QED
      BY <2>3, <2>4, Zenon
  <1>11. CASE \E k \in Kinds : PublishUnit(k)
    BY <1>11, PublishStep, Zenon
  <1>12. CASE \/ Gathered \/ Connected \/ Disconnected \/ Failed \/ TrackChanges
              \/ \E limit \in {"grace", "connect", "track"} : TimePasses(limit)
              \/ \E boxes \in BoxLists, lag \in Lags : PublishDetections(boxes, lag)
              \/ UNCHANGED vars
    <2>1. UNCHANGED << pc, head, media, unit, flow, sent >>
      BY <1>12, Zenon DEF Gathered, Connected, Disconnected, Failed, TrackChanges, TimePasses,
                          PublishDetections, uplink, input, vars
    <2> QED
      BY <2>1, StreamKept, Zenon
  <1> QED
    BY <1>1, <1>2, <1>3, <1>4, <1>5, <1>6, <1>7, <1>8, <1>9, <1>10, <1>11, <1>12,
       Zenon DEF Next, Worker

(* The stream and the gate are as described throughout. *)
LEMMA StreamCorrect == Spec => [](StreamInv /\ GateInv)
  <1>1. Init => StreamInv /\ GateInv
    BY DEF Init, StreamInv, GateInv, Session, Held, reset, NoUnit, Units, Queues, NewFlow, Flows,
           NoSent
  <1> QED
    BY <1>1, StreamStep, ResourceCorrect, PTL DEF Spec

(* Only a send, or the end of the session, changes what was sent. *)
LEMMA OnlySend ==
    ASSUME [Next]_vars, ~Send PROVE UNCHANGED sent \/ sent' = NoSent
  BY Zenon DEF Next, vars, Worker, Initialize, Begin, Gather, Post, Check, Pop, Drain,
     Close, Delete, Caught, Report, Decide, Wake, Stop, Wait, Gathered, Connected, Disconnected,
     Failed, TrackChanges, TimePasses, PublishUnit, PublishDetections, uplink

(* The server can decode what run sends: a unit is preceded, in the session, *)
(* by the one before it in the stream, or is a keyframe, or comes after a    *)
(* keyframe that was sent while units were being dropped.                    *)
THEOREM UplinkDecodable == Spec => DecodableUplink
  <1> DEFINE Decodable ==
        sent'.unit # sent.unit /\ sent' # NoSent /\ ~sent'.unit.key =>
          /\ sent.unit # NoUnit
          /\ sent.unit.seq = sent'.unit.seq - 1 \/ (sent.unit.key /\ sent.raced)
  <1>1. ASSUME StreamInv, GateInv, Send PROVE Decodable
    <2> SUFFICES ASSUME sent'.unit # sent.unit, ~sent'.unit.key
                 PROVE  Follows(sent'.unit.seq)
      BY Zenon DEF Follows
    <2>1. pc' = "check" /\ (unit.key \/ ~Gated)
      BY <1>1, SendFacts, Zenon
    <2>2. sent'.unit = unit
      BY <1>1, <2>1, SentFacts, Zenon
    <2>3. ~flow.waiting /\ media.dropped = flow.drops
      BY <2>1, <2>2, Zenon DEF Gated
    <2>4. Joined(unit.seq) /\ ~flow.awaiting
      BY <1>1, SendFacts, Zenon DEF GateInv, Session
    <2> QED
      BY <2>2, <2>3, <2>4, Zenon DEF Joined
  <1>2. ASSUME [Next]_vars, ~Send PROVE UNCHANGED sent \/ sent' = NoSent
    BY <1>2, OnlySend, Zenon
  <1>3. StreamInv /\ GateInv /\ [Next]_vars => [Decodable]_vars
    BY <1>1, <1>2, Zenon
  <1> QED
    BY <1>3, StreamCorrect, PTL DEF Spec, DecodableUplink
-----------------------------------------------------------------------------
(* Arithmetic modulo the width of a timestamp. *)
LEMMA ModRange ==
    ASSUME NEW M \in Nat \ {0}, NEW x \in Int
    PROVE  x % M \in 0 .. M - 1 /\ \E k \in Int : x % M = x + M * k
  <1>1. x \div M \in Int /\ x = M * (x \div M) + (x % M) /\ x % M \in 0 .. M - 1
    OBVIOUS
  <1> DEFINE q == x \div M
             r == x % M
  <1> HIDE DEF q, r
  <1>2. r = x + M * (-q) /\ -q \in Int
    BY <1>1 DEF q, r
  <1> QED
    BY <1>1, <1>2, Zenon DEF q, r

LEMMA ModUnique ==
    ASSUME NEW M \in Nat \ {0}, NEW q \in Int, NEW r \in 0 .. M - 1
    PROVE  (r + M * q) % M = r
  OBVIOUS

LEMMA ModShift ==
    ASSUME NEW M \in Nat \ {0}, NEW x \in Int, NEW k \in Int
    PROVE  (x + M * k) % M = x % M
  <1>1. PICK j \in Int : x % M = x + M * j
    BY ModRange, Zenon
  <1> DEFINE r == x % M
  <1>2. r \in 0 .. M - 1
    BY ModRange, Zenon
  <1>3. r = x + M * j
    BY <1>1, Zenon
  <1> HIDE DEF r
  <1>4. x + M * k = r + M * (k - j) /\ k - j \in Int
    BY <1>2, <1>3
  <1>5. (r + M * (k - j)) % M = r
    BY <1>2, <1>4, ModUnique, Zenon
  <1> QED
    BY <1>4, <1>5, Zenon DEF r

(* A step from x is what the distance from x gives back. *)
LEMMA ModStep ==
    ASSUME NEW M \in Nat \ {0}, NEW x \in Int, NEW f \in 0 .. M - 1
    PROVE  (((x + f) % M) - x) % M = f
  <1>1. PICK j \in Int : (x + f) % M = x + f + M * j
    <2>1. x + f \in Int
      OBVIOUS
    <2> QED
      BY <2>1, ModRange, Zenon
  <1>2. (x + f + M * j) - x = f + M * j
    OBVIOUS
  <1>3. (f + M * j) % M = f
    BY ModUnique, Zenon
  <1> QED
    BY <1>1, <1>2, <1>3, Zenon

(* The offset that leads from t to n. *)
LEMMA ModBack ==
    ASSUME NEW M \in Nat \ {0}, NEW t \in Int, NEW n \in 0 .. M - 1
    PROVE  (t + ((n - t) % M)) % M = n
  <1>1. PICK j \in Int : (n - t) % M = n - t + M * j
    <2>1. n - t \in Int
      OBVIOUS
    <2> QED
      BY <2>1, ModRange, Zenon
  <1>2. t + (n - t + M * j) = n + M * j
    OBVIOUS
  <1>3. (n + M * j) % M = n
    BY ModUnique, Zenon
  <1> QED
    BY <1>1, <1>2, <1>3, Zenon

(* An offset does not change distances. *)
LEMMA ModDiff ==
    ASSUME NEW M \in Nat \ {0}, NEW a \in Int, NEW b \in Int, NEW o \in Int
    PROVE  ((((a % M) + o) % M) - (((b % M) + o) % M)) % M = (a - b) % M
  <1>1. PICK i \in Int : a % M = a + M * i
    BY ModRange, Zenon
  <1>2. PICK j \in Int : b % M = b + M * j
    BY ModRange, Zenon
  <1> DEFINE c == a + M * i + o
             d == b + M * j + o
  <1>3. c \in Int /\ d \in Int
    OBVIOUS
  <1>4. PICK k \in Int : c % M = c + M * k
    BY <1>3, ModRange, Zenon
  <1>5. PICK l \in Int : d % M = d + M * l
    BY <1>3, ModRange, Zenon
  <1>6. /\ (c + M * k) - (d + M * l) = (a - b) + M * (i + k - j - l)
        /\ i + k - j - l \in Int /\ a - b \in Int
    OBVIOUS
  <1>7. ((a - b) + M * (i + k - j - l)) % M = (a - b) % M
    BY <1>6, ModShift, Zenon
  <1> QED
    BY <1>1, <1>2, <1>4, <1>5, <1>6, <1>7, Zenon

LEMMA ModulusFacts == Modulus \in Nat \ {0} /\ MaxStep \in Nat /\ MaxStep < Modulus
  BY ClockAssumption

(* The clock after it has given a unit its timestamp. *)
Stamp(c, u) == timestamp(c, u.gen, u.has_pts, u.pts)

(* WhipRtpClock::timestamp: a restart of the source continues the session's  *)
(* time by one frame; otherwise the offset to the PTS stays.                 *)
LEMMA TimestampFacts ==
    ASSUME NEW c \in Clocks, NEW u \in Units
    PROVE  /\ Stamp(c, u) \in Clocks /\ Stamp(c, u).has_last = TRUE
           /\ Stamp(c, u).generation = u.gen
           /\ c.has_last /\ u.gen # c.generation =>
                 (Stamp(c, u).last - c.last) % Modulus \in 1 .. MaxStep
           /\ u.has_pts =>
                 /\ Stamp(c, u).last_pts # None
                 /\ Stamp(c, u).last = (h264_rtp_timestamp(u.pts) + Stamp(c, u).offset) % Modulus
           /\ u.gen = c.generation /\ c.last_pts # None =>
                 Stamp(c, u).offset = c.offset /\ Stamp(c, u).last_pts # None
  <1> DEFINE after == Stamp(c, u)
  <1> HIDE DEF after
  <1> DEFINE g == u.gen
             p == u.pts
  <1>0. g \in Nat /\ p \in Nat
    BY Zenon DEF Units
  <1> HIDE DEF g, p
  <1> DEFINE anchor == Anchor(c, g)
             next   == IF c.has_last THEN (c.last + c.frame_ticks) % Modulus ELSE c.start
             ticks  == h264_rtp_timestamp(p)
             step   == Signed((ticks - anchor) % Modulus)
             offset == IF c.has_last /\ anchor = None THEN (next - ticks) % Modulus ELSE c.offset
             frame  == IF anchor # None /\ step \in 1 .. MaxStep THEN step ELSE c.frame_ticks
             base   == [c EXCEPT !.generation = g, !.has_last = TRUE]
  <1>1. /\ c.last \in 0 .. Modulus - 1 /\ c.start \in 0 .. Modulus - 1 /\ c.has_last \in BOOLEAN
        /\ c.offset \in 0 .. Modulus - 1 /\ c.frame_ticks \in 1 .. MaxStep
        /\ c.last_pts \in {None} \cup 0 .. Modulus - 1 /\ base \in Clocks
    BY <1>0, Zenon DEF Clocks
  <1>2. ticks \in 0 .. Modulus - 1 /\ ticks \in Int /\ ticks # None
    <2>1. p * TicksPerUnit \in Int
      BY <1>0, ClockAssumption
    <2>2. ticks \in 0 .. Modulus - 1
      BY <2>1, ModulusFacts, ModRange, Zenon DEF h264_rtp_timestamp
    <2> QED
      BY <2>2, ModulusFacts DEF None
  <1>3. /\ anchor \in {None} \cup 0 .. Modulus - 1
        /\ c.has_last /\ g # c.generation => anchor = None
        /\ g = c.generation => anchor = c.last_pts
    BY <1>1, Zenon DEF Anchor
  <1>4. next \in 0 .. Modulus - 1 /\ next \in Int
    <2>1. c.last + c.frame_ticks \in Int
      BY <1>1, ModulusFacts
    <2>2. (c.last + c.frame_ticks) % Modulus \in 0 .. Modulus - 1
      BY <2>1, ModulusFacts, ModRange, Zenon
    <2> QED
      BY <1>1, <2>2, ModulusFacts
  <1>5. frame \in 1 .. MaxStep
    BY <1>1, Zenon
  <1> HIDE DEF ticks, anchor, next, step, frame
  <1>6. offset \in 0 .. Modulus - 1
    <2>1. next - ticks \in Int
      BY <1>2, <1>4
    <2>2. (next - ticks) % Modulus \in 0 .. Modulus - 1
      BY <2>1, ModulusFacts, ModRange, Zenon
    <2> QED
      BY <1>1, <2>2, Zenon
  <1>7. (ticks + offset) % Modulus \in 0 .. Modulus - 1
    <2>1. ticks + offset \in Int
      BY <1>2, <1>6, ModulusFacts
    <2> QED
      BY <2>1, ModulusFacts, ModRange, Zenon
  <1>8. c.has_last => (next - c.last) % Modulus = c.frame_ticks
    <2>1. c.last \in Int /\ c.frame_ticks \in 0 .. Modulus - 1
      BY <1>1, ModulusFacts
    <2> QED
      BY <2>1, ModulusFacts, ModStep, Zenon DEF next
  <1>9. c.has_last /\ anchor = None => (ticks + offset) % Modulus = next
    BY <1>2, <1>4, ModulusFacts, ModBack, Zenon
  <1>10. CASE u.has_pts
    <2>1. after = [base EXCEPT !.offset = offset, !.last_pts = ticks,
                               !.last = (ticks + offset) % Modulus, !.frame_ticks = frame]
      BY <1>10, Zenon DEF Stamp, after, timestamp, ticks, anchor, next, step, frame, g, p
    <2> HIDE DEF offset
    <2>2. /\ after \in Clocks /\ after.has_last = TRUE /\ after.generation = g
          /\ after.offset = offset /\ after.last_pts = ticks
          /\ after.last = (ticks + offset) % Modulus
      BY <1>0, <1>2, <1>5, <1>6, <1>7, <2>1, Zenon DEF Clocks
    <2> QED
      BY <1>1, <1>2, <1>3, <1>8, <1>9, <2>2, Zenon DEF offset, ticks, g, p, after
  <1>11. CASE ~u.has_pts
    <2>1. after = [base EXCEPT !.last = next, !.last_pts = anchor]
      BY <1>11, Zenon DEF Stamp, after, timestamp, anchor, next, g, p
    <2>2. /\ after \in Clocks /\ after.has_last = TRUE /\ after.generation = g
          /\ after.offset = c.offset /\ after.last_pts = anchor /\ after.last = next
      BY <1>0, <1>3, <1>4, <2>1, Zenon DEF Clocks
    <2> QED
      BY <1>1, <1>3, <1>8, <1>11, <2>2, Zenon DEF g, after
  <1> QED
    BY <1>10, <1>11, Zenon
-----------------------------------------------------------------------------
(* Steps that move no unit, but may empty the queue. *)
LEMMA GenKept ==
    ASSUME GenInv, UNCHANGED << head, unit, sent >>, media'.items \in {media.items, << >>}
    PROVE  GenInv'
  BY DEF GenInv

(* Units only move forward, from the source to the queue to the worker. *)
LEMMA GenStep ==
    ResourceInv /\ StreamInv /\ GateInv /\ GenInv /\ [Next]_vars => GenInv'
  <1> SUFFICES ASSUME ResourceInv, StreamInv, GateInv, GenInv, [Next]_vars PROVE GenInv'
    BY Zenon
  <1>1. /\ head \in Units /\ unit \in Units /\ media \in Queues /\ sent.unit \in Units
        /\ media.items \in Seq(Units)
    BY Zenon DEF StreamInv, Queues
  <1>2. \A u \in Units : u.gen \in Nat
    BY Zenon DEF Units
  <1>3. \A i \in 1 .. Len(media.items) : media.items[i].gen \in Nat
    BY <1>1, <1>2
  <1>4. CASE \E k \in Kinds : PublishUnit(k)
    <2>1. PICK k \in Kinds : PublishUnit(k)
      BY <1>4, Zenon
    <2>2. head' \in Units /\ head.gen <= head'.gen
      <3>1. k \in [key : BOOLEAN, has_pts : BOOLEAN, restart : BOOLEAN]
        BY WhipAssumption, Zenon
      <3> QED
        BY <1>1, <2>1, <3>1 DEF PublishUnit, Units
    <2>3. Grown(media, head', media') /\ UNCHANGED << unit, sent >>
      BY <1>1, <2>1, <2>2, PushFacts, Zenon DEF PublishUnit, uplink
    <2>4. ASSUME NEW i \in 1 .. Len(media'.items)
          PROVE  media'.items[i] = head' \/ \E j \in 1 .. Len(media.items) :
                                                media'.items[i] = media.items[j]
      <3>1. PICK d \in {0, 1} :
               /\ Len(media'.items) = Len(media.items) + 1 - d
               /\ \A m \in 1 .. Len(media'.items) :
                     media'.items[m] = IF m + d = Len(media.items) + 1 THEN head'
                                       ELSE media.items[m + d]
        BY <2>3, Zenon DEF Grown
      <3>2. Len(media.items) \in Nat
        BY <1>1
      <3>3. i + d = Len(media.items) + 1 \/ i + d \in 1 .. Len(media.items)
        BY <3>1, <3>2
      <3> QED
        BY <3>1, <3>3, Zenon
    <2>5. sent.unit.gen <= head'.gen /\ (unit # NoUnit => unit.gen <= head'.gen)
      BY <1>1, <1>2, <2>2 DEF GenInv
    <2>6. \A i \in 1 .. Len(media'.items) :
             /\ sent.unit.gen <= media'.items[i].gen
             /\ unit # NoUnit => unit.gen <= media'.items[i].gen
      BY <2>4, <2>5, Zenon DEF GenInv
    <2> QED
      BY <2>3, <2>5, <2>6, Zenon DEF GenInv
  <1>5. CASE Pop
    <2>1. CASE media.items = << >>
      BY <1>5, <2>1, GenKept, Zenon DEF Pop
    <2>2. CASE media.items # << >>
      <3> DEFINE n == Len(media.items)
      <3>1. /\ unit' = media.items[1] /\ n \in Nat \ {0}
            /\ Len(media'.items) = n - 1 /\ UNCHANGED << head, sent >>
            /\ \A i \in 1 .. n - 1 : media'.items[i] = media.items[i + 1]
        BY <1>1, <1>5, <2>2, TakeFacts, Zenon DEF Pop
      <3>2. /\ \A i \in 1 .. n : media.items[i].gen <= head.gen
            /\ \A j \in 1 .. n : media.items[1].gen <= media.items[j].gen
            /\ \A i \in 1 .. n : sent.unit.gen <= media.items[i].gen
        <4>1. 1 \in 1 .. n
          BY <3>1
        <4> QED
          BY <4>1, Zenon DEF StreamInv, Held, GenInv
      <3> HIDE DEF n
      <3>3. 1 \in 1 .. n /\ \A i \in 1 .. n - 1 : i + 1 \in 1 .. n
        BY <3>1
      <3>4. \A i \in 1 .. n - 1 : /\ sent.unit.gen <= media'.items[i].gen
                                   /\ unit'.gen <= media'.items[i].gen
        BY <3>1, <3>2, <3>3, Zenon
      <3> QED
        BY <3>1, <3>2, <3>3, <3>4, Zenon DEF GenInv
    <2> QED
      BY <2>1, <2>2, Zenon
  <1>6. CASE Send
    <2>1. unit # NoUnit /\ unit' = NoUnit /\ UNCHANGED << head, media >>
      BY <1>6, SendFacts, Zenon
    <2>2. sent' = sent \/ sent'.unit = unit
      BY <1>6, SendFacts, SentFacts, Zenon
    <2> QED
      BY <2>1, <2>2, Zenon DEF GenInv
  <1>7. CASE Delete
    <2>1. sent' = NoSent /\ UNCHANGED << head, media, unit >>
      BY <1>7, Zenon DEF Delete, input
    <2>2. NoSent.unit.gen = 0
      BY Zenon DEF NoSent, NoUnit
    <2> QED
      BY <1>1, <1>2, <1>3, <2>1, <2>2 DEF GenInv
  <1>8. CASE \/ Begin \/ Gather \/ Post \/ Drain \/ Close \/ Caught \/ Report \/ Wake \/ Wait
             \/ Gathered \/ Connected \/ Disconnected \/ Failed \/ TrackChanges
             \/ \E limit \in {"grace", "connect", "track"} : TimePasses(limit)
             \/ \E boxes \in BoxLists, lag \in Lags : PublishDetections(boxes, lag)
             \/ UNCHANGED vars
    <2>1. UNCHANGED << head, media, unit, sent >>
      BY <1>8, Zenon DEF Begin, Gather, Post, Drain, Close, Caught, Report, Wake, Wait, Gathered,
         Connected, Disconnected, Failed, TrackChanges, TimePasses, PublishDetections, uplink,
         input, vars
    <2> QED
      BY <2>1, GenKept, Zenon
  <1>9. CASE Initialize \/ Check \/ Decide \/ Stop
    <2>1. /\ UNCHANGED << head, unit, sent >>
          /\ media' \in {media, reset, Lean(discard_all(media)), shutdown(media)}
      BY <1>9, Zenon DEF Initialize, Check, Decide, Stop, uplink
    <2> QED
      BY <1>1, <2>1, GenKept, TakeFacts, Zenon
  <1> QED
    BY <1>4, <1>5, <1>6, <1>7, <1>8, <1>9, Zenon DEF Next, Worker

LEMMA NewClockFacts ==
    ASSUME NEW start \in 0 .. Modulus - 1
    PROVE  NewClock(start) \in Clocks /\ NewClock(start).has_last = FALSE
  <1>1. 0 \in 0 .. Modulus - 1 /\ FrameTicks \in 1 .. MaxStep
    BY ClockAssumption, ModulusFacts
  <1> QED
    BY <1>1, Zenon DEF NewClock, Clocks

LEMMA ZeroClock == NewClock(0) \in Clocks
  <1>1. 0 \in 0 .. Modulus - 1
    BY ModulusFacts
  <1> QED
    BY <1>1, NewClockFacts, Zenon

(* Steps that change neither the clock nor what was sent. *)
LEMMA ClockKept ==
    ASSUME ClockInv, UNCHANGED << clock, sent >>,
           \/ pc' = pc \/ pc' \in {"close", "delete"} \/ (pc \in Session /\ pc' \in Session)
           \/ /\ pc \notin Session \cup {"close", "delete"}
              /\ pc' \notin Session \cup {"close", "delete"}
    PROVE  ClockInv'
  BY Zenon DEF ClockInv, Session

(* The timestamp of a unit that is sent. *)
LEMMA SendClock ==
    ASSUME StreamInv, GateInv, GenInv, ClockInv, Send
    PROVE  /\ clock' \in Clocks
           /\ pc' = "check" /\ (unit.key \/ ~Gated) =>
                 /\ clock'.has_last = TRUE /\ clock'.generation = unit.gen
                 /\ clock.has_last /\ unit.gen # clock.generation =>
                       (clock'.last - clock.last) % Modulus \in 1 .. MaxStep
                 /\ unit.has_pts =>
                       /\ clock'.last_pts # None
                       /\ clock'.last = (h264_rtp_timestamp(unit.pts) + clock'.offset) % Modulus
                 /\ unit.gen = clock.generation /\ clock.last_pts # None =>
                       clock'.offset = clock.offset /\ clock'.last_pts # None
  <1>1. clock \in Clocks /\ unit \in Units
    BY Zenon DEF ClockInv, StreamInv
  <1>2. CASE Gated /\ ~unit.key
    <2>1. clock' = clock
      BY <1>2, Zenon DEF Send
    <2> QED
      BY <1>1, <1>2, <2>1, Zenon
  <1>3. CASE ~(Gated /\ ~unit.key)
    <2>1. clock' = Stamp(clock, unit)
      BY <1>3, Zenon DEF Send, Stamp
    <2> QED
      BY <1>1, <2>1, TimestampFacts, Zenon
  <1> QED
    BY <1>2, <1>3, Zenon

(* The clock follows what is sent. *)
LEMMA SendClockStep ==
    ASSUME StreamInv, GateInv, GenInv, ClockInv, Send
    PROVE  ClockInv'
  <1>1. /\ pc = "send" /\ unit # NoUnit /\ unit \in Units /\ clock \in Clocks /\ clock' \in Clocks
        /\ sent.anchor \in Units /\ unit.gen \in Nat /\ sent.unit.gen <= unit.gen
        /\ clock.generation \in Nat /\ clock.has_last \in BOOLEAN /\ sent.anchor.gen \in Nat
    BY SendFacts, SendClock, Zenon DEF StreamInv, GenInv, ClockInv, Clocks, Units
  <1>2. CASE pc' = "check" /\ UNCHANGED << sent, clock >>
    BY <1>1, <1>2, ClockKept, Zenon DEF Session
  <1>3. CASE pc' = "close" /\ UNCHANGED sent
    BY <1>1, <1>3, Zenon DEF ClockInv, Session
  <1>4. CASE pc' = "check" /\ (unit.key \/ ~Gated)
    <2>1. /\ sent'.unit = unit /\ sent'.ts = clock'.last
          /\ sent'.anchor = (IF unit.has_pts THEN unit ELSE sent.anchor)
          /\ sent'.at = (IF unit.has_pts THEN clock'.last ELSE sent.at)
      BY <1>4, SentFacts, Zenon
    <2>2. sent' # NoSent
      <3>1. NoSent.unit = NoUnit
        BY Zenon DEF NoSent
      <3> QED
        BY <1>1, <2>1, <3>1, Zenon
    <2>3. clock'.has_last = TRUE /\ clock'.generation = unit.gen
      BY <1>4, SendClock, Zenon
    <2>4. ASSUME sent'.anchor # NoUnit
          PROVE  /\ sent'.anchor.gen <= clock'.generation
                 /\ sent'.anchor.gen = clock'.generation =>
                       /\ clock'.last_pts # None
                       /\ sent'.at = (h264_rtp_timestamp(sent'.anchor.pts) + clock'.offset) % Modulus
      <3>1. CASE unit.has_pts
        <4>1. sent'.anchor = unit /\ sent'.at = clock'.last
          BY <2>1, <3>1, Zenon
        <4>2. /\ clock'.last_pts # None
              /\ clock'.last = (h264_rtp_timestamp(unit.pts) + clock'.offset) % Modulus
          BY <1>4, <3>1, SendClock, Zenon
        <4>3. unit.gen <= clock'.generation
          BY <1>1, <2>3
        <4> QED
          BY <4>1, <4>2, <4>3, Zenon
      <3>2. CASE ~unit.has_pts
        <4>1. sent'.anchor = sent.anchor /\ sent'.at = sent.at
          BY <2>1, <3>2, Zenon
        <4>2. /\ clock.has_last /\ clock.generation = sent.unit.gen
              /\ sent.anchor.gen <= clock.generation
              /\ sent.anchor.gen = clock.generation =>
                    /\ clock.last_pts # None
                    /\ sent.at = (h264_rtp_timestamp(sent.anchor.pts) + clock.offset) % Modulus
          BY <1>1, <2>4, <4>1, Zenon DEF ClockInv, Session
        <4>3. sent.anchor.gen <= unit.gen
          BY <1>1, <4>2
        <4>4. ASSUME sent.anchor.gen = unit.gen
              PROVE  unit.gen = clock.generation
          BY <1>1, <4>2, <4>4
        <4> QED
          BY <1>4, <2>3, <4>1, <4>2, <4>3, <4>4, SendClock, Zenon
      <3> QED
        BY <3>1, <3>2, Zenon
    <2>5. sent'.anchor \in Units
      BY <1>1, <2>1, Zenon
    <2> QED
      BY <1>1, <1>4, <2>1, <2>2, <2>3, <2>4, <2>5, Zenon DEF ClockInv, Session
  <1> QED
    BY <1>2, <1>3, <1>4, SendFacts, Zenon

LEMMA ClockStep ==
    ResourceInv /\ StreamInv /\ GateInv /\ GenInv /\ ClockInv /\ [Next]_vars => ClockInv'
  <1> SUFFICES ASSUME ResourceInv, StreamInv, GateInv, GenInv, ClockInv, [Next]_vars
               PROVE  ClockInv'
    BY Zenon
  <1>1. CASE Post
    <2>1. CASE pc' = "close"
      <3>1. UNCHANGED << clock, sent >>
        BY <1>1, <2>1, Zenon DEF Post
      <3> QED
        BY <2>1, <3>1, ClockKept, Zenon
    <2>2. CASE pc' # "close"
      <3>1. /\ pc = "post" /\ pc' = "check" /\ UNCHANGED sent
            /\ \E start \in Starts : clock' = NewClock(start)
        BY <1>1, <2>2, Zenon DEF Post
      <3>2. clock' \in Clocks /\ clock'.has_last = FALSE
        BY <3>1, NewClockFacts, WhipAssumption, Zenon
      <3>3. sent = NoSent
        BY <3>1, Zenon DEF ClockInv, Session
      <3>4. NoSent.anchor = NoUnit
        BY Zenon DEF NoSent
      <3> QED
        BY <3>1, <3>2, <3>3, <3>4, Zenon DEF ClockInv, Session
    <2> QED
      BY <2>1, <2>2, Zenon
  <1>2. CASE Send
    BY <1>2, SendClockStep, Zenon
  <1>3. CASE Delete
    <2>1. pc' = "caught" /\ clock' = NewClock(0) /\ sent' = NoSent
      BY <1>3, Zenon DEF Delete
    <2>2. NewClock(0) \in Clocks
      BY ZeroClock, Zenon
    <2>3. NoSent.anchor \in Units
      BY Zenon DEF NoSent, NoUnit, Units
    <2> QED
      BY <2>1, <2>2, <2>3, Zenon DEF ClockInv, Session
  <1>4. CASE Initialize \/ Begin \/ Gather \/ Caught \/ Report \/ Decide \/ Wake
    <2>1. /\ UNCHANGED << clock, sent >> /\ pc \notin Session \cup {"close", "delete"}
          /\ pc' \notin Session \cup {"delete"}
      BY <1>4, Zenon DEF Initialize, Begin, Gather, Caught, Report, Decide, Wake, uplink, Session,
                  ResourceInv
    <2> QED
      BY <2>1, ClockKept, Zenon
  <1>5. CASE Check \/ Pop \/ Drain \/ Close
    <2>1. /\ UNCHANGED << clock, sent >>
          /\ pc' \in {"close", "delete"} \/ (pc \in Session /\ pc' \in Session)
      BY <1>5, Zenon DEF Check, Pop, Drain, Close, uplink, Session
    <2> QED
      BY <2>1, ClockKept, Zenon
  <1>6. CASE Stop \/ Wait \/ UNCHANGED vars
    BY <1>6, ClockKept, Zenon DEF Stop, Wait, vars, uplink
  <1>7. CASE UNCHANGED << pc, err, control, server, uplink >>
    BY <1>7, ClockKept, Zenon DEF uplink
  <1> QED
    BY <1>1, <1>2, <1>3, <1>4, <1>5, <1>6, <1>7, Outside, Zenon DEF Next, Worker

(* Generations and the clock are as described throughout. *)
LEMMA ClockCorrect == Spec => [](GenInv /\ ClockInv)
  <1>1. Init => GenInv /\ ClockInv
    <2> SUFFICES ASSUME Init PROVE GenInv /\ ClockInv
      BY Zenon
    <2>1. GenInv
      BY DEF Init, GenInv, reset, NoUnit, NoSent
    <2>2. NewClock(0) \in Clocks /\ NoSent.anchor \in Units
      BY ZeroClock, Zenon DEF NoSent, NoUnit, Units
    <2> QED
      BY <2>1, <2>2, Zenon DEF Init, ClockInv, Session
  <1> QED
    BY <1>1, GenStep, ClockStep, ResourceCorrect, StreamCorrect, PTL DEF Spec

(* The RTP time of a session goes on over a restart of the source, by at     *)
(* most the longest frame interval, and differs exactly as the PTS do        *)
(* between units of one pipeline, for every width of the timestamps.         *)
THEOREM RtpTimeCorrect == Spec => RtpTimeContinues
  <1> DEFINE Continues ==
        sent'.unit # sent.unit /\ sent' # NoSent /\ sent # NoSent =>
          /\ sent'.unit.gen # sent.unit.gen => Forward(sent.ts, sent'.ts) \in 1 .. MaxStep
          /\ (sent'.unit.has_pts /\ sent.anchor # NoUnit /\ sent'.unit.gen = sent.anchor.gen)
             => Forward(sent.at, sent'.ts) =
                   ((sent'.unit.pts - sent.anchor.pts) * TicksPerUnit) % Modulus
  <1>1. ASSUME StreamInv, GateInv, GenInv, ClockInv, Send PROVE Continues
    <2> SUFFICES ASSUME sent'.unit # sent.unit, sent # NoSent
                 PROVE  /\ sent'.unit.gen # sent.unit.gen =>
                              Forward(sent.ts, sent'.ts) \in 1 .. MaxStep
                        /\ (/\ sent'.unit.has_pts /\ sent.anchor # NoUnit
                            /\ sent'.unit.gen = sent.anchor.gen) =>
                              Forward(sent.at, sent'.ts) =
                                ((sent'.unit.pts - sent.anchor.pts) * TicksPerUnit) % Modulus
      BY Zenon
    <2>1. pc = "send" /\ pc' = "check" /\ (unit.key \/ ~Gated)
      BY <1>1, SendFacts, Zenon
    <2>2. sent'.unit = unit /\ sent'.ts = clock'.last
      BY <1>1, <2>1, SentFacts, Zenon
    <2>3. /\ clock.has_last /\ clock.last = sent.ts /\ clock.generation = sent.unit.gen
      BY <1>1, <2>1, Zenon DEF ClockInv, Session
    <2>4. unit.gen # sent.unit.gen => Forward(sent.ts, clock'.last) \in 1 .. MaxStep
      BY <1>1, <2>1, <2>3, SendClock, Zenon DEF Forward
    <2>5. ASSUME unit.has_pts, sent.anchor # NoUnit, unit.gen = sent.anchor.gen
          PROVE  Forward(sent.at, clock'.last) =
                     ((unit.pts - sent.anchor.pts) * TicksPerUnit) % Modulus
      <3>1. /\ sent.anchor.gen <= clock.generation /\ sent.unit.gen <= unit.gen
            /\ unit.gen \in Nat /\ clock.generation \in Nat /\ clock.offset \in 0 .. Modulus - 1
            /\ unit.pts \in Nat /\ sent.anchor.pts \in Nat
        BY <1>1, <2>1, <2>5, SendFacts, Zenon
          DEF ClockInv, GenInv, Session, StreamInv, Units, Clocks
      <3>2. unit.gen = clock.generation
        BY <2>3, <2>5, <3>1
      <3>3. /\ clock.last_pts # None
            /\ sent.at = (h264_rtp_timestamp(sent.anchor.pts) + clock.offset) % Modulus
        BY <1>1, <2>1, <2>5, <3>2, Zenon DEF ClockInv, Session
      <3>4. clock'.last = (h264_rtp_timestamp(unit.pts) + clock.offset) % Modulus
        BY <1>1, <2>1, <2>5, <3>2, <3>3, SendClock, Zenon
      <3> DEFINE a == unit.pts * TicksPerUnit
                 b == sent.anchor.pts * TicksPerUnit
      <3>5. /\ a \in Int /\ b \in Int /\ clock.offset \in Int
            /\ a - b = (unit.pts - sent.anchor.pts) * TicksPerUnit
        BY <3>1, ClockAssumption
      <3>6. clock'.last = ((a % Modulus) + clock.offset) % Modulus
        BY <3>4, Zenon DEF h264_rtp_timestamp
      <3>7. sent.at = ((b % Modulus) + clock.offset) % Modulus
        BY <3>3, Zenon DEF h264_rtp_timestamp
      <3> HIDE DEF a, b
      <3>8. (clock'.last - sent.at) % Modulus = (a - b) % Modulus
        <4> DEFINE o == clock.offset
        <4>1. o \in Int
          BY <3>5, Zenon
        <4> HIDE DEF o
        <4>2. ((((a % Modulus) + o) % Modulus) - (((b % Modulus) + o) % Modulus)) % Modulus
                 = (a - b) % Modulus
          BY <3>5, <4>1, ModulusFacts, ModDiff
        <4> QED
          BY <3>6, <3>7, <4>2, Zenon DEF o
      <3> QED
        BY <3>5, <3>8, Zenon DEF Forward
    <2> QED
      BY <2>2, <2>4, <2>5, Zenon
  <1>2. ASSUME [Next]_vars, ~Send PROVE UNCHANGED sent \/ sent' = NoSent
    BY <1>2, OnlySend, Zenon
  <1>3. StreamInv /\ GateInv /\ GenInv /\ ClockInv /\ [Next]_vars => [Continues]_vars
    BY <1>1, <1>2, Zenon
  <1> QED
    BY <1>3, StreamCorrect, ClockCorrect, PTL DEF Spec, RtpTimeContinues
=============================================================================
