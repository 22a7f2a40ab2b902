------------------------ MODULE StreamBuffersProofs ------------------------
(***************************************************************************)
(* Theorems about StreamBuffers, for any streams, queues, buffers and ids. *)
(* The invariant follows each buffer of a healthy stream through the hands *)
(* it is in: an ioctl's, the back end's, an event's, the work item's; and  *)
(* keeps the pending list in the order of the events to come, which is why *)
(* an event finds its own buffer although ids are used again.              *)
(***************************************************************************)
EXTENDS StreamBuffers, OperatorLemmas

\* The work item has an event of buffer b, an event of b is on its way, or either.
Held(b) == wk \in {"del", "done"} /\ wev.buf = b
Coming(b) == \E k \in DOMAIN events : events[k].buf = b
Late(b) == Held(b) \/ Coming(b)
\* b's event is handled before any of c's.
Before(b, c) ==
  \/ Held(b)
  \/ /\ ~Held(c)
     /\ \E k \in DOMAIN events :
          events[k].buf = b /\ \A l \in DOMAIN events : events[l].buf = c => k < l

\* An ioctl that has a buffer has given it its export id; only one that stops after a failure releases.
IoctlInv ==
  \A s \in Streams :
    /\ us[s] \in {"idle", "closed"} => uq[s] = None
    /\ ub[s] # None => rid[ub[s]] # None /\ eid[ub[s]] = rid[ub[s]]
    /\ us[s] = "release" => ~Healthy(s)
    /\ us[s] = "add" /\ ub[s] \in ToSet(pending) => s \in failed
\* An event names its stream, and as long as none was mistaken the work item has the event's buffer.
EventInv ==
  /\ \A k \in DOMAIN events : events[k].buf # None => events[k].stream = StreamOf[events[k].buf]
  /\ wk = "release" => wev.buf = None /\ wev.stream \in error
  /\ wk \in {"del", "done"} =>
       wev.buf # None /\ wev.stream = StreamOf[wev.buf] /\ (wrong = {} => wb = wev.buf)
\* Only of a queue that streams, or is being started, has the driver buffers.
ActiveInv ==
  \A b \in Bufs : st[b] = "active" =>
    LET s == StreamOf[b] IN
    QueueOf[b] \in on \/ (us[s] \in {"enqueue", "add", "send"} /\ uq[s] = QueueOf[b])
\* No two buffers are exported under one id.
ExportInv == \A b, c \in Bufs : b # c /\ eid[b] = eid[c] => eid[b] = None
\* The list names nothing twice.
DistinctInv == \A i, j \in DOMAIN pending : pending[i] = pending[j] => i = j

\* A buffer is in one pair of hands, and the driver has it meanwhile.
Hands(b) ==
  /\ ub[StreamOf[b]] = b => st[b] = "active" /\ b \notin Using /\ ~Late(b)
  /\ \A id \in Ids : <<b, id>> \in bk => st[b] = "active" /\ id = rid[b] /\ eid[b] = rid[b] /\ ~Late(b)
  /\ \A k \in DOMAIN events : events[k].buf = b =>
       /\ st[b] = "active" /\ events[k].id = rid[b] /\ ~Held(b)
       /\ \A l \in DOMAIN events : events[l].buf = b => l = k
  /\ Held(b) => st[b] = "active" /\ wev.id = rid[b]
HandsInv == wrong = {} => \A b \in Bufs : Healthy(StreamOf[b]) => Hands(b)
\* What is listed is in somebody's hands, until the stream is closed.
ListedInv ==
  wrong = {} =>
    \A b \in ToSet(pending) : Healthy(StreamOf[b]) /\ us[StreamOf[b]] # "closed" =>
      Late(b) \/ b \in Using \/ ub[StreamOf[b]] = b
\* Of two listed buffers with one id, the first one's event comes first.
OrderInv ==
  wrong = {} =>
    \A i, j \in DOMAIN pending :
      i < j /\ rid[pending[i]] = rid[pending[j]]
        /\ Healthy(StreamOf[pending[i]]) /\ Healthy(StreamOf[pending[j]])
        => Before(pending[i], pending[j])

Inv ==
  /\ TypeOK /\ IoctlInv /\ EventInv /\ ActiveInv /\ ExportInv /\ DistinctInv
  /\ HandsInv /\ ListedInv /\ OrderInv
  /\ PendingExact /\ RightBuffer /\ GivenBackOnce /\ ListedOnce /\ UserOwnsReturned /\ NothingDangles
-----------------------------------------------------------------------------
(* The list. *)

\* The walk that releases buffers leaves the others, in their order.
LEMMA Walked ==
  ASSUME NEW S, NEW list \in Seq(S), NEW bs
  PROVE  LET t == Without(list, bs) IN
         /\ t \in Seq(S) /\ ToSet(t) = ToSet(list) \ bs
         /\ \E e \in [DOMAIN t -> DOMAIN list] :
              /\ \A n \in DOMAIN t : t[n] = list[e[n]]
              /\ \A n, m \in DOMAIN t : n < m => e[n] < e[m]
<1> DEFINE N == Len(list)
           Next1(l, i) == IF list[i] \in bs THEN l ELSE Append(l, list[i])
           Walk(f) == [n \in 0..N |-> IF n = 0 THEN <<>> ELSE IF list[n] \in bs THEN f[n - 1] ELSE Append(f[n - 1], list[n])]
           Upto(f, n) == f \in [0..n -> Seq(S)] /\ f[0] = <<>> /\ \A i \in 1..n : f[i] = Next1(f[i - 1], i)
<1>1. N \in Nat /\ DOMAIN list = 1..N /\ \A i \in 1..N : list[i] \in S
  OBVIOUS
<1>2. \A l \in Seq(S), i \in 1..N : Next1(l, i) \in Seq(S)
  BY <1>1
<1> HIDE DEF N, Next1
<1>3. \E f : Upto(f, N)
  <2> DEFINE P == {n \in Nat : n <= N => \E f : Upto(f, n)}
  <2>1. 0 \in P
    <3> DEFINE f == [i \in 0..0 |-> <<>>]
    <3>1. Upto(f, 0)
      OBVIOUS
    <3> HIDE DEF f, Upto
    <3> QED
      BY <3>1
  <2>2. ASSUME NEW n \in P PROVE n + 1 \in P
    <3>0. n \in Nat /\ (n <= N => \E f : Upto(f, n))
      <4> HIDE DEF Upto
      <4> QED
        BY <2>2
    <3> SUFFICES ASSUME n + 1 <= N PROVE \E f : Upto(f, n + 1)
      <4> HIDE DEF Upto
      <4> QED
        BY <3>0
    <3>1. PICK f : Upto(f, n)
      <4> HIDE DEF Upto
      <4> QED
        BY <1>1, <3>0
    <3>2. f[n] \in Seq(S) /\ Next1(f[n], n + 1) \in Seq(S)
      BY <1>1, <1>2, <2>2, <3>1
    <3> DEFINE g == [i \in 0..(n + 1) |-> IF i = n + 1 THEN Next1(f[n], n + 1) ELSE f[i]]
    <3>3. g \in [0..(n + 1) -> Seq(S)] /\ g[0] = <<>>
      BY <2>2, <3>1, <3>2
    <3>4. \A i \in 1..(n + 1) : g[i] = Next1(g[i - 1], i)
      <4> TAKE i \in 1..(n + 1)
      <4>1. CASE i = n + 1
        <5>1. g[i - 1] = f[n] /\ g[i] = Next1(f[n], n + 1)
          BY <2>2, <4>1
        <5> QED
          BY <4>1, <5>1
      <4>2. CASE i # n + 1
        <5>1. i \in 1..n /\ g[i] = f[i] /\ g[i - 1] = f[i - 1]
          BY <2>2, <4>2
        <5> QED
          BY <3>1, <5>1
      <4> QED
        BY <4>1, <4>2
    <3>5. Upto(g, n + 1)
      BY <3>3, <3>4
    <3> HIDE DEF g, Upto
    <3> QED
      BY <3>5
  <2>3. N \in P
    <3> HIDE DEF P
    <3>1. P \in SUBSET Nat
      BY DEF P
    <3>2. P = Nat
      BY <2>1, <2>2, <3>1, FromZero
    <3> QED
      BY <1>1, <3>2
  <2> HIDE DEF Upto
  <2> QED
    BY <1>1, <2>3
<1>4. \E f : f = Walk(f)
  <2>1. PICK f : Upto(f, N)
    BY <1>3
  <2>2. f = Walk(f)
    <3>1. \A n \in 0..N : n = 0 \/ n \in 1..N
      BY <1>1
    <3> QED
      BY <2>1, <3>1 DEF Next1
  <2> HIDE DEF Walk
  <2> QED
    BY <2>2
<1> DEFINE w == CHOOSE f : f = Walk(f)
<1>5. Without(list, bs) = w[N]
  BY DEF Without, N
<1>6. w = Walk(w)
  <2> HIDE DEF Walk
  <2> QED
    BY <1>4
<1> HIDE DEF w
<1>7. w[0] = <<>> /\ \A i \in 1..N : w[i] = Next1(w[i - 1], i)
  <2>1. \A n \in 0..N : w[n] = Walk(w)[n]
    <3> HIDE DEF Walk
    <3> QED
      BY <1>6
  <2>2. 0 \in 0..N /\ \A i \in 1..N : i \in 0..N /\ i # 0
    BY <1>1
  <2>3. Walk(w)[0] = <<>> /\ \A i \in 1..N : Walk(w)[i] = Next1(w[i - 1], i)
    BY <2>2 DEF Next1
  <2> HIDE DEF Walk
  <2> QED
    BY <2>1, <2>2, <2>3
<1> HIDE DEF Walk
<1> DEFINE Kept(n) == {i \in 1..n : list[i] \notin bs}
           Order(t, n) == \E e \in [DOMAIN t -> 1..n] :
                            /\ \A k \in DOMAIN t : t[k] = list[e[k]]
                            /\ \A k, m \in DOMAIN t : k < m => e[k] < e[m]
           Good(n) == /\ w[n] \in Seq(S) /\ ToSet(w[n]) = {list[i] : i \in Kept(n)} /\ Order(w[n], n)
<1>8. Good(0)
  <2>1. w[0] = <<>> /\ DOMAIN <<>> = {} /\ ToSet(<<>>) = {}
    BY <1>7 DEF ToSet
  <2>2. Order(<<>>, 0)
    <3> DEFINE e == [k \in DOMAIN <<>> |-> 0]
    <3>1. e \in [DOMAIN <<>> -> 1..0]
      BY <2>1
    <3> QED
      BY <2>1, <3>1
  <2>3. {list[i] : i \in Kept(0)} = {}
    OBVIOUS
  <2>4. <<>> \in Seq(S)
    OBVIOUS
  <2> HIDE DEF Order, Kept
  <2> QED
    BY <2>1, <2>2, <2>3, <2>4
<1>9. ASSUME NEW n \in Nat, n + 1 <= N, Good(n) PROVE Good(n + 1)
  <2> DEFINE i == n + 1
             t == w[n]
  <2>1. w[i] = Next1(t, i) /\ i \in 1..N /\ t \in Seq(S) /\ Order(t, n) /\ ToSet(t) = {list[k] : k \in Kept(n)}
    BY <1>1, <1>7, <1>9
  <2>2. PICK e \in [DOMAIN t -> 1..n] : /\ \A k \in DOMAIN t : t[k] = list[e[k]]
                                      /\ \A k, m \in DOMAIN t : k < m => e[k] < e[m]
    BY <2>1
  <2> HIDE DEF t
  <2>3. CASE list[i] \in bs
    <3>1. w[i] = t
      BY <2>1, <2>3 DEF Next1
    <3>2. Kept(i) = Kept(n)
      BY <1>9, <2>3
    <3>3. e \in [DOMAIN t -> 1..i]
      BY <2>2, <1>9
    <3>4. Order(t, i)
      BY <2>2, <3>3
    <3> HIDE DEF Order, Kept, i
    <3> QED
      BY <2>1, <3>1, <3>2, <3>4 DEF i
  <2>4. CASE list[i] \notin bs
    <3>1. w[i] = Append(t, list[i]) /\ list[i] \in S
      BY <1>1, <2>1, <2>4 DEF Next1
    <3>2. /\ Append(t, list[i]) \in Seq(S) /\ Len(t) \in Nat
          /\ DOMAIN t = 1..Len(t) /\ DOMAIN Append(t, list[i]) = 1..(Len(t) + 1)
          /\ Append(t, list[i])[Len(t) + 1] = list[i]
          /\ \A k \in 1..Len(t) : Append(t, list[i])[k] = t[k]
      BY <2>1, <3>1
    <3> DEFINE a == Append(t, list[i])
               f == [k \in 1..(Len(t) + 1) |-> IF k = Len(t) + 1 THEN i ELSE e[k]]
    <3> HIDE DEF a
    <3>3. f \in [DOMAIN a -> 1..i] /\ \A k \in DOMAIN a : a[k] = list[f[k]]
      <4>1. \A k \in 1..(Len(t) + 1) : k = Len(t) + 1 \/ k \in DOMAIN t
        BY <3>2
      <4>2. i \in 1..i /\ 1..n \subseteq 1..i
        BY <1>9
      <4>3. \A k \in DOMAIN t : e[k] \in 1..i
        BY <2>2, <4>2
      <4>4. \A k \in 1..(Len(t) + 1) : f[k] \in 1..i
        BY <4>1, <4>2, <4>3
      <4>5. \A k \in 1..(Len(t) + 1) : a[k] = list[f[k]]
        BY <2>2, <3>2, <4>1 DEF a
      <4> QED
        BY <3>2, <4>4, <4>5 DEF a
    <3>4. \A k, m \in DOMAIN a : k < m => f[k] < f[m]
      BY <1>9, <2>2, <3>2 DEF a
    <3>5. Order(a, i)
      <4> HIDE DEF f
      <4> QED
        BY <3>3, <3>4
    <3>6. ToSet(a) = ToSet(t) \cup {list[i]}
      BY <3>2 DEF a, ToSet
    <3>7. Kept(i) = Kept(n) \cup {i}
      BY <1>9, <2>4
    <3> HIDE DEF Order, Kept, i
    <3>8. {list[k] : k \in Kept(i)} = {list[k] : k \in Kept(n)} \cup {list[i]}
      BY <3>7
    <3> QED
      BY <2>1, <3>1, <3>2, <3>5, <3>6, <3>8 DEF i, a
  <2> QED
    BY <2>3, <2>4
<1>10. Good(N)
  <2> DEFINE P == {n \in Nat : n <= N => Good(n)}
  <2> HIDE DEF Good
  <2>1. 0 \in P /\ \A n \in P : n + 1 \in P
    BY <1>1, <1>8, <1>9
  <2>2. P \in SUBSET Nat
    OBVIOUS
  <2> HIDE DEF P
  <2>3. P = Nat
    BY <2>1, <2>2, FromZero
  <2> QED
    BY <1>1, <2>3 DEF P
<1>11. {list[i] : i \in Kept(N)} = ToSet(list) \ bs
  BY <1>1 DEF ToSet
<1> QED
  BY <1>1, <1>5, <1>10, <1>11

\* A list without its k-th element keeps the others in their order.
LEMMA TakenOut ==
  ASSUME NEW S, NEW list \in Seq(S), NEW k \in 1..Len(list)
  PROVE  LET t == RemoveAt(list, k) IN
         /\ t \in Seq(S) /\ ToSet(t) \subseteq ToSet(list)
         /\ \A i \in DOMAIN list : i # k => list[i] \in ToSet(t)
         /\ (\A i, j \in DOMAIN list : list[i] = list[j] => i = j) => list[k] \notin ToSet(t)
         /\ \E e \in [DOMAIN t -> DOMAIN list] :
              /\ \A n \in DOMAIN t : t[n] = list[e[n]]
              /\ \A n, m \in DOMAIN t : n < m => e[n] < e[m]
<1> DEFINE t == RemoveAt(list, k)
           e == [n \in DOMAIN t |-> IF n < k THEN n ELSE n + 1]
<1>1. /\ t \in Seq(S) /\ Len(t) = Len(list) - 1
      /\ \A i \in 1..Len(t) : t[i] = IF i < k THEN list[i] ELSE list[i + 1]
  BY DropAt
<1> HIDE DEF t
<1>2. DOMAIN t = 1..(Len(list) - 1) /\ DOMAIN list = 1..Len(list) /\ Len(list) \in Nat
  BY <1>1
<1>3. /\ e \in [DOMAIN t -> DOMAIN list]
      /\ \A n \in DOMAIN t : t[n] = list[e[n]] /\ e[n] # k
      /\ \A n, m \in DOMAIN t : n < m => e[n] < e[m]
  BY <1>1, <1>2
<1>4. ASSUME NEW i \in DOMAIN list, i # k PROVE list[i] \in ToSet(t)
  <2>1. CASE i < k
    <3>1. i \in DOMAIN t /\ t[i] = list[i]
      BY <1>1, <1>2, <1>4, <2>1
    <3> QED
      BY <3>1 DEF ToSet
  <2>2. CASE k < i
    <3>1. i - 1 \in DOMAIN t /\ t[i - 1] = list[i]
      BY <1>1, <1>2, <1>4, <2>2
    <3> QED
      BY <3>1 DEF ToSet
  <2> QED
    BY <1>2, <1>4, <2>1, <2>2
<1> HIDE DEF e
<1>5. ToSet(t) \subseteq ToSet(list)
  BY <1>3 DEF ToSet
<1>6. (\A i, j \in DOMAIN list : list[i] = list[j] => i = j) => list[k] \notin ToSet(t)
  BY <1>2, <1>3 DEF ToSet
<1> QED
  BY <1>1, <1>3, <1>4, <1>5, <1>6 DEF t
-----------------------------------------------------------------------------
(* What the constants and the definitions of an event say. *)

\* Each buffer has a queue and each queue a stream, and None is none of them.
LEMMA Sorts ==
  /\ \A b \in Bufs : QueueOf[b] \in Queues /\ StreamOf[b] = OwnerOf[QueueOf[b]] /\ StreamOf[b] \in Streams /\ b # None
  /\ \A q \in Queues : OwnerOf[q] \in Streams /\ q # None
  /\ \A q \in DataQueues : q \in Queues /\ MetaOf[q] \in MetaQueues /\ MetaOf[q] \in Queues /\ OwnerOf[MetaOf[q]] = OwnerOf[q]
  /\ \A q \in Range(QueueOf) : q \in Queues
  /\ None \notin Bufs /\ None \notin Ids /\ None \notin Queues /\ None \notin Event
BY StreamBuffersAssumption DEF StreamOf, Range, MetaQueues

\* An event is about a buffer and its id, or about neither.
LEMMA EventForms ==
  /\ \A s \in Streams, b \in Bufs, id \in Ids : [stream |-> s, buf |-> b, id |-> id] \in Event
  /\ \A s \in Streams : [stream |-> s, buf |-> None, id |-> None] \in Event
  /\ \A e \in Event : /\ e.stream \in Streams /\ e.buf \in Bufs \cup {None}
                      /\ e.buf # None => e.id \in Ids
BY StreamBuffersAssumption DEF Event

\* The first pending buffer with an id is one with it, and no earlier one is.
LEMMA FirstFound ==
  ASSUME NEW id, pending \in Seq(Bufs), With(id) # {}
  PROVE  /\ First(id) \in DOMAIN pending /\ First(id) \in 1..Len(pending) /\ rid[pending[First(id)]] = id
         /\ pending[First(id)] \in ToSet(pending) /\ pending[First(id)] \in Bufs
         /\ \A j \in DOMAIN pending : rid[pending[j]] = id => First(id) <= j
<1>1. With(id) \in SUBSET Nat /\ With(id) # {}
  BY DEF With
<1>2. \E i \in With(id) : \A j \in With(id) : i <= j
  BY <1>1, LowestExists, Zenon
<1>3. First(id) \in With(id) /\ \A j \in With(id) : First(id) <= j
  BY <1>2, Zenon DEF First
<1> QED
  BY <1>3 DEF With, ToSet
-----------------------------------------------------------------------------
(* Types. *)

\* vb2_buffer_done keeps the state of every buffer and the history in their types.
LEMMA DoneTyped ==
  ASSUME TypeOK, NEW bs \in SUBSET Bufs, BufferDone(bs)
  PROVE  st' \in [Bufs -> {"dequeued", "queued", "active", "done", "freed"}] /\ twice' \subseteq Bufs
BY DEF TypeOK, BuffersOK, HistoryOK, BufferDone

\* A release leaves a list of buffers, without the released ones.
LEMMA ReleaseTyped ==
  ASSUME TypeOK, NEW qs, Release(qs)
  PROVE  /\ pending' \in Seq(Bufs) /\ ToSet(pending') = ToSet(pending) \ Releasable(qs)
         /\ st' \in [Bufs -> {"dequeued", "queued", "active", "done", "freed"}] /\ twice' \subseteq Bufs
<1>1. pending \in Seq(Bufs) /\ Releasable(qs) \in SUBSET Bufs /\ pending' = Without(pending, Releasable(qs)) /\ BufferDone(Releasable(qs))
  BY DEF TypeOK, BuffersOK, Release, Releasable, ToSet
<1> QED
  BY <1>1, Walked, DoneTyped

\* Where a failed command leaves a stream.
LEMMA FailTyped ==
  ASSUME TypeOK, NEW s \in Streams, CommandFails(s)
  PROVE  /\ error' \subseteq Streams /\ failed' \subseteq Streams
         /\ error \subseteq error' /\ failed \subseteq failed' /\ s \in error' \cup failed'
         /\ error' \subseteq error \cup {s} /\ failed' \subseteq failed \cup {s}
BY DEF TypeOK, BuffersOK, HistoryOK, CommandFails

\* An ioctl that goes on where its stream allows it keeps its place and its buffer in their types.
LEMMA IoctlTyped ==
  ASSUME TypeOK, NEW s \in Streams,
         \A r \in Streams : r # s => us'[r] = us[r] /\ ub'[r] = ub[r] /\ uq'[r] = uq[r],
         us' \in [Streams -> {"idle", "add", "send", "enqueue", "off", "release", "wait", "closed"}],
         ub' \in [Streams -> Bufs \cup {None}], uq' \in [Streams -> Queues \cup {None}],
         ub'[s] # None <=> us'[s] \in {"add", "send"},
         ub'[s] # None => StreamOf[ub'[s]] = s,
         us'[s] \in {"enqueue", "off", "release", "wait"} => uq'[s] # None,
         us'[s] = "off" => uq'[s] \in DataQueues,
         uq'[s] # None => OwnerOf[uq'[s]] = s
  PROVE  IoctlsOK'
<1> SUFFICES ASSUME NEW r \in Streams
             PROVE  /\ ub'[r] # None <=> us'[r] \in {"add", "send"}
                    /\ ub'[r] # None => StreamOf[ub'[r]] = r
                    /\ us'[r] \in {"enqueue", "off", "release", "wait"} => uq'[r] # None
                    /\ us'[r] = "off" => uq'[r] \in DataQueues
                    /\ uq'[r] # None => OwnerOf[uq'[r]] = r
  BY DEF IoctlsOK
<1>1. CASE r = s
  BY <1>1
<1>2. CASE r # s
  BY <1>2 DEF TypeOK, IoctlsOK
<1> QED
  BY <1>1, <1>2

\* Where the actions that queue a buffer begin.
LEMMA Enqueued ==
  ASSUME Inv, NEW s \in Streams, NEW b \in Bufs,
         \/ Qbuf(b) /\ s = StreamOf[b]
         \/ us[s] = "enqueue" /\ b \in BufsOf(uq[s]) /\ st[b] = "queued" /\ Enqueue(s, b)
  PROVE  /\ Enqueue(s, b) /\ s = StreamOf[b] /\ us[s] \in {"idle", "enqueue"} /\ st[b] \in {"dequeued", "queued"}
         /\ ub[s] = None
         /\ \/ us[s] = "idle" /\ QueueOf[b] \in on /\ uq[s] = None
            \/ us[s] = "enqueue" /\ uq[s] = QueueOf[b]
<1>1. CASE Qbuf(b) /\ s = StreamOf[b]
  BY <1>1 DEF Qbuf, Inv, TypeOK, IoctlsOK, IoctlInv
<1>2. CASE us[s] = "enqueue" /\ b \in BufsOf(uq[s]) /\ st[b] = "queued" /\ Enqueue(s, b)
  <2>1. QueueOf[b] = uq[s] /\ ub[s] = None /\ uq[s] # None /\ OwnerOf[uq[s]] = s
    BY <1>2 DEF BufsOf, Inv, TypeOK, IoctlsOK
  <2> QED
    BY <1>2, <2>1, Sorts
<1> QED
  BY <1>1, <1>2

\* Every step keeps the types.
LEMMA TypeKept ==
  ASSUME Inv, Next
  PROVE  TypeOK'
<1> DEFINE Status == {"dequeued", "queued", "active", "done", "freed"}
           Places == {"idle", "add", "send", "enqueue", "off", "release", "wait", "closed"}
<1>0. /\ TypeOK /\ BuffersOK /\ IoctlsOK /\ WorkOK /\ HistoryOK
      /\ st \in [Bufs -> Status] /\ us \in [Streams -> Places]
      /\ ub \in [Streams -> Bufs \cup {None}] /\ uq \in [Streams -> Queues \cup {None}]
      /\ rid \in [Bufs -> Ids \cup {None}] /\ eid \in [Bufs -> Ids \cup {None}]
      /\ pending \in Seq(Bufs) /\ events \in Seq(Event) /\ bk \subseteq Bufs \X Ids
      /\ queued \in Nat /\ errors \in Nat
  BY DEF Inv, TypeOK, BuffersOK, IoctlsOK, WorkOK, HistoryOK
<1>T. \A b \in Bufs : StreamOf[b] \in Streams
  BY Sorts
\* The four parts, where a step changes nothing of them.
<1>B. ASSUME UNCHANGED <<rid, eid, pending, on, error, bk, events>>, st' \in [Bufs -> Status] PROVE BuffersOK'
  BY <1>0, <1>B DEF BuffersOK
<1>I. ASSUME UNCHANGED usVars PROVE IoctlsOK'
  BY <1>0, <1>I DEF IoctlsOK, usVars
<1>W. ASSUME UNCHANGED wkVars PROVE WorkOK'
  BY <1>0, <1>W DEF WorkOK, wkVars
<1>H. ASSUME UNCHANGED histVars PROVE HistoryOK'
  BY <1>0, <1>H DEF HistoryOK, histVars
<1>1. ASSUME NEW s \in Streams, NEW b \in Bufs,
             \/ Qbuf(b) /\ s = StreamOf[b]
             \/ us[s] = "enqueue" /\ b \in BufsOf(uq[s]) /\ st[b] = "queued" /\ Enqueue(s, b)
      PROVE  TypeOK'
  <2>1. /\ Enqueue(s, b) /\ s = StreamOf[b] /\ ub[s] = None /\ us[s] \in {"idle", "enqueue"}
        /\ b # None
    BY <1>1, Enqueued, Sorts
  <2>2. UNCHANGED wkVars /\ HistoryOK' /\ UNCHANGED <<pending, on, error, bk, events, uq>>
    BY <1>0, <2>1 DEF Enqueue, HistoryOK
  <2>3. CASE Refuse(s, b)
    <3>1. BuffersOK' /\ UNCHANGED usVars
      BY <1>0, <2>2, <2>3 DEF Refuse, BuffersOK, usVars
    <3> QED
      BY <3>1, <2>2, <1>I, <1>W DEF TypeOK
  <2>4. CASE Accept(s, b)
    <3>1. \A id \in Ids \cup {None} : id \in Ids \/ id = None
      OBVIOUS
    <3>2. (IF eid[b] = None THEN FreeIds ELSE {eid[b]}) \subseteq Ids
      BY <1>0 DEF FreeIds
    <3>3. BuffersOK'
      BY <1>0, <2>2, <2>4, <3>2 DEF Accept, BuffersOK
    <3>4. us' = [us EXCEPT ![s] = "add"] /\ ub' = [ub EXCEPT ![s] = b] /\ uq' = uq
      BY <2>2, <2>4 DEF Accept, Go
    <3>5. uq[s] # None => OwnerOf[uq[s]] = s
      BY <1>0 DEF IoctlsOK
    <3>6. IoctlsOK'
      BY <1>0, <2>1, <3>4, <3>5, IoctlTyped
    <3> QED
      BY <2>2, <3>3, <3>6, <1>W DEF TypeOK
  <2> QED
    BY <2>1, <2>3, <2>4 DEF Enqueue
<1>2. ASSUME NEW b \in Bufs, QbufEarly(b) \/ Dqbuf(b) PROVE TypeOK'
  <2>1. st' \in [Bufs -> Status] /\ UNCHANGED <<rid, eid, pending, on, error, bk, events>> /\ UNCHANGED usVars /\ UNCHANGED wkVars /\ UNCHANGED histVars
    BY <1>0, <1>2 DEF QbufEarly, Dqbuf
  <2> QED
    BY <2>1, <1>B, <1>I, <1>W, <1>H DEF TypeOK
<1>3. ASSUME NEW use \in bk, BackendDone(use) PROVE TypeOK'
  <2>1. use[1] \in Bufs /\ use[2] \in Ids /\ StreamOf[use[1]] \in Streams
    BY <1>0, <1>T
  <2>2. [stream |-> StreamOf[use[1]], buf |-> use[1], id |-> use[2]] \in Event
    BY <2>1, EventForms
  <2>3. events' \in Seq(Event)
    BY <1>0, <1>3, <2>2 DEF BackendDone
  <2>4. BuffersOK' /\ UNCHANGED usVars /\ UNCHANGED wkVars /\ UNCHANGED histVars
    BY <1>0, <1>3, <2>3 DEF BackendDone, BuffersOK
  <2> QED
    BY <2>4, <1>I, <1>W, <1>H DEF TypeOK
<1>4. ASSUME NEW q \in Queues, StreamOn(q) \/ Stop(q) \/ StopIdle(q) \/ Reqbufs0(q) PROVE TypeOK'
  <2>0. OwnerOf[q] \in Streams /\ q # None
    BY Sorts
  <2>1. CASE StreamOn(q) \/ Stop(q)
    <3> DEFINE s == OwnerOf[q]
    <3>1. /\ UNCHANGED <<st, rid, eid, pending, on, error, bk, events>> /\ UNCHANGED wkVars /\ UNCHANGED histVars
          /\ ub' = ub /\ uq' = [uq EXCEPT ![s] = q] /\ us[s] = "idle"
          /\ us' = [us EXCEPT ![s] = us'[s]] /\ us'[s] \in {"enqueue", "release", "wait", "off"}
          /\ us'[s] = "off" => q \notin MetaQueues
      BY <1>0, <2>0, <2>1 DEF StreamOn, Stop, Go
    <3>2. us'[s] = "off" => q \in DataQueues
      BY <3>1 DEF MetaQueues
    <3>3. ub[s] = None
      BY <1>0, <2>0, <3>1 DEF IoctlsOK
    <3>4. us' \in [Streams -> Places] /\ us'[s] \notin {"add", "send"}
      <4>1. us'[s] \in Places
        BY <3>1
      <4> HIDE DEF Places, s
      <4> QED
        BY <1>0, <2>0, <3>1, <4>1 DEF s
    <3>5. IoctlsOK'
      BY <1>0, <2>0, <3>1, <3>2, <3>3, <3>4, IoctlTyped
    <3>6. st' \in [Bufs -> Status]
      BY <1>0, <3>1
    <3> QED
      BY <3>1, <3>5, <3>6, <1>B, <1>W, <1>H DEF TypeOK
  <2>2. CASE StopIdle(q) \/ Reqbufs0(q)
    <3>1. st' \in [Bufs -> Status] /\ UNCHANGED <<rid, eid, pending, on, error, bk, events>> /\ UNCHANGED usVars /\ UNCHANGED wkVars /\ UNCHANGED histVars
      BY <1>0, <2>2 DEF StopIdle, Reqbufs0, Cancelled
    <3> QED
      BY <3>1, <1>B, <1>I, <1>W, <1>H DEF TypeOK
  <2> QED
    BY <1>4, <2>1, <2>2
<1>5. ASSUME NEW s \in Streams, QueueAdd(s) \/ QueueSend(s) \/ QueueSendFail(s) PROVE TypeOK'
  <2>1. us[s] \in {"add", "send"} /\ ub[s] \in Bufs /\ StreamOf[ub[s]] = s
    BY <1>0, <1>5, Sorts DEF QueueAdd, QueueSend, QueueSendFail, IoctlsOK
  <2>2. CASE QueueAdd(s)
    <3>0. Append(pending, ub[s]) \in Seq(Bufs)
      BY <1>0, <2>1
    <3>1. BuffersOK' /\ UNCHANGED wkVars /\ HistoryOK'
      <4>1. pending' \in Seq(Bufs) /\ relinked' \subseteq Bufs
        <5>1. \/ relinked' = relinked \cup {ub[s]} /\ pending' = pending
              \/ relinked' = relinked /\ pending' = Append(pending, ub[s])
          BY <2>2 DEF QueueAdd
        <5>2. relinked \subseteq Bufs
          BY <1>0 DEF HistoryOK
        <5> QED
          BY <1>0, <2>1, <3>0, <5>1, <5>2
      <4> QED
        BY <1>0, <2>2, <4>1 DEF QueueAdd, BuffersOK, HistoryOK
    <3>2. us' = [us EXCEPT ![s] = "send"] /\ ub' = ub /\ uq' = uq
      BY <2>2 DEF QueueAdd, Go
    <3>3. uq[s] # None => OwnerOf[uq[s]] = s
      BY <1>0 DEF IoctlsOK
    <3>4. ub[s] # None
      BY <2>1, Sorts
    <3>5. IoctlsOK'
      BY <1>0, <2>1, <3>2, <3>3, <3>4, IoctlTyped
    <3> QED
      BY <3>1, <3>5, <1>W DEF TypeOK
  <2>3. ASSUME NextBuffer(s) PROVE IoctlsOK'
    <3>1. us' = [us EXCEPT ![s] = IF uq[s] = None THEN "idle" ELSE "enqueue"] /\ ub' = [ub EXCEPT ![s] = None] /\ uq' = uq
      BY <2>3 DEF NextBuffer, Go
    <3>2. uq[s] # None => OwnerOf[uq[s]] = s
      BY <1>0 DEF IoctlsOK
    <3> QED
      BY <1>0, <3>1, <3>2, IoctlTyped
  <2>4. CASE QueueSend(s)
    <3>1. UNCHANGED wkVars /\ UNCHANGED histVars /\ NextBuffer(s)
      BY <2>4 DEF QueueSend
    <3>2. rid[ub[s]] \in Ids
      BY <1>0, <2>1, Sorts DEF Inv, IoctlInv
    <3>3. BuffersOK'
      BY <1>0, <2>1, <2>4, <3>2 DEF QueueSend, BuffersOK
    <3> QED
      BY <2>3, <3>1, <3>3, <1>W, <1>H DEF TypeOK
  <2>5. CASE QueueSendFail(s)
    <3>1. UNCHANGED wkVars /\ NextBuffer(s) /\ CommandFails(s) /\ BufferDone({ub[s]}) /\ {ub[s]} \in SUBSET Bufs
      BY <2>1, <2>5 DEF QueueSendFail
    <3>2. st' \in [Bufs -> Status] /\ twice' \subseteq Bufs /\ error' \subseteq Streams /\ failed' \subseteq Streams
      BY <1>0, <3>1, DoneTyped, FailTyped
    <3>3. BuffersOK' /\ HistoryOK'
      BY <1>0, <2>1, <2>5, <3>2 DEF QueueSendFail, BuffersOK, HistoryOK
    <3> QED
      BY <2>3, <3>1, <3>3, <1>W DEF TypeOK
  <2> QED
    BY <1>5, <2>2, <2>4, <2>5
<1>6. ASSUME NEW s \in Streams, Start(s) \/ StartFail(s) \/ Wait(s) PROVE TypeOK'
  <2>1. /\ us[s] \in {"enqueue", "wait"} /\ uq[s] \in Queues /\ ub[s] = None /\ UNCHANGED wkVars /\ Return(s)
        /\ OwnerOf[uq[s]] = s
    <3>1. us[s] \in {"enqueue", "wait"} /\ UNCHANGED wkVars /\ Return(s)
      BY <1>6 DEF Start, StartFail, Wait, EnqueuedAll, wkVars
    <3> QED
      BY <1>0, <3>1, Sorts DEF IoctlsOK
  <2>2. us' = [us EXCEPT ![s] = "idle"] /\ uq' = [uq EXCEPT ![s] = None] /\ ub' = ub
    BY <2>1 DEF Return, Go
  <2>3. IoctlsOK'
    BY <1>0, <2>1, <2>2, IoctlTyped
  <2>4. BuffersOK' /\ HistoryOK'
    <3>1. CASE Start(s)
      BY <1>0, <2>1, <3>1, <1>H DEF Start, BuffersOK
    <3>2. CASE StartFail(s)
      <4>1. error' \subseteq Streams /\ failed' \subseteq Streams
        BY <1>0, <3>2, FailTyped DEF StartFail, BuffersOK, HistoryOK
      <4> QED
        BY <1>0, <3>2, <4>1 DEF StartFail, BuffersOK, HistoryOK
    <3>3. CASE Wait(s)
      BY <1>0, <3>3, <1>H DEF Wait, BuffersOK, Cancelled
    <3> QED
      BY <1>6, <3>1, <3>2, <3>3
  <2> QED
    BY <2>1, <2>3, <2>4, <1>W DEF TypeOK
<1>7. ASSUME NEW s \in Streams, Off(s) \/ OffFail(s) \/ StopRelease(s) PROVE TypeOK'
  <2>1. us[s] \in {"off", "release"} /\ uq[s] \in Queues /\ uq[s] # None /\ ub[s] = None /\ OwnerOf[uq[s]] = s /\ UNCHANGED wkVars
    BY <1>0, <1>7, Sorts DEF Off, OffFail, StopRelease, IoctlsOK
  <2>2. ub' = ub /\ uq' = uq /\ (us' = [us EXCEPT ![s] = "wait"] \/ us' = [us EXCEPT ![s] = "release"])
    BY <1>7 DEF Off, OffFail, StopRelease, Go
  <2>3. IoctlsOK'
    <3>1. CASE us' = [us EXCEPT ![s] = "wait"]
      BY <1>0, <2>1, <2>2, <3>1, IoctlTyped
    <3>2. CASE us' = [us EXCEPT ![s] = "release"]
      BY <1>0, <2>1, <2>2, <3>2, IoctlTyped
    <3> QED
      BY <2>2, <3>1, <3>2
  <2>4. BuffersOK' /\ HistoryOK'
    <3>1. Unexported(uq[s]) \in [Bufs -> Ids \cup {None}]
      BY <1>0 DEF Unexported
    <3>2. CASE Off(s)
      BY <1>0, <3>1, <3>2, <1>H DEF Off, BuffersOK
    <3>3. CASE OffFail(s)
      <4>1. error' \subseteq Streams /\ failed' \subseteq Streams
        BY <1>0, <3>3, FailTyped DEF OffFail
      <4> QED
        BY <1>0, <3>1, <3>3, <4>1 DEF OffFail, BuffersOK, HistoryOK
    <3>4. CASE StopRelease(s)
      <4>1. PICK qs : Release(qs)
        BY <3>4 DEF StopRelease
      <4>2. pending' \in Seq(Bufs) /\ st' \in [Bufs -> Status] /\ twice' \subseteq Bufs
        BY <1>0, <4>1, ReleaseTyped
      <4> QED
        BY <1>0, <3>4, <4>2 DEF StopRelease, BuffersOK, HistoryOK
    <3> QED
      BY <1>7, <3>2, <3>3, <3>4
  <2> QED
    BY <2>1, <2>3, <2>4, <1>W DEF TypeOK
<1>8. ASSUME NEW s \in Streams, OtherCommandFails(s) \/ Close(s) \/ BackendError(s) PROVE TypeOK'
  <2>1. CASE OtherCommandFails(s)
    <3>1. BuffersOK' /\ UNCHANGED usVars /\ UNCHANGED wkVars /\ UNCHANGED histVars
      BY <1>0, <2>1 DEF OtherCommandFails, BuffersOK
    <3> QED
      BY <3>1, <1>I, <1>W, <1>H DEF TypeOK
  <2>2. CASE Close(s)
    <3>1. us[s] = "idle" /\ ub[s] = None /\ us' = [us EXCEPT ![s] = "closed"] /\ ub' = ub /\ uq' = uq
      BY <1>0, <2>2 DEF Close, Go, IoctlsOK
    <3>2. uq[s] # None => OwnerOf[uq[s]] = s
      BY <1>0 DEF IoctlsOK
    <3>3. IoctlsOK'
      BY <1>0, <3>1, <3>2, IoctlTyped
    <3>4. BuffersOK'
      BY <1>0, <2>2 DEF Close, BuffersOK
    <3>5. UNCHANGED wkVars /\ HistoryOK'
      BY <1>0, <2>2 DEF Close, HistoryOK
    <3> QED
      BY <3>3, <3>4, <3>5, <1>W DEF TypeOK
  <2>3. CASE BackendError(s)
    <3>1. [stream |-> s, buf |-> None, id |-> None] \in Event
      BY EventForms
    <3>2. BuffersOK' /\ UNCHANGED usVars /\ UNCHANGED wkVars /\ HistoryOK'
      BY <1>0, <2>3, <3>1 DEF BackendError, BuffersOK, HistoryOK
    <3> QED
      BY <3>2, <1>I, <1>W DEF TypeOK
  <2> QED
    BY <1>8, <2>1, <2>2, <2>3
<1>9. ASSUME Work PROVE TypeOK'
  <2>0. UNCHANGED usVars /\ IoctlsOK'
    BY <1>9, <1>I DEF Work, HandleUnknown, HandleError, HandleRelease, HandleFound, HandleNotFound, HandleDel, HandleDone
  <2>1. ASSUME GetEvent
        PROVE  /\ events' \in Seq(Event) /\ Head(events) \in Event /\ Head(events) # None
               /\ Head(events).stream \in Streams /\ Head(events).buf \in Bufs \cup {None} /\ wk = "idle"
    BY <1>0, <2>1, Taken, EventForms, Sorts DEF GetEvent
  <2>2. CASE HandleUnknown \/ HandleNotFound
    <3>1. GetEvent /\ UNCHANGED wkVars /\ UNCHANGED histVars /\ UNCHANGED <<st, rid, eid, pending, on, error, bk>>
      BY <2>2 DEF HandleUnknown, HandleNotFound
    <3>2. BuffersOK'
      BY <1>0, <2>1, <3>1 DEF BuffersOK
    <3> QED
      BY <2>0, <3>1, <3>2, <1>W, <1>H DEF TypeOK
  <2>3. CASE HandleError
    <3>1. GetEvent /\ UNCHANGED histVars
      BY <2>3 DEF HandleError
    <3>2. BuffersOK' /\ WorkOK'
      BY <1>0, <2>1, <2>3, <3>1 DEF HandleError, BuffersOK, WorkOK
    <3> QED
      BY <2>0, <3>1, <3>2, <1>H DEF TypeOK
  <2>4. CASE HandleRelease
    <3>1. PICK qs : Release(qs)
      BY <2>4 DEF HandleRelease
    <3>2. pending' \in Seq(Bufs) /\ st' \in [Bufs -> Status] /\ twice' \subseteq Bufs
      BY <1>0, <3>1, ReleaseTyped
    <3>3. BuffersOK' /\ WorkOK' /\ HistoryOK'
      BY <1>0, <2>4, <3>2 DEF HandleRelease, BuffersOK, WorkOK, HistoryOK
    <3> QED
      BY <2>0, <3>3 DEF TypeOK
  <2>5. CASE HandleFound
    <3>1. GetEvent /\ wb' \in Bufs /\ wev' = Head(events) /\ wk' = "del" /\ UNCHANGED <<st, rid, eid, pending, on, error, bk>>
      BY <1>0, <2>5, FirstFound DEF HandleFound
    <3>2. wrong' \subseteq Streams \X Streams
      BY <1>0, <1>T, <2>1, <2>5, <3>1 DEF HandleFound, Finds, HistoryOK
    <3>3. BuffersOK' /\ WorkOK' /\ HistoryOK'
      BY <1>0, <2>1, <2>5, <3>1, <3>2, Sorts DEF HandleFound, BuffersOK, WorkOK, HistoryOK
    <3> QED
      BY <2>0, <3>3 DEF TypeOK
  <2>6. CASE HandleDel
    <3>1. wk = "del" /\ wev \in Event /\ wev.stream \in Streams
      BY <1>0, <2>6, EventForms DEF HandleDel, WorkOK
    <3>2. pending' \in Seq(Bufs) /\ wrong' \subseteq Streams \X Streams
      <4>1. CASE UNCHANGED <<pending, wrong>>
        BY <1>0, <4>1 DEF HistoryOK
      <4>2. CASE /\ With(rid[wb]) # {}
                 /\ pending' = RemoveAt(pending, First(rid[wb]))
                 /\ Finds(wev, pending[First(rid[wb])])
        <5>1. First(rid[wb]) \in 1..Len(pending) /\ pending[First(rid[wb])] \in Bufs
          BY <1>0, <4>2, FirstFound
        <5>2. pending' \in Seq(Bufs)
          BY <1>0, <4>2, <5>1, DropAt
        <5> QED
          BY <1>0, <1>T, <3>1, <4>2, <5>1, <5>2 DEF Finds, HistoryOK
      <4> QED
        BY <2>6, <4>1, <4>2 DEF HandleDel
    <3>3. BuffersOK' /\ WorkOK' /\ HistoryOK'
      BY <1>0, <2>6, <3>2 DEF HandleDel, BuffersOK, WorkOK, HistoryOK
    <3> QED
      BY <2>0, <3>3 DEF TypeOK
  <2>7. CASE HandleDone
    <3>1. wb \in Bufs /\ BufferDone({wb})
      BY <1>0, <2>7, Sorts DEF HandleDone, WorkOK
    <3>2. st' \in [Bufs -> Status] /\ twice' \subseteq Bufs
      BY <1>0, <3>1, DoneTyped
    <3>3. BuffersOK' /\ WorkOK' /\ HistoryOK'
      BY <1>0, <2>7, <3>2 DEF HandleDone, BuffersOK, WorkOK, HistoryOK
    <3> QED
      BY <2>0, <3>3 DEF TypeOK
  <2> QED
    BY <1>9, <2>2, <2>3, <2>4, <2>5, <2>6, <2>7 DEF Work
<1> QED
  BY <1>1, <1>2, <1>3, <1>4, <1>5, <1>6, <1>7, <1>8, <1>9, <1>T, Sorts DEF Next, Ioctl, EnqueueNext, BufsOf
-----------------------------------------------------------------------------
(* Where the ioctls are, which buffers are active, and the export ids. *)

\* The types of the variables that the steps set.
LEMMA Typed ==
  ASSUME Inv
  PROVE  /\ TypeOK
         /\ st \in [Bufs -> {"dequeued", "queued", "active", "done", "freed"}]
         /\ us \in [Streams -> {"idle", "add", "send", "enqueue", "off", "release", "wait", "closed"}]
         /\ ub \in [Streams -> Bufs \cup {None}] /\ uq \in [Streams -> Queues \cup {None}]
         /\ rid \in [Bufs -> Ids \cup {None}] /\ eid \in [Bufs -> Ids \cup {None}]
         /\ pending \in Seq(Bufs) /\ events \in Seq(Event) /\ bk \subseteq Bufs \X Ids
         /\ \A s \in Streams :
              /\ ub[s] # None <=> us[s] \in {"add", "send"}
              /\ ub[s] # None => ub[s] \in Bufs /\ StreamOf[ub[s]] = s
              /\ us[s] \in {"enqueue", "off", "release", "wait"} => uq[s] \in Queues /\ uq[s] # None
              /\ us[s] = "off" => uq[s] \in DataQueues
              /\ uq[s] # None => uq[s] \in Queues /\ OwnerOf[uq[s]] = s
BY Sorts DEF Inv, TypeOK, BuffersOK, IoctlsOK

\* vb2_buffer_done makes the active ones of its buffers done, and no other.
LEMMA DoneEffect ==
  ASSUME TypeOK, NEW bs, BufferDone(bs)
  PROVE  /\ \A b \in Bufs : st'[b] = IF b \in bs /\ st[b] = "active" THEN "done" ELSE st[b]
         /\ \A b \in twice' : b \in twice \/ (b \in bs /\ st[b] # "active")
BY DEF BufferDone

\* A step that lists nothing and leaves the ioctls and ids alone keeps IoctlInv.
LEMMA IoctlStays ==
  ASSUME Inv, UNCHANGED <<usVars, rid, eid>>, ToSet(pending') \subseteq ToSet(pending),
         error \subseteq error', failed \subseteq failed'
  PROVE  IoctlInv'
BY DEF Inv, IoctlInv, Healthy, usVars

\* A step of one stream keeps IoctlInv when it does so for that stream.
LEMMA IoctlFrame ==
  ASSUME Inv, NEW s \in Streams,
         \A r \in Streams : r # s => us'[r] = us[r] /\ ub'[r] = ub[r] /\ uq'[r] = uq[r],
         error \subseteq error', failed \subseteq failed',
         \A b \in Bufs : StreamOf[b] # s =>
           rid'[b] = rid[b] /\ eid'[b] = eid[b] /\ (b \in ToSet(pending') => b \in ToSet(pending)),
         us'[s] \in {"idle", "closed"} => uq'[s] = None,
         ub'[s] # None => rid'[ub'[s]] # None /\ eid'[ub'[s]] = rid'[ub'[s]],
         us'[s] = "release" => s \in error' \cup failed',
         us'[s] = "add" /\ ub'[s] \in ToSet(pending') => s \in failed'
  PROVE  IoctlInv'
<1> SUFFICES ASSUME NEW r \in Streams
             PROVE  /\ us'[r] \in {"idle", "closed"} => uq'[r] = None
                    /\ ub'[r] # None => rid'[ub'[r]] # None /\ eid'[ub'[r]] = rid'[ub'[r]]
                    /\ us'[r] = "release" => r \in error' \cup failed'
                    /\ us'[r] = "add" /\ ub'[r] \in ToSet(pending') => r \in failed'
  BY DEF IoctlInv, Healthy
<1>1. CASE r = s
  BY <1>1
<1>2. CASE r # s
  <2>1. /\ us[r] \in {"idle", "closed"} => uq[r] = None
        /\ ub[r] # None => rid[ub[r]] # None /\ eid[ub[r]] = rid[ub[r]]
        /\ us[r] = "release" => r \in error \cup failed
        /\ us[r] = "add" /\ ub[r] \in ToSet(pending) => r \in failed
    BY DEF Inv, IoctlInv, Healthy
  <2>2. /\ us[r] = "add" => ub[r] # None
        /\ ub[r] # None => ub[r] \in Bufs /\ StreamOf[ub[r]] # s
    BY <1>2, Typed
  <2> QED
    BY <1>2, <2>1, <2>2
<1> QED
  BY <1>1, <1>2

\* A buffer that is accepted is exported under its id, which no other has.
LEMMA Accepted ==
  ASSUME Inv, NEW s \in Streams, NEW b \in Bufs, Enqueue(s, b), Accept(s, b)
  PROVE  /\ st' = [st EXCEPT ![b] = "active"] /\ ub' = [ub EXCEPT ![s] = b] /\ us' = [us EXCEPT ![s] = "add"] /\ uq' = uq
         /\ UNCHANGED <<pending, on, error, bk, events, wkVars, failed, twice, relinked, wrong>>
         /\ \E id \in Ids : /\ eid' = [eid EXCEPT ![b] = id] /\ rid' = [rid EXCEPT ![b] = id] /\ id # None
                            /\ \A c \in Bufs : c # b => eid[c] # id
<1>1. PICK id \in IF eid[b] = None THEN FreeIds ELSE {eid[b]} : eid' = [eid EXCEPT ![b] = id] /\ rid' = [rid EXCEPT ![b] = id]
  BY DEF Accept
<1>2. id \in Ids /\ id # None
  BY <1>1, Typed, Sorts DEF FreeIds
<1>3. \A c \in Bufs : c # b => eid[c] # id
  BY <1>1, <1>2 DEF FreeIds, Inv, ExportInv
<1> QED
  BY <1>1, <1>2, <1>3 DEF Accept, Enqueue, Go

\* What unexporting a queue leaves to the buffers of other streams.
LEMMA UnexportedEffect ==
  ASSUME Inv, NEW q \in DataQueues
  PROVE  \A b \in Bufs : Unexported(q)[b] \in {eid[b], None} /\ (StreamOf[b] # OwnerOf[q] => Unexported(q)[b] = eid[b])
BY Sorts DEF Unexported

\* Every step keeps IoctlInv.
LEMMA IoctlKept ==
  ASSUME Inv, Next
  PROVE  IoctlInv'
<1>0. TypeOK /\ pending \in Seq(Bufs) /\ Defined
  BY Typed DEF Next
<1>1. ASSUME NEW s \in Streams, NEW b \in Bufs,
             \/ Qbuf(b) /\ s = StreamOf[b]
             \/ us[s] = "enqueue" /\ b \in BufsOf(uq[s]) /\ st[b] = "queued" /\ Enqueue(s, b)
      PROVE  IoctlInv'
  <2>1. /\ Enqueue(s, b) /\ s = StreamOf[b] /\ us[s] \in {"idle", "enqueue"} /\ st[b] \in {"dequeued", "queued"}
        /\ ub[s] = None /\ UNCHANGED <<pending, error, uq, failed>>
    BY <1>1, Enqueued DEF Enqueue
  <2>2. CASE Refuse(s, b)
    BY <2>1, <2>2, IoctlStays DEF Refuse, usVars
  <2>3. CASE Accept(s, b)
    <3>1. s \notin error
      BY <2>3 DEF Accept
    <3>2. b \in ToSet(pending) => s \in failed
      BY <2>1, <3>1, <1>0 DEF Inv, PendingExact, WithDriver, Healthy, Defined
    <3>3. PICK id \in Ids : eid' = [eid EXCEPT ![b] = id] /\ rid' = [rid EXCEPT ![b] = id] /\ id # None
      BY <2>1, <2>3, Accepted
    <3>4. /\ ub' = [ub EXCEPT ![s] = b] /\ us' = [us EXCEPT ![s] = "add"]
      BY <2>1, <2>3, Accepted
    <3>5. /\ us'[s] = "add" /\ ub'[s] = b /\ rid'[b] = id /\ eid'[b] = id
          /\ \A r \in Streams : r # s => us'[r] = us[r] /\ ub'[r] = ub[r] /\ uq'[r] = uq[r]
          /\ \A c \in Bufs : StreamOf[c] # s => rid'[c] = rid[c] /\ eid'[c] = eid[c]
      BY <2>1, <3>3, <3>4, Typed
    <3> QED
      BY <2>1, <3>2, <3>3, <3>5, IoctlFrame
  <2> QED
    BY <2>1, <2>2, <2>3 DEF Enqueue
<1>2. ASSUME NEW b \in Bufs, QbufEarly(b) \/ Dqbuf(b) PROVE IoctlInv'
  BY <1>2, IoctlStays DEF QbufEarly, Dqbuf, histVars
<1>3. ASSUME NEW use \in bk, BackendDone(use) PROVE IoctlInv'
  BY <1>3, IoctlStays DEF BackendDone, histVars
<1>4. ASSUME NEW q \in Queues, StreamOn(q) \/ Stop(q) \/ StopIdle(q) \/ Reqbufs0(q) PROVE IoctlInv'
  <2>1. CASE StopIdle(q) \/ Reqbufs0(q)
    BY <2>1, IoctlStays DEF StopIdle, Reqbufs0, histVars
  <2>2. CASE StreamOn(q) \/ Stop(q)
    <3> DEFINE s == OwnerOf[q]
    <3>1. /\ s \in Streams /\ UNCHANGED <<rid, eid, pending, error, failed, ub>>
          /\ uq' = [uq EXCEPT ![s] = q] /\ us[s] = "idle"
          /\ \E l : us' = [us EXCEPT ![s] = l] /\ l \in {"enqueue", "off", "release", "wait"} /\ (l = "release" => s \in error)
      BY <2>2, Sorts DEF StreamOn, Stop, Go, histVars
    <3> HIDE DEF s
    <3>2. ub[s] = None /\ ub'[s] = None /\ us'[s] \in {"enqueue", "off", "release", "wait"} /\ (us'[s] = "release" => s \in error')
      BY <3>1, Typed
    <3>3. \A r \in Streams : r # s => us'[r] = us[r] /\ ub'[r] = ub[r] /\ uq'[r] = uq[r]
      BY <3>1, Typed
    <3> QED
      BY <3>1, <3>2, <3>3, IoctlFrame
  <2> QED
    BY <1>4, <2>1, <2>2
<1>5. ASSUME NEW s \in Streams, QueueAdd(s) PROVE IoctlInv'
  <2>1. /\ us[s] = "add" /\ ub[s] \in Bufs /\ StreamOf[ub[s]] = s /\ us' = [us EXCEPT ![s] = "send"]
        /\ UNCHANGED <<ub, uq, rid, eid, error, failed>>
        /\ pending' = pending \/ pending' = Append(pending, ub[s])
    BY <1>5, Typed DEF QueueAdd, Go
  <2>2. \A b \in ToSet(pending') : b \in ToSet(pending) \/ b = ub[s]
    BY <2>1, <1>0 DEF ToSet
  <2>3. rid'[ub'[s]] # None /\ eid'[ub'[s]] = rid'[ub'[s]]
    BY <2>1, Sorts DEF Inv, IoctlInv
  <2>4. us'[s] = "send" /\ \A r \in Streams : r # s => us'[r] = us[r]
    BY <2>1, Typed
  <2> QED
    BY <2>1, <2>2, <2>3, <2>4, IoctlFrame
<1>6. ASSUME NEW s \in Streams, QueueSend(s) \/ QueueSendFail(s) PROVE IoctlInv'
  <2>1. /\ us[s] = "send" /\ NextBuffer(s) /\ UNCHANGED <<rid, pending>>
        /\ error \subseteq error' /\ failed \subseteq failed'
        /\ eid' = eid \/ eid' = [eid EXCEPT ![ub[s]] = None]
    BY <1>6 DEF QueueSend, QueueSendFail, CommandFails, histVars
  <2>2. /\ ub'[s] = None /\ us'[s] \in {"idle", "enqueue"} /\ (us'[s] = "idle" => uq'[s] = None)
        /\ \A r \in Streams : r # s => us'[r] = us[r] /\ ub'[r] = ub[r] /\ uq'[r] = uq[r]
    BY <2>1, Typed DEF NextBuffer, Go
  <2>3. \A b \in Bufs : StreamOf[b] # s => eid'[b] = eid[b]
    BY <2>1, Typed
  <2> QED
    BY <2>1, <2>2, <2>3, IoctlFrame
<1>7. ASSUME NEW s \in Streams, Start(s) \/ StartFail(s) \/ Wait(s) PROVE IoctlInv'
  <2>1. /\ us[s] \in {"enqueue", "wait"} /\ Return(s) /\ UNCHANGED <<rid, eid, pending>>
        /\ error \subseteq error' /\ failed \subseteq failed'
    BY <1>7 DEF Start, StartFail, Wait, EnqueuedAll, CommandFails, histVars
  <2>2. /\ us'[s] = "idle" /\ uq'[s] = None /\ ub'[s] = None
        /\ \A r \in Streams : r # s => us'[r] = us[r] /\ ub'[r] = ub[r] /\ uq'[r] = uq[r]
    BY <2>1, Typed DEF Return, Go
  <2> QED
    BY <2>1, <2>2, IoctlFrame
<1>8. ASSUME NEW s \in Streams, Off(s) \/ OffFail(s) \/ StopRelease(s) PROVE IoctlInv'
  <2>1. /\ us[s] \in {"off", "release"} /\ UNCHANGED <<rid, ub, uq>>
        /\ error \subseteq error' /\ failed \subseteq failed'
        /\ \E l : us' = [us EXCEPT ![s] = l] /\ (l = "wait" \/ (l = "release" /\ s \in error' \cup failed'))
    BY <1>8 DEF Off, OffFail, StopRelease, CommandFails, Go, histVars
  <2>2. \A b \in Bufs : StreamOf[b] # s => eid'[b] = eid[b]
    <3>1. CASE Off(s) \/ OffFail(s)
      <4>1. uq[s] \in DataQueues /\ OwnerOf[uq[s]] = s /\ eid' = Unexported(uq[s])
        BY <3>1, Typed, Sorts DEF Off, OffFail
      <4> QED
        BY <4>1, UnexportedEffect
    <3>2. CASE StopRelease(s)
      BY <3>2 DEF StopRelease
    <3> QED
      BY <1>8, <3>1, <3>2
  <2>3. ToSet(pending') \subseteq ToSet(pending)
    <3>1. CASE Off(s) \/ OffFail(s)
      BY <3>1 DEF Off, OffFail
    <3>2. CASE StopRelease(s)
      BY <3>2, <1>0, ReleaseTyped DEF StopRelease
    <3> QED
      BY <1>8, <3>1, <3>2
  <2>4. ub'[s] = None /\ us'[s] \in {"wait", "release"} /\ (us'[s] = "release" => s \in error' \cup failed')
    BY <2>1, Typed
  <2>5. \A r \in Streams : r # s => us'[r] = us[r] /\ ub'[r] = ub[r] /\ uq'[r] = uq[r]
    BY <2>1, Typed
  <2> QED
    BY <2>1, <2>2, <2>3, <2>4, <2>5, IoctlFrame
<1>9. ASSUME NEW s \in Streams, Close(s) PROVE IoctlInv'
  <2>1. /\ us[s] = "idle" /\ UNCHANGED <<rid, pending, ub, uq>> /\ us' = [us EXCEPT ![s] = "closed"]
        /\ error \subseteq error' /\ failed \subseteq failed'
        /\ \A b \in Bufs : StreamOf[b] # s => eid'[b] = eid[b]
    BY <1>9 DEF Close, Go
  <2>2. /\ us'[s] = "closed" /\ uq'[s] = None /\ ub'[s] = None
        /\ \A r \in Streams : r # s => us'[r] = us[r] /\ ub'[r] = ub[r] /\ uq'[r] = uq[r]
    BY <2>1, Typed DEF Inv, IoctlInv
  <2> QED
    BY <2>1, <2>2, IoctlFrame
<1>10. ASSUME NEW s \in Streams, OtherCommandFails(s) \/ BackendError(s) PROVE IoctlInv'
  BY <1>10, IoctlStays DEF OtherCommandFails, BackendError, histVars
<1>11. ASSUME Work PROVE IoctlInv'
  <2>1. UNCHANGED <<usVars, rid, eid>> /\ error \subseteq error' /\ failed \subseteq failed'
    BY <1>11 DEF Work, HandleUnknown, HandleError, HandleRelease, HandleFound, HandleNotFound, HandleDel, HandleDone, histVars
  <2>2. ToSet(pending') \subseteq ToSet(pending)
    <3>1. CASE HandleRelease
      BY <3>1, <1>0, ReleaseTyped DEF HandleRelease
    <3>2. CASE HandleDel
      <4>1. CASE pending' = RemoveAt(pending, First(rid[wb])) /\ With(rid[wb]) # {}
        BY <4>1, <1>0, FirstFound, TakenOut
      <4> QED
        BY <3>2, <4>1 DEF HandleDel
    <3> QED
      BY <1>11, <3>1, <3>2 DEF Work, HandleUnknown, HandleError, HandleFound, HandleNotFound, HandleDone
  <2> QED
    BY <2>1, <2>2, IoctlStays
<1> QED
  BY <1>1, <1>2, <1>3, <1>4, <1>5, <1>6, <1>7, <1>8, <1>9, <1>10, <1>11, Sorts DEF Next, Ioctl, EnqueueNext, BufsOf

\* Every step keeps ActiveInv: buffers stop to be active before their queue does.
LEMMA ActiveKept ==
  ASSUME Inv, Next
  PROVE  ActiveInv'
<1>0. TypeOK /\ ActiveInv
  BY Typed DEF Inv
<1> DEFINE Shown(b) == QueueOf[b] \in on' \/ (us'[StreamOf[b]] \in {"enqueue", "add", "send"} /\ uq'[StreamOf[b]] = QueueOf[b])
<1>A. \A b \in Bufs : st[b] = "active" => QueueOf[b] \in on \/ (us[StreamOf[b]] \in {"enqueue", "add", "send"} /\ uq[StreamOf[b]] = QueueOf[b])
  BY <1>0 DEF ActiveInv
<1>B. ASSUME \A b \in Bufs : st'[b] = "active" => Shown(b) PROVE ActiveInv'
  BY <1>B DEF ActiveInv
\* No buffer becomes active, and its queue does not stop.
<1>F. ASSUME \A b \in Bufs : st'[b] = "active" => st[b] = "active", on \subseteq on', UNCHANGED <<us, uq>> PROVE ActiveInv'
  <2> SUFFICES ASSUME NEW b \in Bufs, st'[b] = "active" PROVE Shown(b)
    BY <1>B
  <2> QED
    BY <1>A, <1>F
<1>1. ASSUME NEW s \in Streams, NEW b \in Bufs,
             \/ Qbuf(b) /\ s = StreamOf[b]
             \/ us[s] = "enqueue" /\ b \in BufsOf(uq[s]) /\ st[b] = "queued" /\ Enqueue(s, b)
      PROVE  ActiveInv'
  <2>1. /\ Enqueue(s, b) /\ s = StreamOf[b] /\ uq' = uq /\ on' = on /\ us[s] \in {"idle", "enqueue"}
        /\ QueueOf[b] \in on \/ uq[s] = QueueOf[b]
    BY <1>1, Enqueued DEF Enqueue
  <2>2. CASE Refuse(s, b)
    <3>1. st' = [st EXCEPT ![b] = "done"] /\ us' = us
      BY <2>2 DEF Refuse
    <3>2. \A c \in Bufs : st'[c] = "active" => st[c] = "active"
      BY <3>1, Typed
    <3> QED
      BY <2>1, <3>1, <3>2, <1>F
  <2>3. CASE Accept(s, b)
    <3>1. st' = [st EXCEPT ![b] = "active"] /\ us' = [us EXCEPT ![s] = "add"]
      BY <2>1, <2>3, Accepted
    <3>2. /\ \A c \in Bufs : c # b => st'[c] = st[c]
          /\ \A r \in Streams : r # s => us'[r] = us[r]
          /\ us'[s] = "add"
      BY <3>1, Typed
    <3>3. ASSUME NEW c \in Bufs, st'[c] = "active" PROVE Shown(c)
      <4>1. CASE c = b
        BY <2>1, <3>2, <4>1
      <4>2. CASE c # b
        BY <1>A, <2>1, <3>2, <3>3, <4>2, Sorts
      <4> QED
        BY <4>1, <4>2
    <3> QED
      BY <3>3, <1>B
  <2> QED
    BY <2>1, <2>2, <2>3 DEF Enqueue
<1>2. ASSUME NEW b \in Bufs, QbufEarly(b) \/ Dqbuf(b) PROVE ActiveInv'
  <2>1. (st' = [st EXCEPT ![b] = "queued"] \/ st' = [st EXCEPT ![b] = "dequeued"]) /\ UNCHANGED <<us, uq, on>>
    BY <1>2 DEF QbufEarly, Dqbuf, usVars
  <2>2. \A c \in Bufs : st'[c] = "active" => st[c] = "active"
    BY <2>1, Typed
  <2> QED
    BY <2>1, <2>2, <1>F
<1>3. ASSUME NEW use \in bk, BackendDone(use) PROVE ActiveInv'
  BY <1>3, <1>F DEF BackendDone, usVars
<1>4. ASSUME NEW q \in Queues, StreamOn(q) \/ Stop(q) PROVE ActiveInv'
  <2>1. /\ us[OwnerOf[q]] = "idle" /\ UNCHANGED <<st, on>> /\ uq' = [uq EXCEPT ![OwnerOf[q]] = q]
        /\ \E l : us' = [us EXCEPT ![OwnerOf[q]] = l]
    BY <1>4 DEF StreamOn, Stop, Go
  <2>2. \A r \in Streams : r # OwnerOf[q] => us'[r] = us[r] /\ uq'[r] = uq[r]
    BY <2>1, Typed
  <2>3. ASSUME NEW b \in Bufs, st'[b] = "active" PROVE Shown(b)
    BY <1>A, <2>1, <2>2, <2>3, Sorts
  <2> QED
    BY <2>3, <1>B
<1>5. ASSUME NEW q \in Queues, StopIdle(q) \/ Reqbufs0(q) PROVE ActiveInv'
  <2>1. (\A b \in Bufs : st'[b] = "active" => st[b] = "active") /\ UNCHANGED <<us, uq, on>>
    BY <1>5 DEF StopIdle, Reqbufs0, Cancelled, usVars
  <2> QED
    BY <2>1, <1>F
<1>6. ASSUME NEW s \in Streams, QueueAdd(s) \/ QueueSend(s) \/ QueueSendFail(s) PROVE ActiveInv'
  <2>1. us[s] \in {"add", "send"} /\ on' = on /\ uq' = uq
    BY <1>6 DEF QueueAdd, QueueSend, QueueSendFail, NextBuffer
  <2>2. us' = [us EXCEPT ![s] = "send"] \/ us' = [us EXCEPT ![s] = IF uq[s] = None THEN "idle" ELSE "enqueue"]
    BY <1>6 DEF QueueAdd, QueueSend, QueueSendFail, NextBuffer, Go
  <2>3. \A b \in Bufs : st'[b] = "active" => st[b] = "active"
    <3>1. CASE QueueAdd(s) \/ QueueSend(s)
      BY <3>1 DEF QueueAdd, QueueSend
    <3>2. CASE QueueSendFail(s)
      BY <3>2, <1>0, DoneEffect DEF QueueSendFail
    <3> QED
      BY <1>6, <3>1, <3>2
  <2>4. us'[s] \in {"send", "enqueue"} \/ uq[s] = None
    BY <2>2, Typed
  <2>5. \A r \in Streams : r # s => us'[r] = us[r]
    BY <2>2, Typed
  <2>6. ASSUME NEW b \in Bufs, st'[b] = "active" PROVE Shown(b)
    <3>1. QueueOf[b] \in on \/ (us[StreamOf[b]] \in {"enqueue", "add", "send"} /\ uq[StreamOf[b]] = QueueOf[b])
      BY <1>A, <2>3, <2>6
    <3>2. QueueOf[b] # None /\ StreamOf[b] \in Streams
      BY Sorts
    <3> QED
      BY <2>1, <2>4, <2>5, <3>1, <3>2
  <2> QED
    BY <2>6, <1>B
<1>7. ASSUME NEW s \in Streams, Start(s) \/ StartFail(s) \/ Wait(s) PROVE ActiveInv'
  <2>1. /\ us[s] \in {"enqueue", "wait"} /\ us' = [us EXCEPT ![s] = "idle"] /\ uq' = [uq EXCEPT ![s] = None]
        /\ uq[s] \in Queues /\ OwnerOf[uq[s]] = s
    BY <1>7, Typed DEF Start, StartFail, Wait, EnqueuedAll, Return, Go
  <2>2. \A r \in Streams : r # s => us'[r] = us[r] /\ uq'[r] = uq[r]
    BY <2>1, Typed
  <2>3. /\ \A b \in Bufs : st'[b] = "active" => st[b] = "active"
        /\ \A b \in Bufs : st'[b] = "active" => QueueOf[b] # uq[s] \/ uq[s] \in on'
        /\ \A q \in Queues : q \in on /\ q # uq[s] => q \in on'
    <3>1. CASE Start(s)
      BY <3>1 DEF Start
    <3>2. CASE StartFail(s)
      BY <3>2 DEF StartFail
    <3>3. CASE Wait(s)
      BY <3>3 DEF Wait, Cancelled, BufsOf
    <3> QED
      BY <1>7, <3>1, <3>2, <3>3
  <2>4. ASSUME NEW b \in Bufs, st'[b] = "active" PROVE Shown(b)
    <3>1. QueueOf[b] \in on \/ (us[StreamOf[b]] \in {"enqueue", "add", "send"} /\ uq[StreamOf[b]] = QueueOf[b])
      BY <1>A, <2>3, <2>4
    <3>2. QueueOf[b] \in Queues /\ StreamOf[b] \in Streams
      BY Sorts
    <3> QED
      BY <2>2, <2>3, <2>4, <3>1, <3>2
  <2> QED
    BY <2>4, <1>B
<1>8. ASSUME NEW s \in Streams, Off(s) \/ OffFail(s) \/ StopRelease(s) \/ Close(s) PROVE ActiveInv'
  <2>1. /\ us[s] \in {"off", "release", "idle"} /\ UNCHANGED <<on, uq>>
        /\ \E l : us' = [us EXCEPT ![s] = l]
    BY <1>8 DEF Off, OffFail, StopRelease, Close, Go
  <2>2. \A b \in Bufs : st'[b] = "active" => st[b] = "active"
    <3>1. CASE Off(s) \/ OffFail(s)
      BY <3>1 DEF Off, OffFail
    <3>2. CASE StopRelease(s)
      BY <3>2, <1>0, DoneEffect DEF StopRelease, Release
    <3>3. CASE Close(s)
      BY <3>3 DEF Close
    <3> QED
      BY <1>8, <3>1, <3>2, <3>3
  <2>3. \A r \in Streams : r # s => us'[r] = us[r]
    BY <2>1, Typed
  <2>4. ASSUME NEW b \in Bufs, st'[b] = "active" PROVE Shown(b)
    BY <1>A, <2>1, <2>2, <2>3, <2>4, Sorts
  <2> QED
    BY <2>4, <1>B
<1>9. ASSUME NEW s \in Streams, OtherCommandFails(s) \/ BackendError(s) PROVE ActiveInv'
  BY <1>9, <1>F DEF OtherCommandFails, BackendError, usVars
<1>10. ASSUME Work PROVE ActiveInv'
  <2>1. UNCHANGED <<us, uq, on>>
    BY <1>10 DEF Work, HandleUnknown, HandleError, HandleRelease, HandleFound, HandleNotFound, HandleDel, HandleDone, usVars
  <2>2. \A b \in Bufs : st'[b] = "active" => st[b] = "active"
    <3>1. CASE HandleRelease \/ HandleDone
      BY <3>1, <1>0, DoneEffect DEF HandleRelease, HandleDone, Release
    <3> QED
      BY <1>10, <3>1 DEF Work, HandleUnknown, HandleError, HandleFound, HandleNotFound, HandleDel
  <2> QED
    BY <2>1, <2>2, <1>F
<1> HIDE DEF Shown
<1> QED
  BY <1>1, <1>2, <1>3, <1>4, <1>5, <1>6, <1>7, <1>8, <1>9, <1>10, Sorts DEF Next, Ioctl, EnqueueNext, BufsOf

\* Every step keeps ExportInv: an id is given to a buffer only while no other has it.
LEMMA ExportKept ==
  ASSUME Inv, Next
  PROVE  ExportInv'
<1>0. TypeOK /\ ExportInv
  BY Typed DEF Inv
<1>F. ASSUME \A b \in Bufs : eid'[b] \in {eid[b], None} PROVE ExportInv'
  BY <1>0, <1>F DEF ExportInv
<1>1. ASSUME NEW s \in Streams, NEW b \in Bufs,
             \/ Qbuf(b) /\ s = StreamOf[b]
             \/ us[s] = "enqueue" /\ b \in BufsOf(uq[s]) /\ st[b] = "queued" /\ Enqueue(s, b)
      PROVE  ExportInv'
  <2>1. Enqueue(s, b)
    BY <1>1, Enqueued
  <2>2. CASE Refuse(s, b)
    BY <2>2, <1>F DEF Refuse
  <2>3. CASE Accept(s, b)
    <3>1. PICK id \in Ids : eid' = [eid EXCEPT ![b] = id] /\ (\A c \in Bufs : c # b => eid[c] # id)
      BY <2>1, <2>3, Accepted
    <3>2. eid'[b] = id /\ \A c \in Bufs : c # b => eid'[c] = eid[c]
      BY <3>1, Typed
    <3> QED
      BY <1>0, <3>1, <3>2 DEF ExportInv
  <2> QED
    BY <2>1, <2>2, <2>3 DEF Enqueue
<1>2. ASSUME NEW s \in Streams, QueueSendFail(s) PROVE ExportInv'
  <2>1. \A b \in Bufs : eid'[b] \in {eid[b], None}
    BY <1>2, Typed DEF QueueSendFail
  <2> QED
    BY <2>1, <1>F
<1>3. ASSUME NEW s \in Streams, Off(s) \/ OffFail(s) PROVE ExportInv'
  <2>1. uq[s] \in DataQueues /\ eid' = Unexported(uq[s])
    BY <1>3, Typed DEF Off, OffFail
  <2> QED
    BY <2>1, UnexportedEffect, <1>F
<1>4. ASSUME NEW s \in Streams, Close(s) PROVE ExportInv'
  <2>1. \A b \in Bufs : eid'[b] \in {eid[b], None}
    BY <1>4 DEF Close
  <2> QED
    BY <2>1, <1>F
<1>5. CASE eid' = eid
  BY <1>5, <1>F
<1>6. CASE Work
  BY <1>6, <1>5 DEF Work, HandleUnknown, HandleError, HandleRelease, HandleFound, HandleNotFound, HandleDel, HandleDone
<1>7. ASSUME NEW b \in Bufs, QbufEarly(b) \/ Dqbuf(b) PROVE ExportInv'
  BY <1>7, <1>5 DEF QbufEarly, Dqbuf
<1>8. ASSUME NEW use \in bk, BackendDone(use) PROVE ExportInv'
  BY <1>8, <1>5 DEF BackendDone
<1>9. ASSUME NEW q \in Queues, StreamOn(q) \/ Stop(q) \/ StopIdle(q) \/ Reqbufs0(q) PROVE ExportInv'
  BY <1>9, <1>5 DEF StreamOn, Stop, StopIdle, Reqbufs0
<1>10. ASSUME NEW s \in Streams, \/ QueueAdd(s) \/ QueueSend(s) \/ Start(s) \/ StartFail(s) \/ Wait(s)
                                 \/ StopRelease(s) \/ OtherCommandFails(s) \/ BackendError(s)
       PROVE  ExportInv'
  BY <1>10, <1>5 DEF QueueAdd, QueueSend, Start, StartFail, Wait, StopRelease, OtherCommandFails, BackendError
<1> QED
  BY <1>1, <1>2, <1>3, <1>4, <1>6, <1>7, <1>8, <1>9, <1>10, Sorts DEF Next, Ioctl, EnqueueNext, BufsOf

\* How a step changes the list: it appends a buffer that is not on it, or leaves out some, in order.
LEMMA PendingSteps ==
  ASSUME Inv, Next
  PROVE  \/ \E s \in Streams : QueueAdd(s) /\ ub[s] \notin ToSet(pending) /\ pending' = Append(pending, ub[s])
         \/ /\ pending' \in Seq(Bufs) /\ ToSet(pending') \subseteq ToSet(pending)
            /\ \E e \in [DOMAIN pending' -> DOMAIN pending] :
                 /\ \A n \in DOMAIN pending' : pending'[n] = pending[e[n]]
                 /\ \A n, m \in DOMAIN pending' : n < m => e[n] < e[m]
<1> DEFINE Shorter == /\ pending' \in Seq(Bufs) /\ ToSet(pending') \subseteq ToSet(pending)
                      /\ \E e \in [DOMAIN pending' -> DOMAIN pending] :
                           /\ \A n \in DOMAIN pending' : pending'[n] = pending[e[n]]
                           /\ \A n, m \in DOMAIN pending' : n < m => e[n] < e[m]
<1>0. TypeOK /\ pending \in Seq(Bufs)
  BY Typed
<1>1. ASSUME pending' = pending PROVE Shorter
  <2> DEFINE e == [n \in DOMAIN pending |-> n]
  <2>1. e \in [DOMAIN pending -> DOMAIN pending] /\ \A n \in DOMAIN pending : e[n] = n
    OBVIOUS
  <2> HIDE DEF e
  <2> QED
    BY <1>0, <1>1, <2>1
<1>2. ASSUME NEW qs, Release(qs) PROVE Shorter
  <2>1. pending' = Without(pending, Releasable(qs))
    BY <1>2 DEF Release
  <2> QED
    BY <1>0, <2>1, Walked
<1> HIDE DEF Shorter
<1>3. ASSUME Work PROVE Shorter
  <2>1. CASE HandleRelease
    BY <2>1, <1>2 DEF HandleRelease
  <2>2. CASE HandleDel
    <3>1. CASE pending' = RemoveAt(pending, First(rid[wb])) /\ With(rid[wb]) # {}
      <4>1. First(rid[wb]) \in 1..Len(pending)
        BY <1>0, <3>1, FirstFound
      <4> QED
        BY <1>0, <3>1, <4>1, TakenOut DEF Shorter
    <3> QED
      BY <2>2, <3>1, <1>1 DEF HandleDel
  <2>3. CASE pending' = pending
    BY <1>1, <2>3
  <2> QED
    BY <1>3, <2>1, <2>2, <2>3 DEF Work, HandleUnknown, HandleError, HandleFound, HandleNotFound, HandleDone
<1>4. ASSUME NEW s \in Streams, StopRelease(s) PROVE Shorter
  BY <1>4, <1>2 DEF StopRelease
<1>5. ASSUME NEW s \in Streams, QueueAdd(s)
      PROVE  Shorter \/ (ub[s] \notin ToSet(pending) /\ pending' = Append(pending, ub[s]))
  BY <1>5, <1>1 DEF QueueAdd
<1>6. ASSUME NEW b \in Bufs, Qbuf(b) \/ QbufEarly(b) \/ Dqbuf(b) PROVE pending' = pending
  BY <1>6 DEF Qbuf, Enqueue, QbufEarly, Dqbuf
<1>7. ASSUME NEW use \in bk, BackendDone(use) PROVE pending' = pending
  BY <1>7 DEF BackendDone
<1>8. ASSUME NEW q \in Queues, StreamOn(q) \/ Stop(q) \/ StopIdle(q) \/ Reqbufs0(q) PROVE pending' = pending
  BY <1>8 DEF StreamOn, Stop, StopIdle, Reqbufs0
<1>9. ASSUME NEW s \in Streams, \/ EnqueueNext(s) \/ QueueSend(s) \/ QueueSendFail(s) \/ Start(s) \/ StartFail(s)
                                \/ Wait(s) \/ Off(s) \/ OffFail(s) \/ OtherCommandFails(s) \/ Close(s) \/ BackendError(s)
      PROVE  pending' = pending
  BY <1>9 DEF EnqueueNext, Enqueue, QueueSend, QueueSendFail, Start, StartFail, Wait, Off, OffFail, OtherCommandFails, Close, BackendError
<1>10. Shorter \/ \E s \in Streams : QueueAdd(s) /\ ub[s] \notin ToSet(pending) /\ pending' = Append(pending, ub[s])
  BY <1>1, <1>3, <1>4, <1>5, <1>6, <1>7, <1>8, <1>9, Sorts DEF Next, Ioctl
<1> QED
  BY <1>10 DEF Shorter

\* Every step keeps the entries of the list distinct.
LEMMA DistinctKept ==
  ASSUME Inv, Next
  PROVE  DistinctInv'
<1>0. pending \in Seq(Bufs) /\ \A i, j \in DOMAIN pending : pending[i] = pending[j] => i = j
  BY Typed DEF Inv, DistinctInv
<1>1. ASSUME NEW b \in Bufs, b \notin ToSet(pending), pending' = Append(pending, b) PROVE DistinctInv'
  BY <1>0, <1>1, Appended DEF DistinctInv, ToSet
<1>2. ASSUME pending' \in Seq(Bufs), NEW e \in [DOMAIN pending' -> DOMAIN pending],
             \A n \in DOMAIN pending' : pending'[n] = pending[e[n]],
             \A n, m \in DOMAIN pending' : n < m => e[n] < e[m]
      PROVE  DistinctInv'
  <2> SUFFICES ASSUME NEW i \in DOMAIN pending', NEW j \in DOMAIN pending', pending'[i] = pending'[j]
               PROVE  i = j
    BY DEF DistinctInv
  <2>1. e[i] = e[j] /\ e[i] \in Nat /\ i \in Nat /\ j \in Nat
    BY <1>0, <1>2
  <2>2. ~(i < j) /\ ~(j < i)
    BY <1>2, <2>1
  <2> QED
    BY <2>1, <2>2
<1>3. ASSUME NEW s \in Streams, QueueAdd(s) PROVE ub[s] \in Bufs
  BY <1>3, Typed DEF QueueAdd
<1> QED
  BY <1>1, <1>2, <1>3, PendingSteps
-----------------------------------------------------------------------------
(* Events, and what the histories say. *)

\* A step other than these leaves the events and the work item alone.
LEMMA EventSteps ==
  ASSUME Inv, Next
  PROVE  \/ UNCHANGED <<events, wkVars, wrong>>
         \/ \E use \in bk : BackendDone(use)
         \/ \E s \in Streams : BackendError(s)
         \/ Work
<1>1. ASSUME NEW b \in Bufs, Qbuf(b) \/ QbufEarly(b) \/ Dqbuf(b) PROVE UNCHANGED <<events, wkVars, wrong>>
  BY <1>1 DEF Qbuf, Enqueue, QbufEarly, Dqbuf, histVars
<1>2. ASSUME NEW q, StreamOn(q) \/ Stop(q) \/ StopIdle(q) \/ Reqbufs0(q) PROVE UNCHANGED <<events, wkVars, wrong>>
  BY <1>2 DEF StreamOn, Stop, StopIdle, Reqbufs0, histVars
<1>3. ASSUME NEW s \in Streams, Ioctl(s) \/ Wait(s) PROVE UNCHANGED <<events, wkVars, wrong>>
  BY <1>3 DEF Ioctl, EnqueueNext, Enqueue, QueueAdd, QueueSend, QueueSendFail, Start, StartFail, Wait, Off, OffFail, StopRelease,
              OtherCommandFails, Close, histVars
<1> QED
  BY <1>1, <1>2, <1>3 DEF Next

\* A step makes no failure of a stream undone.
LEMMA FailuresGrow ==
  ASSUME Inv, Next
  PROVE  error \subseteq error' /\ failed \subseteq failed'
<1>1. ASSUME NEW b \in Bufs, Qbuf(b) \/ QbufEarly(b) \/ Dqbuf(b) PROVE error \subseteq error' /\ failed \subseteq failed'
  BY <1>1 DEF Qbuf, Enqueue, QbufEarly, Dqbuf, histVars
<1>2. ASSUME NEW q, StreamOn(q) \/ Stop(q) \/ StopIdle(q) \/ Reqbufs0(q) PROVE error \subseteq error' /\ failed \subseteq failed'
  BY <1>2 DEF StreamOn, Stop, StopIdle, Reqbufs0, histVars
<1>3. ASSUME NEW s \in Streams, Ioctl(s) \/ Wait(s) \/ BackendError(s) PROVE error \subseteq error' /\ failed \subseteq failed'
  BY <1>3 DEF Ioctl, EnqueueNext, Enqueue, QueueAdd, QueueSend, QueueSendFail, Start, StartFail, Wait, Off, OffFail, StopRelease,
              OtherCommandFails, Close, BackendError, CommandFails, histVars
<1>4. ASSUME NEW use, BackendDone(use) PROVE error \subseteq error' /\ failed \subseteq failed'
  BY <1>4 DEF BackendDone, histVars
<1>5. ASSUME Work PROVE error \subseteq error' /\ failed \subseteq failed'
  BY <1>5 DEF Work, HandleUnknown, HandleError, HandleRelease, HandleFound, HandleNotFound, HandleDel, HandleDone, histVars
<1> QED
  BY <1>1, <1>2, <1>3, <1>4, <1>5 DEF Next

\* An event that is taken leaves the others, one place further on.
LEMMA EventTaken ==
  ASSUME Inv, GetEvent
  PROVE  /\ wk = "idle" /\ wev = None /\ wb = None /\ Head(events) \in Event /\ 1 \in DOMAIN events /\ events[1] = Head(events)
         /\ Head(events).buf \in Bufs \cup {None} /\ Head(events).stream \in Streams
         /\ Head(events).buf # None => Head(events).stream = StreamOf[Head(events).buf]
         /\ \A n \in DOMAIN events' : n \in Nat /\ n + 1 \in DOMAIN events /\ events'[n] = events[n + 1]
         /\ \A n \in DOMAIN events : n = 1 \/ (n - 1 \in DOMAIN events' /\ events'[n - 1] = events[n])
<1>1. events \in Seq(Event) /\ events # <<>> /\ events' = Tail(events) /\ wk = "idle"
  BY Typed DEF GetEvent
<1>2. wev = None /\ wb = None
  BY <1>1 DEF Inv, TypeOK, WorkOK
<1>3. \A k \in DOMAIN events : events[k].buf # None => events[k].stream = StreamOf[events[k].buf]
  BY DEF Inv, EventInv
<1> QED
  BY <1>1, <1>2, <1>3, Taken, EventForms

\* Every step keeps EventInv.
LEMMA EventKept ==
  ASSUME Inv, Next
  PROVE  EventInv'
<1>0. EventInv /\ events \in Seq(Event) /\ Defined /\ wrong = {} /\ error \subseteq error'
  BY Typed, FailuresGrow DEF Inv, Next, Defined
<1>1. CASE UNCHANGED <<events, wkVars, wrong>>
  <2>1. UNCHANGED <<events, wk, wev, wb, wrong>>
    BY <1>1 DEF wkVars
  <2> QED
    BY <1>0, <2>1 DEF EventInv
<1>2. ASSUME NEW e, events' = Append(events, e), e \in Event, e.buf # None => e.stream = StreamOf[e.buf],
             UNCHANGED <<wkVars, wrong>>
      PROVE  EventInv'
  <2>1. \A n \in DOMAIN events' : (n \in DOMAIN events /\ events'[n] = events[n]) \/ events'[n] = e
    BY <1>0, <1>2, Appended
  <2>2. UNCHANGED <<wk, wev, wb, wrong>>
    BY <1>2 DEF wkVars
  <2> QED
    BY <1>0, <1>2, <2>1, <2>2 DEF EventInv
<1>3. ASSUME NEW use \in bk, BackendDone(use) PROVE EventInv'
  <2> DEFINE e == [stream |-> StreamOf[use[1]], buf |-> use[1], id |-> use[2]]
  <2>1. use[1] \in Bufs /\ use[2] \in Ids /\ StreamOf[use[1]] \in Streams
    BY Typed, Sorts
  <2>2. e \in Event /\ e.buf = use[1] /\ e.stream = StreamOf[use[1]]
    BY <2>1, EventForms
  <2>3. events' = Append(events, e) /\ UNCHANGED <<wkVars, wrong>>
    BY <1>3 DEF BackendDone, histVars
  <2> HIDE DEF e
  <2> QED
    BY <1>2, <2>2, <2>3
<1>4. ASSUME NEW s \in Streams, BackendError(s) PROVE EventInv'
  <2> DEFINE e == [stream |-> s, buf |-> None, id |-> None]
  <2>2. e \in Event /\ e.buf = None
    BY EventForms
  <2>3. events' = Append(events, e) /\ UNCHANGED <<wkVars, wrong>>
    BY <1>4 DEF BackendError
  <2> HIDE DEF e
  <2> QED
    BY <1>2, <2>2, <2>3
<1>5. ASSUME Work PROVE EventInv'
  <2>1. ASSUME GetEvent
        PROVE  \A k \in DOMAIN events' : events'[k].buf # None => events'[k].stream = StreamOf[events'[k].buf]
    BY <1>0, <2>1, EventTaken DEF EventInv
  <2>2. CASE HandleUnknown \/ HandleNotFound
    <3>1. GetEvent /\ wk = "idle" /\ wk' = "idle"
      BY <2>2 DEF HandleUnknown, HandleNotFound, GetEvent, wkVars
    <3> QED
      BY <2>1, <3>1 DEF EventInv
  <2>3. CASE HandleError
    <3>1. GetEvent /\ wk' = "release" /\ wev' = Head(events) /\ Head(events).buf = None /\ Head(events).stream \in error'
      BY <2>3 DEF HandleError
    <3> QED
      BY <2>1, <3>1 DEF EventInv
  <2>4. CASE HandleRelease \/ HandleDone
    <3>1. wk' = "idle" /\ events' = events
      BY <2>4 DEF HandleRelease, HandleDone
    <3> QED
      BY <1>0, <3>1 DEF EventInv
  <2>5. CASE HandleFound
    <3>1. /\ GetEvent /\ wk' = "del" /\ wev' = Head(events) /\ Head(events).buf # None
          /\ wrong' = {} => wb' = Head(events).buf
      BY <1>0, <2>5 DEF HandleFound, Finds
    <3>2. Head(events).stream = StreamOf[Head(events).buf]
      BY <3>1, EventTaken
    <3> QED
      BY <2>1, <3>1, <3>2 DEF EventInv
  <2>6. CASE HandleDel
    <3>1. wk = "del" /\ wk' = "done" /\ UNCHANGED <<events, wev, wb>>
      BY <2>6 DEF HandleDel
    <3> QED
      BY <1>0, <3>1 DEF EventInv
  <2> QED
    BY <1>5, <2>2, <2>3, <2>4, <2>5, <2>6 DEF Work
<1> QED
  BY <1>1, <1>3, <1>4, <1>5, EventSteps

\* A buffer that joins the list a second time is of a stream of which a command failed.
LEMMA ListedOnceKept ==
  ASSUME Inv, Next
  PROVE  ListedOnce'
<1>0. ListedOnce /\ failed \subseteq failed' /\ IoctlInv
  BY FailuresGrow DEF Inv
<1>1. CASE relinked' = relinked
  BY <1>0, <1>1 DEF ListedOnce
<1>2. ASSUME NEW s \in Streams, QueueAdd(s) PROVE ListedOnce'
  <2>1. us[s] = "add" /\ StreamOf[ub[s]] = s /\ (relinked' = relinked \/ (relinked' = relinked \cup {ub[s]} /\ ub[s] \in ToSet(pending)))
    BY <1>2, Typed DEF QueueAdd
  <2>2. ub[s] \in ToSet(pending) => s \in failed
    BY <1>0, <2>1 DEF IoctlInv
  <2> QED
    BY <1>0, <2>1, <2>2 DEF ListedOnce
<1>3. ASSUME NEW b \in Bufs, Qbuf(b) \/ QbufEarly(b) \/ Dqbuf(b) PROVE relinked' = relinked
  BY <1>3 DEF Qbuf, Enqueue, QbufEarly, Dqbuf, histVars
<1>4. ASSUME NEW q, StreamOn(q) \/ Stop(q) \/ StopIdle(q) \/ Reqbufs0(q) PROVE relinked' = relinked
  BY <1>4 DEF StreamOn, Stop, StopIdle, Reqbufs0, histVars
<1>5. ASSUME NEW s \in Streams, Ioctl(s) \/ Wait(s) \/ BackendError(s), ~QueueAdd(s) PROVE relinked' = relinked
  BY <1>5 DEF Ioctl, EnqueueNext, Enqueue, QueueSend, QueueSendFail, Start, StartFail, Wait, Off, OffFail, StopRelease,
              OtherCommandFails, Close, BackendError, histVars
<1>6. ASSUME NEW use, BackendDone(use) PROVE relinked' = relinked
  BY <1>6 DEF BackendDone, histVars
<1>7. ASSUME Work PROVE relinked' = relinked
  BY <1>7 DEF Work, HandleUnknown, HandleError, HandleRelease, HandleFound, HandleNotFound, HandleDel, HandleDone, histVars
<1> QED
  BY <1>1, <1>2, <1>3, <1>4, <1>5, <1>6, <1>7 DEF Next

\* What StopRelease and HandleRelease release is of a stream that failed.
LEMMA ReleasedFailed ==
  ASSUME Inv
  PROVE  /\ \A s \in Streams : StopRelease(s) =>
              \E qs : Release(qs) /\ s \in error \cup failed /\ \A b \in Releasable(qs) : b \in Bufs /\ StreamOf[b] = s
         /\ HandleRelease =>
              \E qs : Release(qs) /\ wev.stream \in error /\ \A b \in Releasable(qs) : b \in Bufs /\ StreamOf[b] = wev.stream
<1>0. pending \in Seq(Bufs)
  BY Typed
<1>1. ASSUME NEW s \in Streams, StopRelease(s)
      PROVE  \E qs : Release(qs) /\ s \in error \cup failed /\ \A b \in Releasable(qs) : b \in Bufs /\ StreamOf[b] = s
  <2> DEFINE qs == {uq[s]} \cup (IF uq[s] \in DataQueues THEN {MetaOf[uq[s]]} ELSE {})
  <2>1. us[s] = "release" /\ uq[s] \in Queues /\ OwnerOf[uq[s]] = s /\ Release(qs)
    BY <1>1, Typed DEF StopRelease
  <2>2. \A q \in qs : OwnerOf[q] = s
    BY <2>1, Sorts
  <2> HIDE DEF qs
  <2>3. \A b \in Releasable(qs) : b \in Bufs /\ QueueOf[b] \in qs
    BY <1>0 DEF Releasable, ToSet
  <2>4. s \in error \cup failed
    BY <2>1 DEF Inv, IoctlInv, Healthy
  <2> QED
    BY <2>1, <2>2, <2>3, <2>4, Sorts
<1>2. ASSUME HandleRelease
      PROVE  \E qs : Release(qs) /\ wev.stream \in error /\ \A b \in Releasable(qs) : b \in Bufs /\ StreamOf[b] = wev.stream
  <2> DEFINE qs == {q \in Queues : OwnerOf[q] = wev.stream}
  <2>1. wk = "release" /\ Release(qs)
    BY <1>2 DEF HandleRelease
  <2>2. wev.stream \in error
    BY <2>1 DEF Inv, EventInv
  <2>3. \A b \in Releasable(qs) : b \in Bufs /\ QueueOf[b] \in qs
    BY <1>0 DEF Releasable, ToSet
  <2> QED
    BY <2>1, <2>2, <2>3, Sorts
<1> QED
  BY <1>1, <1>2

\* The work item that gives a buffer back has the buffer of its event.
LEMMA DoneOwn ==
  ASSUME Inv, Defined, wk \in {"del", "done"}
  PROVE  wb \in Bufs /\ wb = wev.buf /\ Held(wb) /\ wev.stream = StreamOf[wb] /\ \A b \in Bufs : Held(b) => b = wb
BY Sorts DEF Inv, Defined, EventInv, TypeOK, WorkOK, Held

\* Every step keeps GivenBackOnce.
LEMMA GivenBackKept ==
  ASSUME Inv, Next
  PROVE  GivenBackOnce'
<1>0. TypeOK /\ GivenBackOnce /\ error \subseteq error' /\ failed \subseteq failed' /\ Defined
  BY FailuresGrow DEF Inv, Next
<1>F. ASSUME \A b \in twice' : b \in twice \/ StreamOf[b] \in error' \cup failed' PROVE GivenBackOnce'
  BY <1>0, <1>F DEF GivenBackOnce, Healthy
<1>1. CASE twice' = twice
  BY <1>1, <1>F
<1>2. ASSUME NEW s \in Streams, QueueSendFail(s) PROVE GivenBackOnce'
  <2>1. StreamOf[ub[s]] = s /\ s \in error' \cup failed' /\ BufferDone({ub[s]})
    BY <1>2, <1>0, Typed, FailTyped DEF QueueSendFail
  <2> QED
    BY <2>1, <1>0, <1>F, DoneEffect
<1>3. ASSUME NEW s \in Streams, StopRelease(s) PROVE GivenBackOnce'
  <2>1. PICK qs : Release(qs) /\ s \in error \cup failed /\ \A b \in Releasable(qs) : StreamOf[b] = s
    BY <1>3, ReleasedFailed
  <2> QED
    BY <2>1, <1>0, <1>F, DoneEffect DEF Release
<1>4. CASE HandleRelease
  <2>1. PICK qs : Release(qs) /\ wev.stream \in error /\ \A b \in Releasable(qs) : StreamOf[b] = wev.stream
    BY <1>4, ReleasedFailed
  <2> QED
    BY <2>1, <1>0, <1>F, DoneEffect DEF Release
<1>5. CASE HandleDone
  <2>1. wb \in Bufs /\ Held(wb) /\ BufferDone({wb})
    BY <1>0, <1>5, DoneOwn DEF HandleDone
  <2>2. Healthy(StreamOf[wb]) => st[wb] = "active"
    BY <1>0, <2>1 DEF Inv, HandsInv, Hands, Defined
  <2> QED
    BY <2>1, <2>2, <1>0, <1>F, DoneEffect DEF Healthy
<1>6. ASSUME NEW b \in Bufs, Qbuf(b) \/ QbufEarly(b) \/ Dqbuf(b) PROVE twice' = twice
  BY <1>6 DEF Qbuf, Enqueue, QbufEarly, Dqbuf, histVars
<1>7. ASSUME NEW q, StreamOn(q) \/ Stop(q) \/ StopIdle(q) \/ Reqbufs0(q) PROVE twice' = twice
  BY <1>7 DEF StreamOn, Stop, StopIdle, Reqbufs0, histVars
<1>8. ASSUME NEW s \in Streams, Ioctl(s) \/ Wait(s) \/ BackendError(s), ~QueueSendFail(s), ~StopRelease(s) PROVE twice' = twice
  BY <1>8 DEF Ioctl, EnqueueNext, Enqueue, QueueAdd, QueueSend, Start, StartFail, Wait, Off, OffFail,
              OtherCommandFails, Close, BackendError, histVars
<1>9. ASSUME NEW use, BackendDone(use) PROVE twice' = twice
  BY <1>9 DEF BackendDone, histVars
<1>10. ASSUME Work, ~HandleRelease, ~HandleDone PROVE twice' = twice
  BY <1>10 DEF Work, HandleUnknown, HandleError, HandleFound, HandleNotFound, HandleDel, histVars
<1> QED
  BY <1>1, <1>2, <1>3, <1>4, <1>5, <1>6, <1>7, <1>8, <1>9, <1>10 DEF Next

\* Every step keeps NothingDangles.
LEMMA DanglesKept ==
  ASSUME Inv, Next
  PROVE  NothingDangles'
<1>0. /\ TypeOK /\ error \subseteq error' /\ failed \subseteq failed' /\ wrong = {} /\ pending \in Seq(Bufs)
      /\ (\A b \in ToSet(pending) : ~Gone(b) /\ b \in Bufs) /\ (wb # None => ~Gone(wb))
      /\ wb \in Bufs \cup {None}
  BY Typed, FailuresGrow DEF Inv, Next, Defined, ToSet, TypeOK, WorkOK
<1> DEFINE Excused(b) == StreamOf[b] \in error' \cup failed' \/ QueueOf[b] \in MetaQueues \cap on'
<1>F. ASSUME \A b \in ToSet(pending') \cup ({wb'} \ {None}) : Gone(b)' => Excused(b) PROVE NothingDangles'
  BY <1>F DEF NothingDangles, Healthy
\* No buffer goes; the list gets none but by QueueAdd.
<1>G. ASSUME \A b \in Bufs : Gone(b)' => Gone(b), wb' # None => wb' = wb \/ wb' \in ToSet(pending), ToSet(pending') \subseteq ToSet(pending)
      PROVE  NothingDangles'
  BY <1>0, <1>F, <1>G
<1>S. ASSUME \A b \in Bufs : st'[b] = "freed" => st[b] = "freed", \A s \in Streams : us'[s] = "closed" => us[s] = "closed"
      PROVE  \A b \in Bufs : Gone(b)' => Gone(b)
  BY <1>S, Sorts DEF Gone
<1>P. ASSUME \A s \in Streams : ~QueueAdd(s) PROVE ToSet(pending') \subseteq ToSet(pending)
  BY <1>P, PendingSteps
<1>1. ASSUME NEW b \in Bufs, Qbuf(b) \/ QbufEarly(b) \/ Dqbuf(b) PROVE NothingDangles'
  <2>1. \A c \in Bufs : st'[c] = "freed" => st[c] = "freed"
    <3>1. CASE Qbuf(b)
      BY <3>1, Typed DEF Qbuf, Enqueue, Refuse, Accept
    <3>2. CASE QbufEarly(b) \/ Dqbuf(b)
      BY <3>2, Typed DEF QbufEarly, Dqbuf
    <3> QED
      BY <1>1, <3>1, <3>2
  <2>2. \A s \in Streams : us'[s] = "closed" => us[s] = "closed"
    BY <1>1, Typed DEF Qbuf, Enqueue, Refuse, Accept, Go, QbufEarly, Dqbuf, usVars
  <2>3. UNCHANGED <<wb, pending>>
    BY <1>1 DEF Qbuf, Enqueue, QbufEarly, Dqbuf, wkVars
  <2> QED
    BY <2>1, <2>2, <2>3, <1>S, <1>G
<1>2. ASSUME NEW use, BackendDone(use) PROVE NothingDangles'
  <2>1. UNCHANGED <<wb, pending, st, us>>
    BY <1>2 DEF BackendDone, wkVars, usVars
  <2> QED
    BY <2>1, <1>S, <1>G
<1>3. ASSUME NEW q \in Queues, StreamOn(q) \/ Stop(q) \/ StopIdle(q) PROVE NothingDangles'
  <2>1. \A c \in Bufs : st'[c] = "freed" => st[c] = "freed"
    BY <1>3 DEF StreamOn, Stop, StopIdle, Cancelled
  <2>2. \A s \in Streams : us'[s] = "closed" => us[s] = "closed"
    BY <1>3, Typed, Sorts DEF StreamOn, Stop, StopIdle, Go, usVars
  <2>3. UNCHANGED <<wb, pending>>
    BY <1>3 DEF StreamOn, Stop, StopIdle, wkVars
  <2> QED
    BY <2>1, <2>2, <2>3, <1>S, <1>G
\* What a healthy stream has listed or given to the work item is active, so its queue streams.
<1>A. ASSUME NEW b \in ToSet(pending) \cup ({wb} \ {None}), us[StreamOf[b]] = "idle" PROVE b \in Bufs /\ (Healthy(StreamOf[b]) => QueueOf[b] \in on)
  <2>0. b \in Bufs
    BY <1>0
  <2>1. b \in ToSet(pending) => (Healthy(StreamOf[b]) => st[b] = "active")
    BY <1>0, <2>0 DEF Inv, PendingExact, WithDriver
  <2>2. b = wb => (Healthy(StreamOf[b]) => st[b] = "active")
    <3>1. ASSUME b = wb PROVE Held(b)
      <4>1. wk \in {"del", "done"}
        BY <2>0, <3>1, <1>0, Sorts DEF TypeOK, WorkOK
      <4> QED
        BY <3>1, <4>1, DoneOwn DEF Next
    <3> QED
      BY <1>0, <2>0, <3>1 DEF Inv, HandsInv, Hands
  <2> QED
    BY <1>A, <2>0, <2>1, <2>2 DEF Inv, ActiveInv
<1>4. ASSUME NEW q \in Queues, Reqbufs0(q) PROVE NothingDangles'
  <2>1. /\ UNCHANGED <<wb, pending, us, on>> /\ us[OwnerOf[q]] = "idle" /\ q \notin on
        /\ \A b \in Bufs : st'[b] = "freed" => st[b] = "freed" \/ QueueOf[b] = q
    BY <1>4 DEF Reqbufs0, wkVars, usVars
  <2>2. ASSUME NEW b \in ToSet(pending) \cup ({wb} \ {None}), Gone(b)' PROVE StreamOf[b] \in error' \cup failed'
    <3>1. b \in Bufs /\ ~Gone(b)
      BY <1>0
    <3>2. QueueOf[b] = q /\ StreamOf[b] = OwnerOf[q]
      BY <2>1, <2>2, <3>1, Sorts DEF Gone
    <3> QED
      BY <1>0, <1>A, <2>1, <3>2 DEF Healthy
  <2> QED
    BY <2>1, <2>2, <1>F
<1>5. ASSUME NEW s \in Streams, Close(s) PROVE NothingDangles'
  <2>1. /\ UNCHANGED <<wb, pending, on>> /\ us[s] = "idle" /\ us' = [us EXCEPT ![s] = "closed"]
        /\ (\A q \in DataQueues : OwnerOf[q] = s => q \notin on) /\ (wk # "idle" => wev.stream # s)
        /\ \A b \in Bufs : st'[b] = "freed" => st[b] = "freed" \/ StreamOf[b] = s
    BY <1>5 DEF Close, wkVars, Go
  <2>2. ASSUME NEW b \in ToSet(pending) \cup ({wb} \ {None}), Gone(b)' PROVE Excused(b)
    <3>1. b \in Bufs /\ ~Gone(b) /\ StreamOf[b] \in Streams /\ StreamOf[b] = OwnerOf[QueueOf[b]] /\ QueueOf[b] \in Queues
      BY <1>0, Sorts
    <3>2. StreamOf[b] = s
      BY <2>1, <2>2, <3>1, Typed DEF Gone
    <3>3. Healthy(StreamOf[b]) => QueueOf[b] \in on
      BY <1>A, <2>1, <3>2
    <3>4. QueueOf[b] \in on => QueueOf[b] \in MetaQueues
      BY <2>1, <3>1, <3>2 DEF MetaQueues
    <3> QED
      BY <1>0, <2>1, <3>3, <3>4 DEF Healthy
  <2> HIDE DEF Excused
  <2> QED
    BY <2>1, <2>2, <1>F
<1>6. ASSUME NEW s \in Streams, QueueAdd(s) PROVE NothingDangles'
  <2>1. /\ us[s] = "add" /\ ub[s] \in Bufs /\ StreamOf[ub[s]] = s /\ UNCHANGED <<st, wb>> /\ us' = [us EXCEPT ![s] = "send"]
    BY <1>6, Typed DEF QueueAdd, Go, wkVars
  <2>2. \A b \in ToSet(pending') : b \in ToSet(pending) \/ b = ub[s]
    <3>1. pending' = pending \/ pending' = Append(pending, ub[s])
      BY <1>6 DEF QueueAdd
    <3> QED
      BY <1>0, <3>1 DEF ToSet
  <2>3. \A b \in Bufs : Gone(b)' => Gone(b)
    BY <2>1, <1>S, Typed
  <2>4. Gone(ub[s]) => s \in error \cup failed
    BY <1>0, <2>1 DEF Gone, Inv, HandsInv, Hands, Healthy
  <2>5. ASSUME NEW b \in ToSet(pending') \cup ({wb'} \ {None}), Gone(b)' PROVE Excused(b)
    BY <1>0, <2>1, <2>2, <2>3, <2>4, <2>5
  <2> HIDE DEF Excused
  <2> QED
    BY <2>5, <1>F
<1>7. ASSUME NEW s \in Streams, Ioctl(s) \/ Wait(s) \/ BackendError(s), ~QueueAdd(s), ~Close(s), ToSet(pending') \subseteq ToSet(pending)
      PROVE  NothingDangles'
  <2>1. \A c \in Bufs : st'[c] = "freed" => st[c] = "freed"
    <3>1. CASE EnqueueNext(s)
      BY <3>1, Typed DEF EnqueueNext, Enqueue, Refuse, Accept, BufsOf
    <3>2. CASE QueueSendFail(s) \/ StopRelease(s)
      BY <3>2, <1>0, DoneEffect DEF QueueSendFail, StopRelease, Release
    <3>3. CASE StartFail(s) \/ Wait(s)
      BY <3>3 DEF StartFail, Wait, Cancelled
    <3> QED
      BY <1>7, <3>1, <3>2, <3>3 DEF Ioctl, QueueSend, Start, Off, OffFail, OtherCommandFails, BackendError
  <2>2. \A r \in Streams : us'[r] = "closed" => us[r] = "closed"
    <3>1. us' = us \/ \E l : us' = [us EXCEPT ![s] = l] /\ l # "closed"
      <4>1. CASE EnqueueNext(s)
        BY <4>1 DEF EnqueueNext, Enqueue, Refuse, Accept, Go
      <4>2. CASE QueueSend(s) \/ QueueSendFail(s)
        BY <4>2 DEF QueueSend, QueueSendFail, NextBuffer, Go
      <4>3. CASE Start(s) \/ StartFail(s) \/ Wait(s)
        BY <4>3 DEF Start, StartFail, Wait, Return, Go
      <4>4. CASE Off(s) \/ OffFail(s) \/ StopRelease(s)
        BY <4>4 DEF Off, OffFail, StopRelease, Go
      <4> QED
        BY <1>7, <4>1, <4>2, <4>3, <4>4 DEF Ioctl, OtherCommandFails, BackendError, usVars
    <3> QED
      BY <3>1, Typed
  <2>3. wb' = wb
    BY <1>7 DEF Ioctl, EnqueueNext, Enqueue, QueueSend, QueueSendFail, Start, StartFail, Wait, Off, OffFail, StopRelease,
                OtherCommandFails, BackendError, wkVars
  <2> QED
    BY <1>7, <2>1, <2>2, <2>3, <1>S, <1>G
<1>8. ASSUME Work, ToSet(pending') \subseteq ToSet(pending) PROVE NothingDangles'
  <2>1. us' = us
    BY <1>8 DEF Work, HandleUnknown, HandleError, HandleRelease, HandleFound, HandleNotFound, HandleDel, HandleDone, usVars
  <2>2. \A c \in Bufs : st'[c] = "freed" => st[c] = "freed"
    <3>1. CASE HandleRelease \/ HandleDone
      BY <3>1, <1>0, DoneEffect DEF HandleRelease, HandleDone, Release
    <3> QED
      BY <1>8, <3>1 DEF Work, HandleUnknown, HandleError, HandleFound, HandleNotFound, HandleDel
  <2>3. wb' # None => wb' = wb \/ wb' \in ToSet(pending)
    <3>1. CASE HandleFound
      BY <3>1, <1>0, FirstFound DEF HandleFound
    <3> QED
      BY <1>8, <3>1 DEF Work, HandleUnknown, HandleError, HandleRelease, HandleNotFound, HandleDel, HandleDone, wkVars
  <2> QED
    BY <1>8, <2>1, <2>2, <2>3, <1>S, <1>G
<1>9. \/ \E s \in Streams : QueueAdd(s)
      \/ ToSet(pending') \subseteq ToSet(pending)
  BY <1>P
<1> QED
  BY <1>1, <1>2, <1>3, <1>4, <1>5, <1>6, <1>7, <1>8, <1>9, Sorts DEF Next, Ioctl
-----------------------------------------------------------------------------
(* Hands, list and order: steps that change nothing of them for the streams *)
(* that are healthy after the step.                                         *)

KeptBufs == {b \in Bufs : StreamOf[b] \notin error' \cup failed'}
\* Of such a buffer only the state changes, and not from or to active.
CalmBuffer(b) ==
  /\ st'[b] = "active" <=> st[b] = "active"
  /\ rid'[b] = rid[b]
  /\ eid'[b] = eid[b] \/ \A id \in Ids : <<b, id>> \notin bk'
  /\ ub'[StreamOf[b]] = b <=> ub[StreamOf[b]] = b
  /\ ub[StreamOf[b]] = b => (us'[StreamOf[b]] = "add" <=> us[StreamOf[b]] = "add")
  /\ us[StreamOf[b]] = "closed" => us'[StreamOf[b]] = "closed"
  /\ \A id \in Ids : <<b, id>> \in bk' => <<b, id>> \in bk
  /\ \A id \in Ids : <<b, id>> \in bk => us'[StreamOf[b]] = "closed" \/ <<b, id>> \in bk'
  /\ b \in ToSet(pending') <=> b \in ToSet(pending)
\* The work item goes on holding it, or goes on without.
CalmWork(b) ==
  /\ Held(b)' <=> Held(b)
  /\ Held(b) => wev' = wev
  /\ (wk' = "done" /\ wb' = b) <=> (wk = "done" /\ wb = b)
\* Its events stay, d places further on.
CalmEvents(b, d) ==
  /\ \A k \in DOMAIN events' : events'[k].buf = b => k + d \in DOMAIN events /\ events[k + d] = events'[k]
  /\ \A k \in DOMAIN events : events[k].buf = b => k - d \in DOMAIN events' /\ events'[k - d] = events[k]
Calm ==
  /\ \A b \in KeptBufs : CalmBuffer(b) /\ CalmWork(b)
  /\ \E d \in {0, 1} : \A b \in KeptBufs : CalmEvents(b, d)

HandsParts == HandsInv /\ ListedInv /\ OrderInv /\ PendingExact

\* A buffer is used by the back end under one of the ids.
LEMMA Used ==
  ASSUME NEW uses, uses \subseteq Bufs \X Ids
  PROVE  \A b : b \in {use[1] : use \in uses} <=> \E id \in Ids : <<b, id>> \in uses
<1>1. \A use \in uses : use = <<use[1], use[2]>> /\ use[2] \in Ids
  OBVIOUS
<1>2. \A b, id : <<b, id>>[1] = b
  OBVIOUS
<1> QED
  BY <1>1, <1>2

\* A buffer that stays healthy is healthy.
LEMMA KeptHealthy ==
  ASSUME Inv, Next
  PROVE  /\ \A b \in Bufs : b \in KeptBufs <=> Healthy(StreamOf[b])'
         /\ \A b \in KeptBufs : b \in Bufs /\ Healthy(StreamOf[b])
         /\ wrong = {} /\ Defined
BY FailuresGrow DEF KeptBufs, Healthy, Next, Defined

\* The parts of the invariant about a buffer of a healthy stream.
LEMMA HealthyFacts ==
  ASSUME Inv, Defined, NEW b \in Bufs, Healthy(StreamOf[b])
  PROVE  /\ Hands(b) /\ (b \in ToSet(pending) <=> WithDriver(b))
         /\ b \in ToSet(pending) => us[StreamOf[b]] # "closed" /\ (Late(b) \/ b \in Using \/ ub[StreamOf[b]] = b)
         /\ wb = b /\ wk \in {"del", "done"} => Held(b)
<1>1. wrong = {} /\ (b \in ToSet(pending) => ~Gone(b))
  BY DEF Defined
<1>2. Hands(b) /\ (b \in ToSet(pending) <=> WithDriver(b))
  BY <1>1 DEF Inv, HandsInv, PendingExact
<1>3. b \in ToSet(pending) => us[StreamOf[b]] # "closed" /\ (Late(b) \/ b \in Using \/ ub[StreamOf[b]] = b)
  BY <1>1 DEF Inv, ListedInv, Gone
<1> QED
  BY <1>2, <1>3, DoneOwn

\* The two facts that keep the list in order, over a step that leaves entries out of it.
LEMMA OrderFrame ==
  ASSUME Inv, Next, \A s \in Streams : QueueAdd(s) => ub[s] \in ToSet(pending),
         \A b \in KeptBufs : b \in ToSet(pending') => rid'[b] = rid[b],
         \A b, c \in KeptBufs : b \in ToSet(pending') /\ c \in ToSet(pending') /\ b # c /\ rid[b] = rid[c] /\ Before(b, c) => Before(b, c)'
  PROVE  OrderInv'
<1>1. /\ pending' \in Seq(Bufs)
      /\ \E e \in [DOMAIN pending' -> DOMAIN pending] :
           /\ \A n \in DOMAIN pending' : pending'[n] = pending[e[n]]
           /\ \A n, m \in DOMAIN pending' : n < m => e[n] < e[m]
  BY PendingSteps
<1>2. PICK e \in [DOMAIN pending' -> DOMAIN pending] :
           /\ \A n \in DOMAIN pending' : pending'[n] = pending[e[n]]
           /\ \A n, m \in DOMAIN pending' : n < m => e[n] < e[m]
  BY <1>1
<1> SUFFICES ASSUME NEW i \in DOMAIN pending', NEW j \in DOMAIN pending', i < j,
                    NEW b \in KeptBufs, NEW c \in KeptBufs, pending'[i] = b, pending'[j] = c,
                    rid'[b] = rid'[c]
             PROVE  Before(b, c)'
  <2>1. \A n \in DOMAIN pending' : pending'[n] \in Bufs
    BY <1>1
  <2> QED
    BY <2>1 DEF OrderInv, Healthy, KeptBufs
<1>3. pending[e[i]] = b /\ pending[e[j]] = c /\ e[i] \in DOMAIN pending /\ e[j] \in DOMAIN pending /\ e[i] < e[j]
  BY <1>2
<1>4. b \in ToSet(pending') /\ c \in ToSet(pending')
  BY DEF ToSet
<1>5. b # c
  <2>1. e[i] # e[j]
    BY <1>3, Typed
  <2> QED
    BY <1>3, <2>1 DEF Inv, DistinctInv
<1>7. rid[b] = rid[c] /\ Healthy(StreamOf[b]) /\ Healthy(StreamOf[c]) /\ wrong = {}
  BY <1>4, KeptHealthy
<1>8. Before(b, c)
  <2>1. \A n, m \in DOMAIN pending :
          n < m /\ rid[pending[n]] = rid[pending[m]] /\ Healthy(StreamOf[pending[n]]) /\ Healthy(StreamOf[pending[m]])
            => Before(pending[n], pending[m])
    BY <1>7 DEF Inv, OrderInv
  <2> QED
    BY <1>3, <1>7, <2>1
<1> QED
  BY <1>4, <1>5, <1>7, <1>8

\* A buffer is in the hands that the list says.
Good(b) ==
  /\ Hands(b) /\ (b \in ToSet(pending) <=> WithDriver(b))
  /\ b \in ToSet(pending) /\ us[StreamOf[b]] # "closed" => Late(b) \/ b \in Using \/ ub[StreamOf[b]] = b

\* A calm step leaves a buffer in the hands it is in.
LEMMA CalmOne ==
  ASSUME Inv, Next, NEW b \in KeptBufs, NEW d \in {0, 1}, CalmBuffer(b), CalmWork(b), CalmEvents(b, d)
  PROVE  Good(b)'
<1>0. /\ bk' \subseteq Bufs \X Ids /\ bk \subseteq Bufs \X Ids /\ events' \in Seq(Event)
      /\ b \in Bufs /\ Healthy(StreamOf[b])
  BY TypeKept, Typed, KeptHealthy DEF TypeOK, BuffersOK
<1>F. /\ Hands(b) /\ (b \in ToSet(pending) <=> WithDriver(b))
      /\ b \in ToSet(pending) => Late(b) \/ b \in Using \/ ub[StreamOf[b]] = b
  BY <1>0, KeptHealthy, HealthyFacts
<1>L. Late(b)' <=> Late(b)
  <2>1. Coming(b)' <=> Coming(b)
    BY DEF CalmEvents, Coming
  <2> QED
    BY <2>1 DEF CalmWork, Late
<1>U. /\ b \in Using' => b \in Using
      /\ b \in Using => b \in Using' \/ us'[StreamOf[b]] = "closed"
  <2>1. (b \in Using <=> \E id \in Ids : <<b, id>> \in bk) /\ (b \in Using' <=> \E id \in Ids : <<b, id>> \in bk')
    BY <1>0, Used DEF Using
  <2> QED
    BY <2>1 DEF CalmBuffer
<1>1. Hands(b)'
  <2>1. ub'[StreamOf[b]] = b => st'[b] = "active" /\ b \notin Using' /\ ~Late(b)'
    BY <1>F, <1>L, <1>U DEF CalmBuffer, Hands
  <2>2. \A id \in Ids : <<b, id>> \in bk' => st'[b] = "active" /\ id = rid'[b] /\ eid'[b] = rid'[b] /\ ~Late(b)'
    BY <1>F, <1>L DEF CalmBuffer, Hands
  <2>3. ASSUME NEW k \in DOMAIN events', events'[k].buf = b
        PROVE  /\ st'[b] = "active" /\ events'[k].id = rid'[b] /\ ~Held(b)'
               /\ \A l \in DOMAIN events' : events'[l].buf = b => l = k
    <3>1. k + d \in DOMAIN events /\ events[k + d] = events'[k]
      BY <2>3 DEF CalmEvents
    <3>2. st[b] = "active" /\ events[k + d].id = rid[b] /\ ~Held(b) /\ \A l \in DOMAIN events : events[l].buf = b => l = k + d
      BY <1>F, <2>3, <3>1 DEF Hands
    <3>3. \A l \in DOMAIN events' : events'[l].buf = b => l + d = k + d
      BY <3>2 DEF CalmEvents
    <3>4. d \in Nat /\ \A l \in DOMAIN events' : l \in Nat
      BY <1>0
    <3>5. \A l \in DOMAIN events' : events'[l].buf = b => l = k
      BY <3>3, <3>4
    <3> QED
      BY <3>1, <3>2, <3>5 DEF CalmBuffer, CalmWork
  <2>4. Held(b)' => st'[b] = "active" /\ wev'.id = rid'[b]
    BY <1>F DEF CalmBuffer, CalmWork, Hands
  <2> QED
    BY <2>1, <2>2, <2>3, <2>4 DEF Hands
<1>2. WithDriver(b)' <=> WithDriver(b)
  BY DEF CalmBuffer, CalmWork, WithDriver
<1> QED
  BY <1>1, <1>2, <1>F, <1>L, <1>U DEF CalmBuffer, Good

\* It leaves two buffers in the order of their events.
LEMMA CalmOrder ==
  ASSUME events \in Seq(Event), events' \in Seq(Event), NEW b, NEW c, NEW d \in {0, 1},
         CalmWork(b), CalmWork(c), CalmEvents(b, d), CalmEvents(c, d), Before(b, c)
  PROVE  Before(b, c)'
<1>1. (Held(b)' <=> Held(b)) /\ (Held(c)' <=> Held(c))
  BY DEF CalmWork
<1>2. ASSUME NEW k \in DOMAIN events, events[k].buf = b, \A l \in DOMAIN events : events[l].buf = c => k < l
      PROVE  \E n \in DOMAIN events' : events'[n].buf = b /\ \A l \in DOMAIN events' : events'[l].buf = c => n < l
  <2>1. k - d \in DOMAIN events' /\ events'[k - d].buf = b
    BY <1>2 DEF CalmEvents
  <2>2. \A l \in DOMAIN events' : events'[l].buf = c => k < l + d
    BY <1>2 DEF CalmEvents
  <2>3. k \in Nat /\ \A l \in DOMAIN events' : l \in Nat
    OBVIOUS
  <2>4. \A l \in DOMAIN events' : events'[l].buf = c => k - d < l
    BY <2>2, <2>3
  <2> QED
    BY <2>1, <2>4
<1> QED
  BY <1>1, <1>2 DEF Before

\* Hands, list and order from what is so of each buffer.
LEMMA Assembled ==
  ASSUME Inv, Next, wrong' = {} => \A b \in KeptBufs : Good(b)', OrderInv'
  PROVE  HandsParts'
<1>1. pending' \in Seq(Bufs) /\ \A b \in Bufs : Healthy(StreamOf[b])' => b \in KeptBufs
  BY TypeKept, KeptHealthy DEF TypeOK, BuffersOK
<1>2. \A b \in ToSet(pending') : b \in Bufs
  BY <1>1 DEF ToSet
<1>3. HandsInv'
  BY <1>1 DEF HandsInv, Good
<1>4. ListedInv'
  BY <1>1, <1>2 DEF ListedInv, Good
<1>5. PendingExact'
  BY <1>1 DEF PendingExact, Good
<1> QED
  BY <1>3, <1>4, <1>5 DEF HandsParts

\* A calm step keeps hands, list and order.
LEMMA CalmKeeps ==
  ASSUME Inv, Next, \A s \in Streams : QueueAdd(s) => ub[s] \in ToSet(pending), Calm
  PROVE  HandsParts'
<1>1. PICK d \in {0, 1} : \A b \in KeptBufs : CalmBuffer(b) /\ CalmWork(b) /\ CalmEvents(b, d)
  BY DEF Calm
<1>2. \A b \in KeptBufs : Good(b)'
  BY <1>1, CalmOne
<1>3. events \in Seq(Event) /\ events' \in Seq(Event)
  BY TypeKept, Typed DEF TypeOK, BuffersOK
<1>4. OrderInv'
  <2>1. \A b \in KeptBufs : rid'[b] = rid[b]
    BY <1>1 DEF CalmBuffer
  <2>2. \A b, c \in KeptBufs : Before(b, c) => Before(b, c)'
    BY <1>1, <1>3, CalmOrder
  <2> QED
    BY <2>1, <2>2, OrderFrame
<1> QED
  BY <1>2, <1>4, Assembled

\* When nothing of a buffer, of its stream's ioctl and of the list changes, the step is calm for it.
LEMMA SameBuffer ==
  ASSUME NEW b, (st'[b] = "active" <=> st[b] = "active"), rid'[b] = rid[b], eid'[b] = eid[b],
         ub'[StreamOf[b]] = ub[StreamOf[b]], us'[StreamOf[b]] = us[StreamOf[b]],
         \A id \in Ids : <<b, id>> \in bk' <=> <<b, id>> \in bk, b \in ToSet(pending') <=> b \in ToSet(pending)
  PROVE  CalmBuffer(b)
BY DEF CalmBuffer

\* So it is while its stream has no buffer in its ioctl, and is not closed.
LEMMA IdleBuffer ==
  ASSUME NEW b \in Bufs, (st'[b] = "active" <=> st[b] = "active"), rid'[b] = rid[b],
         eid'[b] = eid[b] \/ \A id \in Ids : <<b, id>> \notin bk,
         ub[StreamOf[b]] = None, ub'[StreamOf[b]] = None, us[StreamOf[b]] # "closed",
         bk' = bk, pending' = pending
  PROVE  CalmBuffer(b)
BY Sorts DEF CalmBuffer

\* The work item stays.
LEMMA SameWork ==
  ASSUME UNCHANGED wkVars
  PROVE  \A b : CalmWork(b)
BY DEF CalmWork, Held, wkVars

\* The events stay.
LEMMA SameEvents ==
  ASSUME events' = events, events \in Seq(Event)
  PROVE  \A b : CalmEvents(b, 0)
BY DEF CalmEvents

\* A step of a stream that fails, or that has failed, is calm for the others.
LEMMA FailedStep ==
  ASSUME Inv, NEW s \in Streams, s \in error' \cup failed', UNCHANGED <<rid, events, wkVars>>,
         \A b \in Bufs : StreamOf[b] # s =>
           /\ st'[b] = st[b] /\ eid'[b] = eid[b]
           /\ \A id \in Ids : <<b, id>> \in bk' <=> <<b, id>> \in bk
           /\ b \in ToSet(pending') <=> b \in ToSet(pending),
         \A r \in Streams : r # s => us'[r] = us[r] /\ ub'[r] = ub[r]
  PROVE  Calm
<1>1. \A b \in KeptBufs : b \in Bufs /\ StreamOf[b] # s /\ StreamOf[b] \in Streams
  BY Sorts DEF KeptBufs
<1>2. \A b \in KeptBufs : CalmBuffer(b)
  BY <1>1, SameBuffer
<1> QED
  BY <1>2, SameWork, SameEvents, Typed DEF Calm

\* The steps of the ioctls that are calm.
LEMMA CalmIoctls ==
  ASSUME Inv, Next, NEW s \in Streams,
         \/ (QueueAdd(s) /\ ub[s] \in ToSet(pending)) \/ QueueSendFail(s)
         \/ Start(s) \/ StartFail(s) \/ Wait(s)
         \/ Off(s) \/ OffFail(s) \/ StopRelease(s) \/ OtherCommandFails(s) \/ Close(s) \/ BackendError(s)
  PROVE  Calm
<1>0. TypeOK /\ pending \in Seq(Bufs) /\ events \in Seq(Event) /\ wrong = {} /\ Defined
  BY Typed, KeptHealthy
<1>K. \A b \in KeptBufs : b \in Bufs /\ Healthy(StreamOf[b]) /\ StreamOf[b] \notin error' \cup failed' /\ StreamOf[b] \in Streams
  BY KeptHealthy, Sorts DEF KeptBufs
<1>C. ASSUME \A b \in KeptBufs : CalmBuffer(b), UNCHANGED <<events, wkVars>> PROVE Calm
  BY <1>0, <1>C, SameWork, SameEvents DEF Calm
<1>1. CASE QueueAdd(s) /\ ub[s] \in ToSet(pending)
  <2>1. s \in failed'
    <3>1. us[s] = "add" /\ failed' = failed
      BY <1>1 DEF QueueAdd
    <3> QED
      BY <1>1, <3>1 DEF Inv, IoctlInv
  <2>2. UNCHANGED <<st, rid, eid, bk, events, wkVars, pending, ub>> /\ \A r \in Streams : r # s => us'[r] = us[r]
    BY <1>1, Typed DEF QueueAdd, Go
  <2> QED
    BY <2>1, <2>2, FailedStep
<1>2. CASE QueueSendFail(s)
  <2>1. /\ ub[s] \in Bufs /\ StreamOf[ub[s]] = s /\ s \in error' \cup failed' /\ BufferDone({ub[s]})
        /\ UNCHANGED <<rid, pending, bk, events, wkVars>>
    BY <1>0, <1>2, Typed, FailTyped DEF QueueSendFail
  <2>2. \A r \in Streams : r # s => us'[r] = us[r] /\ ub'[r] = ub[r]
    BY <1>2, Typed DEF QueueSendFail, NextBuffer, Go
  <2>3. \A b \in Bufs : StreamOf[b] # s => st'[b] = st[b] /\ eid'[b] = eid[b]
    <3>1. \A b \in Bufs : StreamOf[b] # s => st'[b] = st[b]
      BY <1>0, <2>1, DoneEffect
    <3>2. \A b \in Bufs : StreamOf[b] # s => eid'[b] = eid[b]
      BY <1>2, <2>1, Typed DEF QueueSendFail
    <3> QED
      BY <3>1, <3>2
  <2> QED
    BY <2>1, <2>2, <2>3, FailedStep
<1>3. CASE Start(s)
  <2>1. us[s] = "enqueue" /\ ub[s] = None /\ UNCHANGED <<st, rid, eid, bk, events, wkVars, pending, ub>> /\ \A r \in Streams : r # s => us'[r] = us[r]
    BY <1>3, Typed DEF Start, EnqueuedAll, Return, Go
  <2>2. ASSUME NEW b \in KeptBufs PROVE CalmBuffer(b)
    <3>1. CASE StreamOf[b] = s
      BY <1>K, <2>1, <3>1, IdleBuffer
    <3>2. CASE StreamOf[b] # s
      BY <1>K, <2>1, <3>2, SameBuffer
    <3> QED
      BY <3>1, <3>2
  <2> QED
    BY <2>1, <2>2, <1>C
<1>4. CASE StartFail(s)
  <2>1. uq[s] \in Queues /\ OwnerOf[uq[s]] = s /\ UNCHANGED <<rid, eid, pending, bk, events, wkVars, ub>>
    BY <1>4, Typed DEF StartFail, EnqueuedAll, Return
  <2>2. s \in error' \cup failed'
    BY <1>0, <1>4, FailTyped DEF StartFail
  <2>3. \A b \in Bufs : StreamOf[b] # s => st'[b] = st[b]
    BY <1>4, <2>1, Sorts DEF StartFail
  <2>4. \A r \in Streams : r # s => us'[r] = us[r]
    BY <1>4, Typed DEF StartFail, Return, Go
  <2> QED
    BY <2>1, <2>2, <2>3, <2>4, FailedStep
<1>5. CASE Wait(s)
  <2>1. us[s] = "wait" /\ ub[s] = None /\ UNCHANGED <<rid, eid, bk, events, wkVars, pending, ub>> /\ \A r \in Streams : r # s => us'[r] = us[r]
    BY <1>5, Typed DEF Wait, Return, Go
  <2>2. \A b \in Bufs : st'[b] = "active" <=> st[b] = "active"
    BY <1>5 DEF Wait, Cancelled, BufsOf
  <2>3. ASSUME NEW b \in KeptBufs PROVE CalmBuffer(b)
    <3>1. CASE StreamOf[b] = s
      BY <1>K, <2>1, <2>2, <3>1, IdleBuffer
    <3>2. CASE StreamOf[b] # s
      BY <1>K, <2>1, <2>2, <3>2, SameBuffer
    <3> QED
      BY <3>1, <3>2
  <2> QED
    BY <2>1, <2>3, <1>C
<1>6. CASE Off(s)
  <2>1. /\ us[s] = "off" /\ ub[s] = None /\ UNCHANGED <<st, rid, bk, events, wkVars, pending, ub>> /\ \A r \in Streams : r # s => us'[r] = us[r]
        /\ uq[s] \in DataQueues /\ OwnerOf[uq[s]] = s /\ eid' = Unexported(uq[s])
    BY <1>6, Typed DEF Off, Go
  <2>2. \A b \in Bufs : b \in Using => QueueOf[b] \notin {uq[s], MetaOf[uq[s]]}
    BY <1>6 DEF Off, BufsOf
  <2>3. \A b \in Bufs : eid'[b] = eid[b] \/ \A id \in Ids : <<b, id>> \notin bk
    <3>1. \A b : b \in Using <=> \E id \in Ids : <<b, id>> \in bk
      BY Typed, Used DEF Using
    <3> QED
      BY <2>1, <2>2, <3>1 DEF Unexported
  <2>4. \A b \in Bufs : StreamOf[b] # s => eid'[b] = eid[b]
    BY <2>1, UnexportedEffect
  <2>5. ASSUME NEW b \in KeptBufs PROVE CalmBuffer(b)
    <3>1. CASE StreamOf[b] = s
      BY <1>K, <2>1, <2>3, <3>1, IdleBuffer
    <3>2. CASE StreamOf[b] # s
      BY <1>K, <2>1, <2>4, <3>2, SameBuffer
    <3> QED
      BY <3>1, <3>2
  <2> QED
    BY <2>1, <2>5, <1>C
<1>7. CASE OffFail(s)
  <2>1. /\ s \in error' \cup failed' /\ UNCHANGED <<st, rid, bk, events, wkVars, pending, ub>> /\ \A r \in Streams : r # s => us'[r] = us[r]
        /\ uq[s] \in DataQueues /\ OwnerOf[uq[s]] = s /\ eid' = Unexported(uq[s])
    BY <1>0, <1>7, Typed, FailTyped DEF OffFail, Go
  <2>2. \A b \in Bufs : StreamOf[b] # s => eid'[b] = eid[b]
    BY <2>1, UnexportedEffect
  <2> QED
    BY <2>1, <2>2, FailedStep
<1>8. CASE StopRelease(s)
  <2>1. PICK qs : Release(qs) /\ s \in error \cup failed /\ \A b \in Releasable(qs) : b \in Bufs /\ StreamOf[b] = s
    BY <1>8, ReleasedFailed
  <2>2. /\ s \in error' \cup failed' /\ UNCHANGED <<rid, eid, bk, events, wkVars, ub>> /\ \A r \in Streams : r # s => us'[r] = us[r]
    BY <1>8, <2>1, Typed DEF StopRelease, Go
  <2>3. \A b \in Bufs : StreamOf[b] # s => st'[b] = st[b] /\ (b \in ToSet(pending') <=> b \in ToSet(pending))
    <3>1. BufferDone(Releasable(qs)) /\ ToSet(pending') = ToSet(pending) \ Releasable(qs)
      BY <1>0, <2>1, ReleaseTyped DEF Release
    <3> QED
      BY <1>0, <2>1, <3>1, DoneEffect
  <2> QED
    BY <2>2, <2>3, FailedStep
<1>9. CASE OtherCommandFails(s)
  <2>1. UNCHANGED <<st, rid, eid, bk, events, wkVars, pending, us, ub>>
    BY <1>9 DEF OtherCommandFails, usVars
  <2> QED
    BY <1>K, <2>1, <1>C, SameBuffer
<1>10. CASE Close(s)
  <2>1. /\ us[s] = "idle" /\ ub[s] = None /\ us' = [us EXCEPT ![s] = "closed"] /\ UNCHANGED <<rid, pending, ub, events, wkVars>>
        /\ st' = [b \in Bufs |-> IF QueueOf[b] \in DataQueues /\ StreamOf[b] = s THEN "freed" ELSE st[b]]
        /\ eid' = [b \in Bufs |-> IF StreamOf[b] = s THEN None ELSE eid[b]]
        /\ \A q \in DataQueues : OwnerOf[q] = s => q \notin on
        /\ bk' = {use \in bk : StreamOf[use[1]] # s} \/ (bk' = bk /\ s \in failed')
    BY <1>10, Typed DEF Close, Go
  <2>2. /\ us'[s] = "closed" /\ \A r \in Streams : r # s => us'[r] = us[r]
    BY <2>1, Typed
  <2>3. CASE s \in failed' /\ bk' = bk
    BY <2>1, <2>2, <2>3, FailedStep
  <2>4. CASE bk' = {use \in bk : StreamOf[use[1]] # s}
    <3>1. \A b, id : <<b, id>> \in bk' <=> <<b, id>> \in bk /\ StreamOf[b] # s
      BY <2>4
    <3>2. ASSUME NEW b \in KeptBufs PROVE CalmBuffer(b)
      <4>1. CASE StreamOf[b] = s
        <5>1. QueueOf[b] \in DataQueues => st[b] # "active"
          BY <1>K, <2>1, <4>1, Sorts DEF Inv, ActiveInv
        <5>2. st'[b] = "active" <=> st[b] = "active"
          BY <1>K, <2>1, <5>1
        <5> QED
          BY <1>K, <2>1, <2>2, <3>1, <4>1, <5>2, Sorts DEF CalmBuffer
      <4>2. CASE StreamOf[b] # s
        BY <1>K, <2>1, <2>2, <3>1, <4>2, SameBuffer
      <4> QED
        BY <4>1, <4>2
    <3> QED
      BY <2>1, <3>2, <1>C
  <2> QED
    BY <2>1, <2>3, <2>4
<1>11. CASE BackendError(s)
  <2> DEFINE e == [stream |-> s, buf |-> None, id |-> None]
  <2>1. e \in Event /\ e.buf = None /\ events' = Append(events, e)
    BY <1>11, EventForms DEF BackendError
  <2>2. UNCHANGED <<st, rid, eid, bk, wkVars, pending, us, ub>>
    BY <1>11 DEF BackendError, usVars
  <2> HIDE DEF e
  <2>3. \A b \in KeptBufs : CalmEvents(b, 0)
    <3>1. /\ \A n \in DOMAIN events : n \in DOMAIN events' /\ events'[n] = events[n] /\ n \in Nat
          /\ \A n \in DOMAIN events' : n \in Nat /\ (n \in DOMAIN events \/ events'[n] = e)
      BY <1>0, <2>1, Appended
    <3>2. \A n \in Nat : n + 0 = n /\ n - 0 = n
      OBVIOUS
    <3> QED
      BY <1>K, <2>1, <3>1, <3>2, Sorts DEF CalmEvents
  <2>4. \A b \in KeptBufs : CalmBuffer(b) /\ CalmWork(b)
    BY <1>K, <2>2, SameBuffer, SameWork
  <2> QED
    BY <2>3, <2>4 DEF Calm
<1> QED
  BY <1>1, <1>2, <1>3, <1>4, <1>5, <1>6, <1>7, <1>8, <1>9, <1>10, <1>11

\* So are those on a buffer or a queue, but when a buffer is accepted.
LEMMA CalmQueues ==
  ASSUME Inv, Next,
         \/ \E s \in Streams, b \in Bufs : Refuse(s, b) /\ Enqueue(s, b) /\ st[b] # "active"
         \/ \E b \in Bufs : QbufEarly(b) \/ Dqbuf(b)
         \/ \E q \in Queues : StreamOn(q) \/ Stop(q) \/ StopIdle(q) \/ Reqbufs0(q)
  PROVE  Calm
<1>0. events \in Seq(Event)
  BY Typed
<1>K. \A b \in KeptBufs : b \in Bufs /\ StreamOf[b] \in Streams
  BY Sorts DEF KeptBufs
<1>C. ASSUME \A b \in KeptBufs : CalmBuffer(b), UNCHANGED <<events, wkVars>> PROVE Calm
  BY <1>0, <1>C, SameWork, SameEvents DEF Calm
<1>A. ASSUME \A b \in Bufs : st'[b] = "active" <=> st[b] = "active", UNCHANGED <<rid, eid, bk, pending, us, ub, events, wkVars>> PROVE Calm
  <2>1. \A b \in KeptBufs : CalmBuffer(b)
    BY <1>K, <1>A, SameBuffer
  <2> QED
    BY <1>A, <2>1, <1>C
<1>1. ASSUME NEW s \in Streams, NEW b \in Bufs, Refuse(s, b), Enqueue(s, b), st[b] # "active" PROVE Calm
  <2>1. UNCHANGED <<rid, eid, bk, pending, us, ub, events, wkVars>> /\ st' = [st EXCEPT ![b] = "done"]
    BY <1>1 DEF Refuse, Enqueue
  <2>2. \A c \in Bufs : st'[c] = "active" <=> st[c] = "active"
    BY <1>1, <2>1, Typed
  <2> QED
    BY <2>1, <2>2, <1>A
<1>2. ASSUME NEW b \in Bufs, QbufEarly(b) \/ Dqbuf(b) PROVE Calm
  <2>1. /\ UNCHANGED <<rid, eid, bk, pending, us, ub, events, wkVars>> /\ st[b] # "active"
        /\ st' = [st EXCEPT ![b] = "queued"] \/ st' = [st EXCEPT ![b] = "dequeued"]
    BY <1>2 DEF QbufEarly, Dqbuf, usVars
  <2>2. \A c \in Bufs : st'[c] = "active" <=> st[c] = "active"
    BY <2>1, Typed
  <2> QED
    BY <2>1, <2>2, <1>A
<1>3. ASSUME NEW q \in Queues, StopIdle(q) \/ Reqbufs0(q) PROVE Calm
  <2>1. us[OwnerOf[q]] = "idle" /\ q \notin on /\ UNCHANGED <<rid, eid, bk, pending, us, ub, events, wkVars>>
    BY <1>3 DEF StopIdle, Reqbufs0, usVars
  <2>2. \A b \in Bufs : QueueOf[b] = q => st[b] # "active"
    BY <2>1, Sorts DEF Inv, ActiveInv
  <2>3. \A b \in Bufs : st'[b] = "active" <=> st[b] = "active"
    BY <1>3, <2>2 DEF StopIdle, Reqbufs0, Cancelled
  <2> QED
    BY <2>1, <2>3, <1>A
<1>4. ASSUME NEW q \in Queues, StreamOn(q) \/ Stop(q) PROVE Calm
  <2>1. /\ us[OwnerOf[q]] = "idle" /\ UNCHANGED <<st, rid, eid, bk, pending, ub, events, wkVars>> /\ OwnerOf[q] \in Streams
        /\ \E l : us' = [us EXCEPT ![OwnerOf[q]] = l]
    BY <1>4, Sorts DEF StreamOn, Stop, Go
  <2>2. ub[OwnerOf[q]] = None /\ \A r \in Streams : r # OwnerOf[q] => us'[r] = us[r]
    BY <2>1, Typed
  <2>3. ASSUME NEW b \in KeptBufs PROVE CalmBuffer(b)
    <3>1. CASE StreamOf[b] = OwnerOf[q]
      BY <1>K, <2>1, <2>2, <3>1, IdleBuffer
    <3>2. CASE StreamOf[b] # OwnerOf[q]
      BY <1>K, <2>1, <2>2, <3>2, SameBuffer
    <3> QED
      BY <3>1, <3>2
  <2> QED
    BY <2>1, <2>3, <1>C
<1> QED
  BY <1>1, <1>2, <1>3, <1>4

\* The event that is taken: a healthy stream's buffer is on the list, with the event's id.
LEMMA TakenOwn ==
  ASSUME Inv, Defined, GetEvent, NEW b \in Bufs, Healthy(StreamOf[b]), Head(events).buf = b
  PROVE  /\ b \in ToSet(pending) /\ rid[b] = Head(events).id /\ us[StreamOf[b]] # "closed" /\ Head(events).stream = StreamOf[b]
         /\ \A l \in DOMAIN events : events[l].buf = b => l = 1
         /\ ub[StreamOf[b]] # b /\ (\A id \in Ids : <<b, id>> \notin bk) /\ st[b] = "active"
<1>1. wk = "idle" /\ 1 \in DOMAIN events /\ events[1].buf = b /\ events[1].id = Head(events).id /\ Head(events).stream = StreamOf[b]
  BY EventTaken, Sorts
<1>2. /\ Hands(b) /\ (b \in ToSet(pending) <=> WithDriver(b))
      /\ b \in ToSet(pending) => us[StreamOf[b]] # "closed"
  BY HealthyFacts
<1>3. Late(b)
  BY <1>1 DEF Late, Coming
<1>4. /\ st[b] = "active" /\ rid[b] = Head(events).id /\ ub[StreamOf[b]] # b
      /\ \A l \in DOMAIN events : events[l].buf = b => l = 1
      /\ \A id \in Ids : <<b, id>> \notin bk
  BY <1>1, <1>2, <1>3 DEF Hands
<1>5. b \in ToSet(pending)
  BY <1>1, <1>2, <1>4 DEF WithDriver
<1> QED
  BY <1>1, <1>2, <1>4, <1>5

\* The steps of the work item that are calm.
LEMMA CalmWorkItem ==
  ASSUME Inv, Next, HandleUnknown \/ HandleError \/ HandleRelease \/ HandleNotFound
  PROVE  Calm
<1>0. TypeOK /\ pending \in Seq(Bufs) /\ events \in Seq(Event) /\ Defined
  BY Typed, KeptHealthy
<1>K. \A b \in KeptBufs : b \in Bufs /\ Healthy(StreamOf[b]) /\ StreamOf[b] \notin error' \cup failed' /\ StreamOf[b] \in Streams
  BY KeptHealthy, Sorts DEF KeptBufs
<1>1. CASE HandleRelease
  <2>1. PICK qs : Release(qs) /\ wev.stream \in error /\ \A b \in Releasable(qs) : b \in Bufs /\ StreamOf[b] = wev.stream
    BY <1>1, ReleasedFailed
  <2>2. UNCHANGED <<rid, eid, us, ub, bk, events, error>> /\ wk = "release" /\ wk' = "idle"
    BY <1>1 DEF HandleRelease, usVars
  <2>3. BufferDone(Releasable(qs)) /\ ToSet(pending') = ToSet(pending) \ Releasable(qs)
    BY <1>0, <2>1, ReleaseTyped DEF Release
  <2>4. \A b \in Bufs : StreamOf[b] # wev.stream => st'[b] = st[b] /\ (b \in ToSet(pending') <=> b \in ToSet(pending))
    BY <1>0, <2>1, <2>3, DoneEffect
  <2>5. ASSUME NEW b \in KeptBufs PROVE CalmBuffer(b)
    <3>1. StreamOf[b] # wev.stream
      BY <1>K, <2>1, <2>2
    <3> QED
      BY <1>K, <2>2, <2>4, <3>1, SameBuffer
  <2>6. \A b \in KeptBufs : CalmWork(b)
    BY <2>2 DEF CalmWork, Held
  <2> QED
    BY <1>0, <2>2, <2>5, <2>6, SameEvents DEF Calm
<1>2. CASE HandleUnknown \/ HandleNotFound \/ HandleError
  <2>1. GetEvent /\ UNCHANGED <<st, rid, eid, us, ub, bk, pending>> /\ wk = "idle" /\ wk' \in {"idle", "release"}
    BY <1>2 DEF HandleUnknown, HandleNotFound, HandleError, GetEvent, usVars, wkVars
  <2>2. ASSUME NEW b \in KeptBufs PROVE Head(events).buf # b
    <3> SUFFICES ASSUME Head(events).buf = b PROVE FALSE
      OBVIOUS
    <3>1. b \in ToSet(pending) /\ rid[b] = Head(events).id /\ us[StreamOf[b]] # "closed" /\ Head(events).stream = StreamOf[b]
      BY <1>0, <1>K, <2>1, TakenOwn
    <3>2. With(Head(events).id) # {}
      BY <3>1, <1>0 DEF With, ToSet
    <3> QED
      BY <1>2, <1>K, <3>1, <3>2, Sorts DEF HandleUnknown, HandleNotFound, HandleError
  <2>3. /\ events[1] = Head(events)
        /\ \A n \in DOMAIN events' : n + 1 \in DOMAIN events /\ events'[n] = events[n + 1]
        /\ \A n \in DOMAIN events : n = 1 \/ (n - 1 \in DOMAIN events' /\ events'[n - 1] = events[n])
    BY <2>1, EventTaken
  <2>4. \A b \in KeptBufs : CalmEvents(b, 1)
    BY <2>2, <2>3 DEF CalmEvents
  <2>5. \A b \in KeptBufs : CalmBuffer(b)
    BY <2>1, SameBuffer
  <2>6. \A b \in KeptBufs : CalmWork(b)
    BY <2>1 DEF CalmWork, Held
  <2> QED
    BY <2>4, <2>5, <2>6 DEF Calm
<1> QED
  BY <1>1, <1>2
-----------------------------------------------------------------------------
(* Hands, list and order: steps that move a buffer from hand to hand. *)

\* What the steps below know of the list, the events and the buffers that stay healthy.
LEMMA MoveFacts ==
  ASSUME Inv, Next
  PROVE  /\ Defined /\ wrong = {} /\ TypeOK /\ TypeOK'
         /\ pending \in Seq(Bufs) /\ pending' \in Seq(Bufs) /\ events \in Seq(Event) /\ events' \in Seq(Event)
         /\ bk \subseteq Bufs \X Ids /\ bk' \subseteq Bufs \X Ids
         /\ \A b \in KeptBufs : /\ b \in Bufs /\ b # None /\ Healthy(StreamOf[b]) /\ StreamOf[b] \in Streams
                                /\ Hands(b) /\ (b \in ToSet(pending) <=> WithDriver(b))
                                /\ b \in ToSet(pending) => us[StreamOf[b]] # "closed" /\ (Late(b) \/ b \in Using \/ ub[StreamOf[b]] = b)
                                /\ wb = b /\ wk \in {"del", "done"} => Held(b)
         /\ \A b : (b \in Using <=> \E id \in Ids : <<b, id>> \in bk) /\ (b \in Using' <=> \E id \in Ids : <<b, id>> \in bk')
<1>1. /\ Defined /\ wrong = {} /\ TypeOK /\ TypeOK'
      /\ pending \in Seq(Bufs) /\ pending' \in Seq(Bufs) /\ events \in Seq(Event) /\ events' \in Seq(Event)
      /\ bk \subseteq Bufs \X Ids /\ bk' \subseteq Bufs \X Ids
  BY Typed, TypeKept, KeptHealthy DEF TypeOK, BuffersOK
<1>2. \A b \in KeptBufs : b \in Bufs /\ b # None /\ Healthy(StreamOf[b]) /\ StreamOf[b] \in Streams
  BY KeptHealthy, Sorts
<1>3. \A b : (b \in Using <=> \E id \in Ids : <<b, id>> \in bk) /\ (b \in Using' <=> \E id \in Ids : <<b, id>> \in bk')
  BY <1>1, Used DEF Using
<1> QED
  BY <1>1, <1>2, <1>3, HealthyFacts

\* A buffer that is accepted was in nobody's hands, and is the ioctl's.
LEMMA AcceptMoves ==
  ASSUME Inv, Next, NEW s \in Streams, NEW b \in Bufs, Enqueue(s, b), Accept(s, b), s = StreamOf[b],
         us[s] \in {"idle", "enqueue"}, st[b] \in {"dequeued", "queued"}, ub[s] = None
  PROVE  HandsParts'
<1>1. /\ st' = [st EXCEPT ![b] = "active"] /\ ub' = [ub EXCEPT ![s] = b] /\ us' = [us EXCEPT ![s] = "add"] /\ uq' = uq
      /\ UNCHANGED <<pending, on, error, bk, events, wkVars, failed, wrong>>
      /\ \E id \in Ids : eid' = [eid EXCEPT ![b] = id] /\ rid' = [rid EXCEPT ![b] = id]
  BY Accepted
<1>2. /\ st'[b] = "active" /\ ub'[s] = b /\ us'[s] = "add"
      /\ \A c \in Bufs : c # b => st'[c] = st[c] /\ eid'[c] = eid[c] /\ rid'[c] = rid[c]
      /\ \A r \in Streams : r # s => us'[r] = us[r] /\ ub'[r] = ub[r]
  BY <1>1, Typed
<1>3. \A c \in KeptBufs : CalmWork(c) /\ CalmEvents(c, 0)
  BY <1>1, MoveFacts, SameWork, SameEvents
<1>4. ASSUME NEW c \in KeptBufs, c # b PROVE CalmBuffer(c)
  BY <1>1, <1>2, <1>4, MoveFacts DEF CalmBuffer
<1>5. b \in KeptBufs => /\ b \notin ToSet(pending) /\ ~Late(b) /\ \A id \in Ids : <<b, id>> \notin bk
  BY MoveFacts DEF Hands, WithDriver, Late, Coming
<1>6. b \in KeptBufs => Good(b)'
  <2> SUFFICES ASSUME b \in KeptBufs PROVE Good(b)'
    OBVIOUS
  <2>1. b \notin ToSet(pending') /\ ~Late(b)' /\ \A id \in Ids : <<b, id>> \notin bk'
    BY <1>1, <1>5 DEF Late, Coming, Held, wkVars
  <2>2. b \notin Using' /\ ~WithDriver(b)'
    BY <1>2, <2>1, MoveFacts DEF WithDriver
  <2>3. Hands(b)'
    BY <1>2, <2>1, <2>2 DEF Hands, Late, Coming
  <2> QED
    BY <2>1, <2>2, <2>3 DEF Good
<1>7. \A c \in KeptBufs : Good(c)'
  BY <1>3, <1>4, <1>6, CalmOne
<1>8. OrderInv'
  <2>1. \A c \in KeptBufs : c \in ToSet(pending') => c # b
    BY <1>1, <1>5
  <2>2. \A r \in Streams : ~QueueAdd(r)
    <3>1. \A r \in Streams : QueueAdd(r) => us[r] = "add" /\ us'[r] = "send"
      BY Typed DEF QueueAdd, Go
    <3> QED
      BY <1>2, <3>1
  <2>3. \A c, e \in KeptBufs : Before(c, e) => Before(c, e)'
    BY <1>3, MoveFacts, CalmOrder
  <2> QED
    BY <1>2, <2>1, <2>2, <2>3, OrderFrame, MoveFacts
<1> QED
  BY <1>7, <1>8, Assembled

\* A buffer that is listed comes after all listed ones of its id, whose events are on their way.
LEMMA AddMoves ==
  ASSUME Inv, Next, NEW s \in Streams, QueueAdd(s), ub[s] \notin ToSet(pending)
  PROVE  HandsParts'
<1>0. PICK b \in Bufs : ub[s] = b
  BY Typed DEF QueueAdd
<1>1. /\ us[s] = "add" /\ b \in Bufs /\ StreamOf[b] = s /\ us' = [us EXCEPT ![s] = "send"]
      /\ pending' = Append(pending, b)
      /\ UNCHANGED <<st, rid, eid, error, failed, ub, bk, events, wkVars, wrong>>
  BY <1>0, Typed DEF QueueAdd, Go
<1>2. us'[s] = "send" /\ \A r \in Streams : r # s => us'[r] = us[r]
  BY <1>1, Typed
<1>3. rid[b] # None /\ eid[b] = rid[b]
  BY <1>0, <1>1, Sorts DEF Inv, IoctlInv
<1>4. ub[s] = b /\ b \notin ToSet(pending)
  BY <1>0
<1>5. /\ Len(pending) + 1 \in DOMAIN pending' /\ pending'[Len(pending) + 1] = b
      /\ \A n \in DOMAIN pending : n \in DOMAIN pending' /\ pending'[n] = pending[n]
      /\ \A n \in DOMAIN pending' : n \in DOMAIN pending \/ n = Len(pending) + 1
      /\ \A n \in DOMAIN pending : n <= Len(pending)
      /\ Len(pending) \in Nat
  BY <1>1, MoveFacts, Appended
<1>6. \A c : c \in ToSet(pending') <=> c \in ToSet(pending) \/ c = b
  BY <1>5 DEF ToSet
<1>7. \A c \in KeptBufs : CalmWork(c) /\ CalmEvents(c, 0)
  BY <1>1, MoveFacts, SameWork, SameEvents
<1>8. ASSUME NEW c \in KeptBufs, c # b PROVE Good(c)'
  <2>1. CalmBuffer(c)
    BY <1>1, <1>2, <1>4, <1>6, <1>8, MoveFacts DEF CalmBuffer
  <2> QED
    BY <1>7, <2>1, CalmOne
<1>9. b \in KeptBufs => st[b] = "active" /\ ~Late(b) /\ b \notin Using
  BY <1>1, <1>4, MoveFacts DEF Hands
<1>10. b \in KeptBufs => Good(b)'
  <2> SUFFICES ASSUME b \in KeptBufs PROVE Good(b)'
    OBVIOUS
  <2>1. Late(b)' <=> Late(b)
    BY <1>1 DEF Late, Coming, Held, wkVars
  <2>2. Using' = Using
    BY <1>1 DEF Using
  <2>3. \A id \in Ids : <<b, id>> \notin bk'
    BY <1>9, <2>2, MoveFacts
  <2>4. Hands(b)'
    BY <1>1, <1>9, <2>1, <2>2, <2>3 DEF Hands, Late, Coming
  <2>5. WithDriver(b)'
    <3>1. ~(wk = "done" /\ wb = b)
      BY <1>9, MoveFacts DEF Late
    <3> QED
      BY <1>1, <1>2, <1>9, <3>1 DEF WithDriver, wkVars
  <2> QED
    BY <1>1, <1>4, <1>6, <2>4, <2>5 DEF Good
<1>11. ASSUME NEW c \in KeptBufs, c \in ToSet(pending), rid[c] = rid[b], b \in KeptBufs PROVE Before(c, b)
  <2>1. Late(c)
    <3>1. \A id \in Ids : <<c, id>> \in bk => eid[c] = rid[c]
      BY <1>11, MoveFacts DEF Hands
    <3>2. ub[StreamOf[c]] = c => eid[c] = rid[c]
      BY MoveFacts DEF Inv, IoctlInv
    <3>3. eid[c] # rid[c]
      BY <1>3, <1>4, <1>11, <1>1, MoveFacts DEF Inv, ExportInv
    <3> QED
      BY <1>11, <3>1, <3>2, <3>3, MoveFacts
  <2> QED
    BY <1>9, <1>11, <2>1 DEF Late, Coming, Before
<1>12. OrderInv'
  <2> SUFFICES ASSUME NEW i \in DOMAIN pending', NEW j \in DOMAIN pending', i < j,
                      NEW c \in KeptBufs, NEW e \in KeptBufs, pending'[i] = c, pending'[j] = e,
                      rid'[c] = rid'[e]
               PROVE  Before(c, e)'
    <3>1. \A n \in DOMAIN pending' : pending'[n] \in Bufs
      BY MoveFacts
    <3> QED
      BY <3>1 DEF OrderInv, Healthy, KeptBufs
  <2>1. i \in DOMAIN pending /\ pending[i] = c
    <3>1. i # Len(pending) + 1
      <4>0. \A n \in DOMAIN pending : n \in Nat /\ n <= Len(pending)
        BY Typed
      <4>1. j \in Nat /\ i \in Nat /\ j <= Len(pending) + 1
        BY <1>5, <4>0
      <4> QED
        BY <1>5, <4>1
    <3> QED
      BY <1>5, <3>1
  <2>2. Before(c, e)
    <3>1. CASE j \in DOMAIN pending
      <4>1. pending[j] = e
        BY <1>5, <3>1
      <4> QED
        BY <1>1, <2>1, <3>1, <4>1, MoveFacts DEF Inv, OrderInv
    <3>2. CASE j = Len(pending) + 1
      <4>1. e = b /\ c \in ToSet(pending)
        BY <1>5, <2>1, <3>2 DEF ToSet
      <4> QED
        BY <1>1, <1>11, <4>1
    <3> QED
      BY <1>5, <3>1, <3>2
  <2> QED
    BY <1>7, <2>2, MoveFacts, CalmOrder
<1> QED
  BY <1>8, <1>10, <1>12, Assembled

\* A buffer that is sent goes from the ioctl to the back end.
LEMMA SendMoves ==
  ASSUME Inv, Next, NEW s \in Streams, QueueSend(s)
  PROVE  HandsParts'
<1>0. PICK b \in Bufs : ub[s] = b
  BY Typed DEF QueueSend
<1>1. /\ us[s] = "send" /\ b \in Bufs /\ StreamOf[b] = s /\ b # None
      /\ bk' = bk \cup {<<b, rid[b]>>} /\ NextBuffer(s)
      /\ UNCHANGED <<st, rid, eid, pending, error, failed, events, wkVars, wrong>>
  BY <1>0, Typed, Sorts DEF QueueSend, histVars
<1>2. /\ us'[s] \in {"idle", "enqueue"} /\ ub'[s] = None
      /\ \A r \in Streams : r # s => us'[r] = us[r] /\ ub'[r] = ub[r]
  BY <1>1, Typed DEF NextBuffer, Go
<1>3. rid[b] # None /\ eid[b] = rid[b] /\ rid[b] \in Ids
  BY <1>0, <1>1, Typed DEF Inv, IoctlInv
<1>4. ub[s] = b
  BY <1>0
<1>5. \A c \in KeptBufs : CalmWork(c) /\ CalmEvents(c, 0)
  BY <1>1, MoveFacts, SameWork, SameEvents
<1>6. ASSUME NEW c \in KeptBufs, c # b PROVE Good(c)'
  <2>0. \A id : <<c, id>> # <<b, rid[b]>>
    BY <1>6
  <2>1. \A id : <<c, id>> \in bk' <=> <<c, id>> \in bk
    BY <1>1, <2>0
  <2>2. CalmBuffer(c)
    <3>1. CASE StreamOf[c] = s
      BY <1>1, <1>2, <1>4, <1>6, <2>1, <3>1, MoveFacts DEF CalmBuffer
    <3>2. CASE StreamOf[c] # s
      BY <1>1, <1>2, <2>1, <3>2, MoveFacts, SameBuffer
    <3> QED
      BY <3>1, <3>2
  <2> QED
    BY <1>5, <2>2, CalmOne
<1>7. b \in KeptBufs => st[b] = "active" /\ ~Late(b) /\ (\A id \in Ids : <<b, id>> \notin bk) /\ (b \in ToSet(pending) <=> WithDriver(b))
  BY <1>1, <1>4, MoveFacts DEF Hands
<1>8. b \in KeptBufs => Good(b)'
  <2> SUFFICES ASSUME b \in KeptBufs PROVE Good(b)'
    OBVIOUS
  <2>1. ~Late(b)'
    BY <1>1, <1>7 DEF Late, Coming, Held, wkVars
  <2>2. \A id \in Ids : <<b, id>> \in bk' => id = rid[b]
    <3>1. \A id : <<b, id>> = <<b, rid[b]>> => id = rid[b]
      OBVIOUS
    <3> QED
      BY <1>1, <1>7, <3>1
  <2>3. Hands(b)'
    BY <1>1, <1>2, <1>3, <1>7, <2>1, <2>2 DEF Hands, Late, Coming
  <2>4. WithDriver(b)' <=> WithDriver(b)
    BY <1>1, <1>2 DEF WithDriver, wkVars
  <2>5. b \in Using'
    BY <1>1, <1>3, MoveFacts
  <2> QED
    BY <1>1, <1>7, <2>3, <2>4, <2>5 DEF Good
<1>9. OrderInv'
  <2>1. \A r \in Streams : QueueAdd(r) => pending' = Append(pending, ub[r]) \/ ub[r] \in ToSet(pending)
    BY DEF QueueAdd
  <2>2. \A r \in Streams : QueueAdd(r) => ub[r] \in ToSet(pending)
    <3>1. pending' = pending /\ \A e \in Bufs : Append(pending, e) # pending
      <4>1. \A e \in Bufs : Len(Append(pending, e)) = Len(pending) + 1 /\ Len(pending) \in Nat
        BY MoveFacts
      <4> QED
        BY <1>1, <4>1
    <3>2. \A r \in Streams : QueueAdd(r) => ub[r] \in Bufs
      BY Typed DEF QueueAdd
    <3> QED
      BY <2>1, <3>1, <3>2
  <2>3. \A c, e \in KeptBufs : Before(c, e) => Before(c, e)'
    BY <1>5, MoveFacts, CalmOrder
  <2> QED
    BY <1>1, <2>2, <2>3, OrderFrame
<1> QED
  BY <1>6, <1>8, <1>9, Assembled

\* A buffer that the back end is done with goes to an event, the last one.
LEMMA BackendMoves ==
  ASSUME Inv, Next, NEW use \in bk, BackendDone(use)
  PROVE  HandsParts'
<1>1. PICK b \in Bufs, id \in Ids : use = <<b, id>>
  BY MoveFacts
<1> DEFINE ev == [stream |-> StreamOf[b], buf |-> b, id |-> id]
<1>2. /\ bk' = bk \ {<<b, id>>} /\ events' = Append(events, ev) /\ ev \in Event /\ ev.buf = b /\ ev.id = id
      /\ UNCHANGED <<st, rid, eid, pending, us, ub, error, failed, wkVars, wrong>>
  BY <1>1, Sorts, EventForms DEF BackendDone, usVars, histVars
<1> HIDE DEF ev
<1>3. /\ Len(events) + 1 \in DOMAIN events' /\ events'[Len(events) + 1] = ev
      /\ \A n \in DOMAIN events : n \in DOMAIN events' /\ events'[n] = events[n] /\ n < Len(events) + 1
      /\ \A n \in DOMAIN events' : n \in DOMAIN events \/ n = Len(events) + 1
      /\ Len(events) \in Nat
  BY <1>2, Typed, Appended
<1>4. \A c \in KeptBufs : CalmWork(c)
  BY <1>2, SameWork
<1>5. ASSUME NEW c \in KeptBufs, c # b PROVE CalmEvents(c, 0)
  <2>1. \A n \in DOMAIN events' : n \in Nat /\ n + 0 = n /\ n - 0 = n
    BY MoveFacts
  <2>2. \A n \in DOMAIN events : n + 0 = n /\ n - 0 = n
    BY MoveFacts
  <2> QED
    BY <1>2, <1>3, <1>5, <2>1, <2>2 DEF CalmEvents
<1>6. ASSUME NEW c \in KeptBufs, c # b PROVE Good(c)'
  <2>0. \A i : <<c, i>> # <<b, id>>
    BY <1>6
  <2>1. \A i : <<c, i>> \in bk' <=> <<c, i>> \in bk
    BY <1>2, <2>0
  <2>2. CalmBuffer(c)
    BY <1>2, <2>1, SameBuffer
  <2> QED
    BY <1>4, <1>5, <1>6, <2>2, CalmOne
<1>7. b \in KeptBufs =>
        /\ st[b] = "active" /\ id = rid[b] /\ ~Late(b) /\ ub[StreamOf[b]] # b /\ (b \in ToSet(pending) <=> WithDriver(b))
        /\ \A i \in Ids : <<b, i>> \in bk => i = id
  <2> SUFFICES ASSUME b \in KeptBufs
               PROVE  /\ st[b] = "active" /\ id = rid[b] /\ ~Late(b) /\ ub[StreamOf[b]] # b /\ (b \in ToSet(pending) <=> WithDriver(b))
                      /\ \A i \in Ids : <<b, i>> \in bk => i = id
    OBVIOUS
  <2>1. <<b, id>> \in bk /\ b \in Using
    BY <1>1, MoveFacts
  <2>2. Hands(b) /\ (b \in ToSet(pending) <=> WithDriver(b))
    BY MoveFacts
  <2> QED
    BY <2>1, <2>2 DEF Hands
<1>8. b \in KeptBufs => Good(b)'
  <2> SUFFICES ASSUME b \in KeptBufs PROVE Good(b)'
    OBVIOUS
  <2>1. ~Held(b)' /\ Coming(b)' /\ Late(b)'
    <3>1. ~Held(b)
      BY <1>7 DEF Late
    <3>2. ~Held(b)'
      BY <1>2, <3>1 DEF Held, wkVars
    <3> QED
      BY <1>2, <1>3, <3>2 DEF Coming, Late
  <2>2. (\A i \in Ids : <<b, i>> \notin bk') /\ b \notin Using'
    BY <1>2, <1>7, MoveFacts
  <2>3. \A k \in DOMAIN events' : events'[k].buf = b => k = Len(events) + 1
    BY <1>3, <1>7 DEF Late, Coming
  <2>4. \A k \in DOMAIN events' : events'[k].buf = b => events'[k].id = rid[b]
    BY <1>2, <1>3, <1>7, <2>3
  <2>5. Hands(b)'
    BY <1>2, <1>7, <2>1, <2>2, <2>3, <2>4 DEF Hands
  <2>6. WithDriver(b)' <=> WithDriver(b)
    BY <1>2 DEF WithDriver, wkVars
  <2> QED
    BY <1>2, <1>7, <2>1, <2>5, <2>6 DEF Good
<1>9. OrderInv'
  <2>1. \A r \in Streams : ~QueueAdd(r)
    <3>1. \A r \in Streams : QueueAdd(r) => us[r] = "add" /\ us'[r] = "send"
      BY Typed DEF QueueAdd, Go
    <3> QED
      BY <1>2, <3>1
  <2>2. ASSUME NEW c \in KeptBufs, NEW e \in KeptBufs, Before(c, e) PROVE Before(c, e)'
    <3>1. (Held(c)' <=> Held(c)) /\ (Held(e)' <=> Held(e))
      BY <1>4 DEF CalmWork
    <3>2. ASSUME NEW k \in DOMAIN events, events[k].buf = c, \A l \in DOMAIN events : events[l].buf = e => k < l
          PROVE  \E n \in DOMAIN events' : events'[n].buf = c /\ \A l \in DOMAIN events' : events'[l].buf = e => n < l
      BY <1>3, <3>2
    <3> QED
      BY <2>2, <3>1, <3>2 DEF Before
  <2> QED
    BY <1>2, <2>1, <2>2, OrderFrame
<1> QED
  BY <1>6, <1>8, <1>9, Assembled

\* A buffer that its event finds is held by the work item, and the event was the first one.
LEMMA FoundMoves ==
  ASSUME Inv, Next, HandleFound
  PROVE  HandsParts' /\ RightBuffer'
<1>1. PICK b \in Bufs : Head(events).buf = b
  <2>1. GetEvent /\ Head(events).buf # None
    BY DEF HandleFound
  <2> QED
    BY <2>1, EventTaken
<1>2. /\ GetEvent /\ wk = "idle" /\ wk' = "del" /\ wev' = Head(events) /\ wev'.buf = b
      /\ UNCHANGED <<st, rid, eid, pending, us, ub, bk, error, failed>>
      /\ wb' = pending[First(Head(events).id)] /\ With(Head(events).id) # {}
      /\ wrong' = wrong \cup (IF wb' = b THEN {} ELSE {<<Head(events).stream, StreamOf[wb']>>})
  BY <1>1 DEF HandleFound, GetEvent, Finds, usVars
<1>3. \A c : ~Held(c) /\ (Held(c)' <=> c = b)
  BY <1>2 DEF Held
<1>4. /\ events[1] = Head(events) /\ 1 \in DOMAIN events
      /\ \A n \in DOMAIN events' : n + 1 \in DOMAIN events /\ events'[n] = events[n + 1]
      /\ \A n \in DOMAIN events : n = 1 \/ (n - 1 \in DOMAIN events' /\ events'[n - 1] = events[n])
  BY <1>2, EventTaken
<1>5. ASSUME NEW c \in KeptBufs, c # b PROVE CalmEvents(c, 1)
  BY <1>1, <1>4, <1>5 DEF CalmEvents
<1>6. ASSUME NEW c \in KeptBufs, c # b PROVE CalmWork(c)
  BY <1>2, <1>3, <1>6 DEF CalmWork
<1>7. ASSUME NEW c \in KeptBufs, c # b PROVE Good(c)'
  BY <1>2, <1>5, <1>6, <1>7, SameBuffer, CalmOne
<1>8. Healthy(StreamOf[b]) =>
        /\ b \in ToSet(pending) /\ rid[b] = Head(events).id /\ Head(events).stream = StreamOf[b]
        /\ \A l \in DOMAIN events : events[l].buf = b => l = 1
        /\ ub[StreamOf[b]] # b /\ (\A id \in Ids : <<b, id>> \notin bk) /\ st[b] = "active"
  BY <1>1, <1>2, TakenOwn, KeptHealthy
<1>9. b \in KeptBufs => Good(b)'
  <2> SUFFICES ASSUME b \in KeptBufs PROVE Good(b)'
    OBVIOUS
  <2>1. Healthy(StreamOf[b])
    BY KeptHealthy
  <2>2. \A k \in DOMAIN events' : events'[k].buf # b
    <3>1. \A k \in DOMAIN events' : k \in Nat /\ k + 1 # 1
      BY Typed, MoveFacts
    <3> QED
      BY <1>4, <1>8, <2>1, <3>1
  <2>3. Held(b)' /\ Late(b)' /\ wev'.id = rid[b] /\ b \notin Using'
    BY <1>2, <1>3, <1>8, <2>1, MoveFacts DEF Late
  <2>4. Hands(b)'
    BY <1>2, <1>8, <2>1, <2>2, <2>3 DEF Hands
  <2>5. WithDriver(b)'
    BY <1>2, <1>8, <2>1 DEF WithDriver
  <2> QED
    BY <1>2, <1>8, <2>1, <2>3, <2>4, <2>5 DEF Good
<1>10. OrderInv'
  <2>1. \A r \in Streams : ~QueueAdd(r)
    <3>1. \A r \in Streams : QueueAdd(r) => us[r] = "add" /\ us'[r] = "send"
      BY Typed DEF QueueAdd, Go
    <3> QED
      BY <1>2, <3>1
  <2>2. ASSUME NEW c \in KeptBufs, NEW e \in KeptBufs, c # e, Before(c, e) PROVE Before(c, e)'
    <3>1. PICK k \in DOMAIN events : events[k].buf = c /\ \A l \in DOMAIN events : events[l].buf = e => k < l
      BY <1>3, <2>2 DEF Before
    <3>2. CASE c = b
      BY <1>3, <3>2 DEF Before
    <3>3. CASE c # b
      <4>1. k # 1 /\ k - 1 \in DOMAIN events' /\ events'[k - 1].buf = c /\ k \in Nat
        BY <1>1, <1>4, <3>1, <3>3, Typed
      <4>2. e # b
        <5>1. ~(k < 1)
          BY <4>1, Typed
        <5> QED
          BY <1>1, <1>4, <3>1, <5>1
      <4>3. \A l \in DOMAIN events' : events'[l].buf = e => k < l + 1
        BY <1>4, <3>1
      <4>4. \A l \in DOMAIN events' : events'[l].buf = e => k - 1 < l
        <5>1. \A l \in DOMAIN events' : l \in Nat
          BY MoveFacts
        <5> QED
          BY <4>1, <4>3, <5>1
      <4> QED
        BY <1>3, <4>1, <4>2, <4>4 DEF Before
    <3> QED
      BY <3>2, <3>3
  <2> QED
    BY <1>2, <2>1, <2>2, OrderFrame
<1>11. RightBuffer'
  <2>1. \A mistake \in wrong' : mistake = <<Head(events).stream, StreamOf[wb']>> /\ wb' # b
    BY <1>2, MoveFacts
  <2>2. ASSUME wb' # b, Healthy(Head(events).stream), Healthy(StreamOf[wb']) PROVE FALSE
    <3>1. Head(events).stream = StreamOf[b]
      BY <1>1, <1>2, EventTaken, Sorts
    <3>2. b \in ToSet(pending) /\ rid[b] = Head(events).id
      BY <1>8, <2>2, <3>1
    <3>3. PICK j \in DOMAIN pending : pending[j] = b
      BY <3>2, Typed DEF ToSet
    <3>4. /\ First(Head(events).id) \in DOMAIN pending /\ rid[wb'] = Head(events).id
          /\ First(Head(events).id) <= j
      BY <1>2, <3>2, <3>3, FirstFound, Typed
    <3>5. PICK c \in Bufs, i \in DOMAIN pending : c = wb' /\ pending[i] = c /\ i <= j
      BY <1>2, <3>4, Typed
    <3>6. i < j
      <4>1. i # j
        BY <2>2, <3>3, <3>5
      <4> QED
        BY <3>5, <4>1, Typed
    <3>7. Before(c, b)
      BY <2>2, <3>1, <3>2, <3>3, <3>4, <3>5, <3>6, MoveFacts DEF Inv, OrderInv
    <3>8. PICK k \in DOMAIN events : k < 1
      BY <1>1, <1>3, <1>4, <3>7 DEF Before
    <3> QED
      BY <3>8, Typed
  <2> QED
    BY <1>2, <2>1, <2>2 DEF RightBuffer, Healthy
<1> QED
  BY <1>7, <1>9, <1>10, <1>11, Assembled

\* The buffer of the event is the one that goes from the list.
LEMMA DelMoves ==
  ASSUME Inv, Next, HandleDel
  PROVE  HandsParts' /\ RightBuffer'
<1>0. Defined /\ wk = "del"
  BY MoveFacts DEF HandleDel
<1>1. PICK b \in Bufs : wb = b /\ wev.buf = b /\ wev.stream = StreamOf[b] /\ Held(b) /\ \A c \in Bufs : Held(c) => c = b
  BY <1>0, DoneOwn
<1>2. /\ wk' = "done" /\ UNCHANGED <<st, rid, eid, us, ub, bk, events, wev, wb, error, failed>>
  BY DEF HandleDel, usVars
<1>3. \A c : Held(c)' <=> Held(c)
  BY <1>0, <1>2 DEF Held
<1>4. \A c \in KeptBufs : CalmEvents(c, 0)
  BY <1>2, MoveFacts, SameEvents
<1>5. \A r \in Streams : ~QueueAdd(r)
  BY <1>0, <1>2 DEF QueueAdd, wkVars
<1>6. \/ With(rid[b]) = {} /\ UNCHANGED <<pending, wrong>>
      \/ \E i \in DOMAIN pending, x \in Bufs :
           /\ pending[i] = x /\ rid[x] = rid[b] /\ \A j \in DOMAIN pending : rid[pending[j]] = rid[b] => i <= j
           /\ x \notin ToSet(pending') /\ \A c : c # x => (c \in ToSet(pending') <=> c \in ToSet(pending))
           /\ wrong' = wrong \cup (IF x = b THEN {} ELSE {<<StreamOf[b], StreamOf[x]>>})
  <2>1. CASE With(rid[b]) = {} /\ UNCHANGED <<pending, wrong>>
    BY <2>1
  <2>2. CASE With(rid[b]) # {} /\ pending' = RemoveAt(pending, First(rid[b])) /\ Finds(wev, pending[First(rid[b])])
    <3>1. PICK i \in 1..Len(pending) : /\ i = First(rid[b]) /\ rid[pending[i]] = rid[b] /\ pending[i] \in Bufs
                                       /\ \A j \in DOMAIN pending : rid[pending[j]] = rid[b] => i <= j
      BY <2>2, FirstFound, MoveFacts
    <3>2. /\ ToSet(pending') \subseteq ToSet(pending) /\ pending[i] \notin ToSet(pending')
          /\ \A j \in DOMAIN pending : j # i => pending[j] \in ToSet(pending')
      <4>1. \A j, k \in DOMAIN pending : pending[j] = pending[k] => j = k
        BY DEF Inv, DistinctInv
      <4> QED
        BY <2>2, <3>1, <4>1, MoveFacts, TakenOut
    <3>3. \A c : c # pending[i] => (c \in ToSet(pending') <=> c \in ToSet(pending))
      BY <3>2 DEF ToSet
    <3>4. wrong' = wrong \cup (IF pending[i] = b THEN {} ELSE {<<StreamOf[b], StreamOf[pending[i]]>>})
      BY <1>1, <2>2, <3>1 DEF Finds
    <3>5. i \in DOMAIN pending
      BY <3>1, MoveFacts
    <3> QED
      BY <3>1, <3>2, <3>3, <3>4, <3>5
  <2> QED
    BY <1>1, <2>1, <2>2 DEF HandleDel
<1>7. ASSUME Healthy(StreamOf[b])
      PROVE  b \in ToSet(pending) /\ ub[StreamOf[b]] # b /\ With(rid[b]) # {}
  <2>1. Hands(b) /\ (b \in ToSet(pending) <=> WithDriver(b))
    BY <1>0, <1>7, HealthyFacts
  <2>2. st[b] = "active" /\ ub[StreamOf[b]] # b
    BY <1>1, <2>1 DEF Hands, Late
  <2>3. b \in ToSet(pending)
    BY <1>0, <2>1, <2>2 DEF WithDriver
  <2> QED
    BY <2>2, <2>3, MoveFacts DEF With, ToSet
<1>8. ASSUME wrong' = {}, NEW c \in KeptBufs PROVE Good(c)'
  <2>1. CASE c # b
    <3>1. c \in ToSet(pending') <=> c \in ToSet(pending)
      BY <1>6, <1>8, <2>1
    <3>2. CalmBuffer(c)
      BY <1>2, <3>1, SameBuffer
    <3>3. CalmWork(c)
      BY <1>0, <1>1, <1>2, <1>3, <2>1 DEF CalmWork
    <3> QED
      BY <1>4, <3>2, <3>3, CalmOne
  <2>2. CASE c = b
    <3>1. Healthy(StreamOf[b]) /\ Hands(b)
      BY <2>2, MoveFacts
    <3>2. b \notin ToSet(pending')
      BY <1>6, <1>7, <1>8, <3>1
    <3>3. Late(b)' <=> Late(b)
      BY <1>2, <1>3 DEF Late, Coming
    <3>4. Using' = Using
      BY <1>2 DEF Using
    <3>5. Hands(b)'
      BY <1>2, <1>3, <3>1, <3>3, <3>4 DEF Hands
    <3>6. ~WithDriver(b)'
      BY <1>1, <1>2 DEF WithDriver
    <3> QED
      BY <2>2, <3>2, <3>5, <3>6 DEF Good
  <2> QED
    BY <2>1, <2>2
<1>9. OrderInv'
  <2>1. \A c, e \in KeptBufs : Before(c, e) => Before(c, e)'
    BY <1>2, <1>3 DEF Before
  <2> QED
    BY <1>2, <1>5, <2>1, OrderFrame
<1>10. RightBuffer'
  <2>1. CASE wrong' = {}
    BY <2>1 DEF RightBuffer
  <2>2. CASE wrong' # {}
    <3>1. PICK i \in DOMAIN pending, x \in Bufs :
            /\ pending[i] = x /\ rid[x] = rid[b] /\ \A j \in DOMAIN pending : rid[pending[j]] = rid[b] => i <= j
            /\ x # b /\ wrong' = {<<StreamOf[b], StreamOf[x]>>}
      BY <1>6, <2>2, MoveFacts
    <3>2. ASSUME Healthy(StreamOf[b]), Healthy(StreamOf[x]) PROVE FALSE
      <4>1. PICK j \in DOMAIN pending : pending[j] = b
        BY <1>7, <3>2 DEF ToSet
      <4>2. i < j
        <5>1. i <= j /\ i # j
          BY <3>1, <4>1
        <5> QED
          BY <5>1, Typed
      <4>3. Before(x, b)
        BY <3>1, <3>2, <4>1, <4>2, MoveFacts DEF Inv, OrderInv
      <4> QED
        BY <1>1, <3>1, <4>3 DEF Before
    <3> QED
      BY <1>2, <3>1, <3>2 DEF RightBuffer, Healthy
  <2> QED
    BY <2>1, <2>2
<1> QED
  BY <1>8, <1>9, <1>10, Assembled

\* A buffer that the work item gives back is in nobody's hands, and not on the list.
LEMMA DoneMoves ==
  ASSUME Inv, Next, HandleDone
  PROVE  HandsParts'
<1>0. Defined /\ wk = "done"
  BY MoveFacts DEF HandleDone
<1>1. PICK b \in Bufs : wb = b /\ Held(b) /\ \A c \in Bufs : Held(c) => c = b
  BY <1>0, DoneOwn
<1>2. /\ wk' = "idle" /\ wb' = None /\ UNCHANGED <<rid, eid, us, ub, pending, bk, events, error, failed>> /\ BufferDone({b})
  BY <1>1 DEF HandleDone, usVars
<1>3. (\A c : ~Held(c)') /\ \A c \in Bufs : st'[c] = IF c = b /\ st[c] = "active" THEN "done" ELSE st[c]
  BY <1>2, MoveFacts, DoneEffect DEF Held
<1>4. \A c \in KeptBufs : CalmEvents(c, 0)
  BY <1>2, MoveFacts, SameEvents
<1>5. ASSUME NEW c \in KeptBufs, c # b PROVE Good(c)' /\ ~Held(c)
  <2>1. ~Held(c)
    BY <1>1, <1>5, MoveFacts
  <2>2. CalmBuffer(c)
    BY <1>2, <1>3, <1>5, MoveFacts, SameBuffer
  <2>3. CalmWork(c)
    BY <1>1, <1>2, <1>3, <1>5, <2>1 DEF CalmWork
  <2> QED
    BY <1>4, <2>1, <2>2, <2>3, CalmOne
<1>6. b \in KeptBufs => /\ b \notin ToSet(pending) /\ ub[StreamOf[b]] # b /\ ~Coming(b) /\ \A id \in Ids : <<b, id>> \notin bk
  <2> SUFFICES ASSUME b \in KeptBufs
               PROVE  /\ b \notin ToSet(pending) /\ ub[StreamOf[b]] # b /\ ~Coming(b)
                      /\ \A id \in Ids : <<b, id>> \notin bk
    OBVIOUS
  <2>1. Hands(b) /\ (b \in ToSet(pending) <=> WithDriver(b))
    BY MoveFacts
  <2>2. ~WithDriver(b) /\ Late(b)
    BY <1>0, <1>1 DEF WithDriver, Late
  <2>3. ~Coming(b)
    BY <1>1, <2>1 DEF Hands, Coming
  <2> QED
    BY <2>1, <2>2, <2>3 DEF Hands
<1>7. b \in KeptBufs => Good(b)'
  <2> SUFFICES ASSUME b \in KeptBufs PROVE Good(b)'
    OBVIOUS
  <2>1. st'[b] # "active"
    BY <1>3
  <2>2. Hands(b)'
    BY <1>2, <1>3, <1>6 DEF Hands, Coming
  <2> QED
    BY <1>2, <1>6, <2>1, <2>2 DEF Good, WithDriver
<1>8. OrderInv'
  <2>1. \A r \in Streams : ~QueueAdd(r)
    BY <1>0, <1>2 DEF QueueAdd, wkVars
  <2>2. ASSUME NEW c \in KeptBufs, NEW e \in KeptBufs, c \in ToSet(pending'), e \in ToSet(pending'), Before(c, e) PROVE Before(c, e)'
    <3>1. c # b /\ e # b
      BY <1>2, <1>6, <2>2
    <3>2. ~Held(c)
      BY <1>5, <3>1
    <3> QED
      BY <1>2, <1>3, <2>2, <3>2 DEF Before
  <2> QED
    BY <1>2, <2>1, <2>2, OrderFrame
<1> QED
  BY <1>5, <1>7, <1>8, Assembled

\* Every step keeps hands, list and order.
LEMMA HandsKept ==
  ASSUME Inv, Next
  PROVE  HandsParts'
<1>1. ASSUME Calm, \A s \in Streams : QueueAdd(s) => ub[s] \in ToSet(pending) PROVE HandsParts'
  BY <1>1, CalmKeeps
<1>2. ASSUME NEW s \in Streams, QueueAdd(s), ub[s] \notin ToSet(pending) PROVE HandsParts'
  BY <1>2, AddMoves
<1>3. ASSUME Calm PROVE HandsParts'
  BY <1>1, <1>2, <1>3
<1>4. ASSUME NEW s \in Streams, NEW b \in Bufs,
             \/ Qbuf(b) /\ s = StreamOf[b]
             \/ us[s] = "enqueue" /\ b \in BufsOf(uq[s]) /\ st[b] = "queued" /\ Enqueue(s, b)
      PROVE  HandsParts'
  <2>1. /\ Enqueue(s, b) /\ s = StreamOf[b] /\ us[s] \in {"idle", "enqueue"} /\ st[b] \in {"dequeued", "queued"}
        /\ ub[s] = None
    BY <1>4, Enqueued
  <2>2. CASE Refuse(s, b)
    <3>1. Calm
      BY <2>1, <2>2, CalmQueues
    <3> QED
      BY <3>1, <1>3
  <2>3. CASE Accept(s, b)
    BY <2>1, <2>3, AcceptMoves
  <2> QED
    BY <2>1, <2>2, <2>3 DEF Enqueue
<1>5. ASSUME NEW b \in Bufs, QbufEarly(b) \/ Dqbuf(b) PROVE HandsParts'
  <2>1. Calm
    BY <1>5, CalmQueues
  <2> QED
    BY <2>1, <1>3
<1>6. ASSUME NEW q \in Queues, StreamOn(q) \/ Stop(q) \/ StopIdle(q) \/ Reqbufs0(q) PROVE HandsParts'
  <2>1. Calm
    BY <1>6, CalmQueues
  <2> QED
    BY <2>1, <1>3
<1>7. ASSUME NEW s \in Streams, Ioctl(s) \/ Wait(s) \/ BackendError(s) PROVE HandsParts'
  <2>1. CASE EnqueueNext(s)
    BY <2>1, <1>4 DEF EnqueueNext, BufsOf
  <2>2. CASE QueueSend(s)
    BY <2>2, SendMoves
  <2>3. CASE QueueAdd(s) /\ ub[s] \notin ToSet(pending)
    BY <2>3, <1>2
  <2>4. CASE \/ (QueueAdd(s) /\ ub[s] \in ToSet(pending)) \/ QueueSendFail(s)
             \/ Start(s) \/ StartFail(s) \/ Wait(s)
             \/ Off(s) \/ OffFail(s) \/ StopRelease(s) \/ OtherCommandFails(s) \/ Close(s) \/ BackendError(s)
    <3>1. Calm
      BY <2>4, CalmIoctls
    <3> QED
      BY <3>1, <1>3
  <2> QED
    BY <1>7, <2>1, <2>2, <2>3, <2>4 DEF Ioctl
<1>8. CASE Work
  <2>1. CASE HandleUnknown \/ HandleError \/ HandleRelease \/ HandleNotFound
    <3>1. Calm
      BY <2>1, CalmWorkItem
    <3> QED
      BY <3>1, <1>3
  <2> QED
    BY <1>8, <2>1, FoundMoves, DelMoves, DoneMoves DEF Work
<1> QED
  BY <1>4, <1>5, <1>6, <1>7, <1>8, BackendMoves, Sorts DEF Next

\* Every step keeps RightBuffer.
LEMMA RightKept ==
  ASSUME Inv, Next
  PROVE  RightBuffer'
<1>1. ASSUME wrong' = wrong PROVE RightBuffer'
  BY <1>1, KeptHealthy DEF RightBuffer
<1>2. CASE Work
  <2>1. CASE HandleUnknown \/ HandleError \/ HandleRelease \/ HandleNotFound \/ HandleDone
    BY <2>1, <1>1 DEF HandleUnknown, HandleError, HandleRelease, HandleNotFound, HandleDone, histVars
  <2> QED
    BY <1>2, <2>1, FoundMoves, DelMoves DEF Work
<1>3. ASSUME NEW use \in bk, BackendDone(use) PROVE RightBuffer'
  BY <1>3, <1>1 DEF BackendDone, histVars
<1>4. ASSUME NEW s \in Streams, BackendError(s) PROVE RightBuffer'
  BY <1>4, <1>1 DEF BackendError
<1> QED
  BY <1>1, <1>2, <1>3, <1>4, EventSteps

\* Every step keeps UserOwnsReturned.
LEMMA UserOwnsKept ==
  ASSUME Inv, Next
  PROVE  UserOwnsReturned'
<1>1. CASE wrong' = {}
  <2>1. \A b \in KeptBufs : Hands(b)'
    BY <1>1, HandsKept, KeptHealthy DEF HandsParts, HandsInv, KeptBufs
  <2>2. \A b \in KeptBufs : b \in Using' => st'[b] = "active"
    BY <2>1, MoveFacts DEF Hands
  <2>3. \A b \in Using' : b \in Bufs
    BY MoveFacts DEF Using
  <2> QED
    BY <2>2, <2>3, KeptHealthy DEF UserOwnsReturned
<1>2. CASE wrong' # {}
  <2>1. HandleFound \/ HandleDel
    <3>1. wrong = {}
      BY KeptHealthy
    <3> QED
      BY <1>2, <3>1, EventSteps DEF BackendDone, BackendError, Work, HandleUnknown, HandleError, HandleRelease, HandleNotFound, HandleDone, histVars
  <2>2. UNCHANGED <<st, bk, error, failed>>
    BY <2>1 DEF HandleFound, HandleDel
  <2> QED
    BY <2>2 DEF Inv, UserOwnsReturned, Using, Healthy
<1> QED
  BY <1>1, <1>2

\* The invariant holds at first.
LEMMA InvInit ==
  ASSUME Init
  PROVE  Inv
<1>1. TypeOK
  BY Sorts DEF Init, TypeOK, BuffersOK, IoctlsOK, WorkOK, HistoryOK
<1>2. /\ ToSet(pending) = {} /\ DOMAIN pending = {} /\ DOMAIN events = {} /\ Using = {} /\ wk = "idle" /\ wb = None
      /\ \A b \in Bufs : st[b] = "dequeued" /\ eid[b] = None
      /\ \A s \in Streams : us[s] = "idle" /\ ub[s] = None /\ uq[s] = None
      /\ bk = {} /\ wrong = {} /\ twice = {} /\ relinked = {}
  BY DEF Init, ToSet, Using
<1>3. IoctlInv /\ EventInv /\ ActiveInv /\ ExportInv /\ DistinctInv
  BY <1>2 DEF IoctlInv, EventInv, ActiveInv, ExportInv, DistinctInv
<1>4. HandsInv /\ ListedInv /\ OrderInv
  BY <1>2, Sorts DEF HandsInv, Hands, Held, ListedInv, OrderInv
<1>5. PendingExact /\ RightBuffer /\ GivenBackOnce /\ ListedOnce /\ UserOwnsReturned /\ NothingDangles
  BY <1>2 DEF PendingExact, WithDriver, RightBuffer, GivenBackOnce, ListedOnce, UserOwnsReturned, NothingDangles
<1> QED
  BY <1>1, <1>3, <1>4, <1>5 DEF Inv

\* Every step keeps the invariant.
LEMMA InvKept ==
  ASSUME Inv, [Next]_vars
  PROVE  Inv'
<1>1. ASSUME Next PROVE Inv'
  BY <1>1, TypeKept, IoctlKept, EventKept, ActiveKept, ExportKept, DistinctKept, HandsKept, RightKept, GivenBackKept,
     ListedOnceKept, UserOwnsKept, DanglesKept DEF Inv, HandsParts
<1>2. CASE UNCHANGED vars
  <2>1. UNCHANGED <<st, rid, eid, pending, on, error, us, ub, uq, bk, events, wk, wev, wb, queued, errors, failed, twice, relinked, wrong>>
    BY <1>2 DEF vars, usVars, wkVars, histVars
  <2>2. TypeOK' /\ IoctlInv' /\ EventInv' /\ ActiveInv' /\ ExportInv' /\ DistinctInv'
    <3>1. TypeOK'
      BY <2>1 DEF Inv, TypeOK, BuffersOK, IoctlsOK, WorkOK, HistoryOK
    <3>2. IoctlInv' /\ EventInv'
      BY <2>1 DEF Inv, IoctlInv, EventInv, Healthy
    <3>3. ActiveInv' /\ ExportInv' /\ DistinctInv'
      BY <2>1 DEF Inv, ActiveInv, ExportInv, DistinctInv
    <3> QED
      BY <3>1, <3>2, <3>3
  <2>3. HandsInv' /\ ListedInv' /\ OrderInv'
    <3>1. HandsInv'
      BY <2>1 DEF Inv, HandsInv, Hands, Late, Held, Coming, Healthy, Using
    <3>2. ListedInv'
      BY <2>1 DEF Inv, ListedInv, Late, Held, Coming, Healthy, Using
    <3>3. OrderInv'
      BY <2>1 DEF Inv, OrderInv, Before, Held, Healthy
    <3> QED
      BY <3>1, <3>2, <3>3
  <2>4. PendingExact' /\ RightBuffer' /\ GivenBackOnce' /\ ListedOnce' /\ UserOwnsReturned' /\ NothingDangles'
    BY <2>1 DEF Inv, PendingExact, WithDriver, RightBuffer, GivenBackOnce, ListedOnce, UserOwnsReturned, NothingDangles, Gone, Healthy, Using
  <2> QED
    BY <2>2, <2>3, <2>4 DEF Inv
<1> QED
  BY <1>1, <1>2
-----------------------------------------------------------------------------
\* The invariant holds in every state: types, places and hands of buffers, and the list in order
\* (virtio_video_msm_vb2.c:275-373, virtio_video_vq.c:384-459).
THEOREM InvHolds == Spec => []Inv
<1>1. Init => Inv
  BY InvInit
<1>2. Inv /\ [Next]_vars => Inv'
  BY InvKept
<1> QED
  BY <1>1, <1>2, PTL DEF Spec

\* The pending list is sound: its entries are distinct and none is of freed memory, but after a
\* failed command or a close with a streaming meta queue (virtio_video_msm_vb2.c:358,
\* virtio_video_device.c:1186-1201).
THEOREM ListSoundHolds == Spec => []ListSound
<1>1. Inv => ListSound
  BY DEF Inv, ListSound
<1> QED
  BY <1>1, InvHolds, PTL

\* The back end never uses a buffer that the driver has given to the user, but of a failed stream
\* (virtio_video_vq.c:440-457).
THEOREM UserOwnsReturnedHolds == Spec => []UserOwnsReturned
<1>1. Inv => UserOwnsReturned
  BY DEF Inv
<1> QED
  BY <1>1, InvHolds, PTL

\* The buffers of a healthy stream are on the list exactly while the driver has them, and an event
\* takes its own although ids are used again (virtio_video_vq.c:427-457,
\* virtio_video_msm_vb2.c:355-359).
THEOREM ListExactHolds == Spec => []ListExact
<1>1. Inv => ListExact
  BY DEF Inv, ListExact
<1> QED
  BY <1>1, InvHolds, PTL

\* vb2_buffer_done is called once for each time a buffer is queued, but of a failed stream
\* (virtio_video_msm_vb2.c:370-372, virtio_video_device.c:1000).
THEOREM GivenBackOnceHolds == Spec => []GivenBackOnce
<1>1. Inv => GivenBackOnce
  BY DEF Inv
<1> QED
  BY <1>1, InvHolds, PTL
-----------------------------------------------------------------------------
(* Buffers change hands as BufferOwnership says. *)

\* No step but Close changes what the back end uses and the states of buffers at once.
LEMMA UseSteps ==
  ASSUME Inv, Next
  PROVE  bk' = bk \/ st' = st \/ \E s \in Streams : Close(s)
<1>1. ASSUME NEW b \in Bufs, Qbuf(b) \/ QbufEarly(b) \/ Dqbuf(b) PROVE bk' = bk
  BY <1>1 DEF Qbuf, Enqueue, QbufEarly, Dqbuf
<1>2. ASSUME NEW q, StreamOn(q) \/ Stop(q) \/ StopIdle(q) \/ Reqbufs0(q) PROVE bk' = bk
  BY <1>2 DEF StreamOn, Stop, StopIdle, Reqbufs0
<1>3. ASSUME NEW s \in Streams, Ioctl(s) \/ Wait(s) \/ BackendError(s) PROVE bk' = bk \/ st' = st \/ Close(s)
  BY <1>3 DEF Ioctl, EnqueueNext, Enqueue, QueueAdd, QueueSend, QueueSendFail, Start, StartFail, Wait, Off, OffFail, StopRelease,
              OtherCommandFails, BackendError
<1>4. ASSUME NEW use, BackendDone(use) PROVE st' = st
  BY <1>4 DEF BackendDone
<1>5. ASSUME Work PROVE bk' = bk
  BY <1>5 DEF Work, HandleUnknown, HandleError, HandleRelease, HandleFound, HandleNotFound, HandleDel, HandleDone
<1> QED
  BY <1>1, <1>2, <1>3, <1>4, <1>5 DEF Next

\* A buffer of a healthy stream makes at most one move in a step.
LEMMA OneMove ==
  ASSUME Inv, Next, NEW b \in KeptBufs
  PROVE  Owner(b)' = Owner(b) \/ <<Owner(b), Owner(b)'>> \in Ownership!Moves
<1>1. (b \in Using => st[b] = "active") /\ (b \in Using' => st'[b] = "active")
  BY UserOwnsKept, KeptHealthy DEF Inv, UserOwnsReturned, KeptBufs
<1>2. /\ ~(b \in Using /\ b \notin Using' /\ st'[b] # "active")
      /\ ~(b \notin Using /\ st[b] # "active" /\ b \in Using')
  <2>1. CASE bk' = bk
    BY <2>1 DEF Using
  <2>2. CASE st' = st
    BY <1>1, <2>2
  <2>3. ASSUME NEW s \in Streams, Close(s)
        PROVE  /\ ~(b \in Using /\ b \notin Using' /\ st'[b] # "active")
               /\ ~(b \notin Using /\ st[b] # "active" /\ b \in Using')
    <3>1. CalmBuffer(b)
      <4>1. Calm
        BY <2>3, CalmIoctls
      <4> QED
        BY <4>1 DEF Calm
    <3> QED
      BY <1>1, <3>1 DEF CalmBuffer
  <2> QED
    BY <2>1, <2>2, <2>3, UseSteps
<1>3. /\ Owner(b) = IF b \in Using THEN "backend" ELSE IF st[b] = "active" THEN "driver" ELSE "user"
      /\ Owner(b)' = IF b \in Using' THEN "backend" ELSE IF st'[b] = "active" THEN "driver" ELSE "user"
  BY DEF Owner
<1> QED
  BY <1>1, <1>2, <1>3 DEF Ownership!Moves

\* The buffers of all streams change hands only as BufferOwnership allows: from the user to the
\* driver, on to the back end and the same way back, one move of each at a time, but of a failed
\* stream (virtio_video_msm_vb2.c:275-373, virtio_video_vq.c:384-459).
THEOREM OwnershipKeptHolds == Spec => OwnershipKept
<1> DEFINE owners == [b \in Bufs |-> Owner(b)]
           excused == error \cup failed
<1>1. Init => Ownership!Init
  <2> SUFFICES ASSUME Init PROVE Ownership!Init
    OBVIOUS
  <2>1. \A b \in Bufs : Owner(b) = "user"
    BY DEF Init, Owner, Using
  <2>2. owners = [b \in Bufs |-> "user"]
    BY <2>1
  <2>3. excused \subseteq Streams
    BY DEF Init
  <2> QED
    BY <2>2, <2>3 DEF Ownership!Init
<1>2. Inv /\ [Next]_vars => [Ownership!Next]_<<owners, excused>>
  <2> SUFFICES ASSUME Inv, [Next]_vars PROVE [Ownership!Next]_<<owners, excused>>
    OBVIOUS
  <2>1. CASE UNCHANGED vars
    <3>1. UNCHANGED <<st, bk, error, failed>>
      BY <2>1 DEF vars, histVars
    <3>2. owners' = owners /\ excused' = excused
      BY <3>1 DEF Owner, Using
    <3> QED
      BY <3>2
  <2>2. CASE Next
    <3>1. excused' \in SUBSET Streams /\ excused \subseteq excused'
      BY <2>2, TypeKept, FailuresGrow DEF TypeOK, BuffersOK, HistoryOK
    <3>2. owners' \in [Bufs -> Ownership!Owners]
      <4>1. \A b \in Bufs : Owner(b)' \in Ownership!Owners
        BY DEF Owner, Ownership!Owners
      <4>2. owners' = [b \in Bufs |-> Owner(b)']
        OBVIOUS
      <4> QED
        BY <4>1, <4>2
    <3>3. ASSUME NEW b \in Bufs
          PROVE  owners'[b] = owners[b] \/ <<owners[b], owners'[b]>> \in Ownership!Moves \/ StreamOf[b] \in excused'
      <4>1. owners[b] = Owner(b) /\ owners'[b] = Owner(b)'
        OBVIOUS
      <4>2. b \in KeptBufs \/ StreamOf[b] \in excused'
        BY DEF KeptBufs
      <4> QED
        BY <2>2, <4>1, <4>2, OneMove
    <3> QED
      BY <3>1, <3>2, <3>3 DEF Ownership!Next
  <2> QED
    BY <2>1, <2>2
<1> QED
  BY <1>1, <1>2, InvHolds, PTL DEF Spec, OwnershipKept, Ownership!Spec
=============================================================================
