-------------------------- MODULE StreamsProofs --------------------------
(***************************************************************************)
(* Proofs about Streams, for any bounds on streams, messages and frames,   *)
(* any priorities, and whether or not the connection breaks:               *)
(*  - type correctness;                                                    *)
(*  - no message is added for a stream the queue does not have (NoPanic);  *)
(*  - a close comes after every message of its stream (ClosedComplete).    *)
(*                                                                         *)
(* The invariant has three layers, each of which the next one builds on.   *)
(* Typed says where everything lives. Acquainted follows the life of a     *)
(* stream: who can know of it, before its Open is sent, while it is on its *)
(* way and afterwards. Flows cuts the messages 1, 2, .. sent on a stream   *)
(* into four parts: delivered, on the wire, queued, and in the channel     *)
(* to send_mgr, each of which takes up where the one before it ends.       *)
(***************************************************************************)
EXTENDS Streams, FoldLemmas, SequenceTheorems

Info(e) == [messages : Seq(1..MaxSent[e]), taken : Nat]

IsStore(e, st) ==
  /\ DOMAIN st \subseteq Sid /\ st = [s \in DOMAIN st |-> st[s]]
  /\ \A s \in DOMAIN st :
       st[s] \in Info(e) /\ st[s].taken <= FrameCount * Len(st[s].messages)

\* The same as sets, in the terms the proofs need.
SoundInfo(e) == {si \in Info(e) : si.taken <= FrameCount * Len(si.messages)}

Stores(e) == UNION {[D -> SoundInfo(e)] : D \in SUBSET Sid}

Datum(e) == [type : {"Data"}, sid : Sid, n : 1..MaxSent[e]]

Frame(e) == [type : {"Open", "Close"}, sid : Sid] \cup {Shutdown, Eof} \cup Datum(e)

Open(s)  == Event("Open", s)
Close(s) == Event("Close", s)

Shape ==
  /\ participant \in [End -> {"held", "leaving", "dropped"}]
  /\ held \in [End -> SUBSET Sid]
  /\ checked \in [End -> Sid \cup {NoSid}]
  /\ streams \in [End -> SUBSET Sid]
  /\ closed \in [End -> SUBSET Sid]
  /\ opens \in [End -> Nat]
  /\ notify \in [End -> Seq([type : {"Open", "Close"}, sid : Sid])]
  /\ sending \in [End -> BOOLEAN] /\ receiving \in [End -> BOOLEAN]
  /\ close_send \in [End -> BOOLEAN]
  /\ shutdown \in [End -> {"idle", "asked", "waiting", "forced", "done"}]
  /\ panicked \in [End -> {"no", "unknown stream", "nobody to open"}]
  /\ closing \in [End -> Seq(Sid)]
  /\ broken \in BOOLEAN
  /\ sent = [e \in End |-> sent[e]] /\ outbox = [e \in End |-> outbox[e]]
  /\ store = [e \in End |-> store[e]] /\ wire = [e \in End |-> wire[e]]
  /\ delivered = [e \in End |-> delivered[e]]

Bounded(e) ==
  /\ opens[e] <= MaxOpen[e]
  /\ sent[e] \in [Sid -> 0..MaxSent[e]]
  /\ outbox[e] \in Seq(Sid \X (1..MaxSent[e]))
  /\ IsStore(e, store[e])
  /\ wire[e] \in Seq(Frame(e))
  /\ delivered[e] \in [Sid -> Seq(1..MaxSent[Peer(e)])]
  /\ checked[e] # NoSid => sent[e][checked[e]] < MaxSent[e]

Typed == Shape /\ \A e \in End : Bounded(e)

-----------------------------------------------------------------------------
(* Who knows of a stream *)

Unborn(s)    == s[2] > opens[s[1]]
Announced(s) == Open(s) \in ToSet(wire[s[1]])

Knows(e, s) ==
  \/ s \in streams[e] \cup held[e] \cup ToSet(closing[e]) \cup DOMAIN store[e]
  \/ Open(s) \in ToSet(notify[e])
  \/ sent[e][s] # 0 \/ delivered[e][s] # <<>>

Speaks(e, s) ==
  \E i \in DOMAIN wire[e] : wire[e][i].sid = s /\ wire[e][i].type # "Open"

\* A stream is known to the end that opened it; to the other when its Open, of
\* which there is one, has arrived there before anything else of the stream.
Life(s) ==
  LET o == s[1]
      a == Peer(o)
  IN  /\ Unborn(s) => ~Knows(o, s) /\ ~Speaks(o, s) /\ ~Announced(s)
      /\ Unborn(s) \/ Announced(s) => ~Knows(a, s) /\ ~Speaks(a, s)
      /\ Open(s) \notin ToSet(wire[a]) /\ Open(s) \notin ToSet(notify[o])
      /\ \A i, j \in DOMAIN wire[o] :
           wire[o][i] = Open(s) /\ wire[o][j].sid = s => i <= j

\* What send_mgr has been asked to do, it can do.
Ready(e) ==
  /\ checked[e] \in held[e] \cup {NoSid}
  /\ \A i \in DOMAIN outbox[e] : outbox[e][i][1] \in held[e]
  /\ \A s \in held[e] : s \in DOMAIN store[e] \/ Open(s) \in ToSet(notify[e])
  /\ ToSet(closing[e]) \cap held[e] = {}
  /\ \A i, j \in DOMAIN notify[e] :
       notify[e][i].type = "Open" /\ notify[e][j] = notify[e][i] => i = j
  /\ \A s \in DOMAIN store[e] : Open(s) \notin ToSet(notify[e])

Serves(e) == IF sending[e] THEN Ready(e) ELSE held[e] = {} /\ checked[e] = NoSid

Acquainted ==
  /\ \A s \in Sid : Life(s)
  /\ \A e \in End : Serves(e)
  /\ NoPanic

-----------------------------------------------------------------------------
(* Where the messages are *)

IsData(f, s) == f.type = "Data" /\ f.sid = s

\* A sequence of frames has the messages a + 1, .., b of a stream, in order.
Carries(w, s, a, b) ==
  /\ \A i \in DOMAIN w : IsData(w[i], s) => w[i].n \in (a + 1)..b
  /\ \A n \in (a + 1)..b : \E i \in DOMAIN w : IsData(w[i], s) /\ w[i].n = n
  /\ \A i, j \in DOMAIN w :
       IsData(w[i], s) /\ IsData(w[j], s) /\ i < j => w[i].n < w[j].n

AsData(messages) ==
  [i \in DOMAIN messages |->
     [type |-> "Data", sid |-> messages[i][1], n |-> messages[i][2]]]

\* A stream's queue has the messages t + 1, .., q to send.
Gone(si) == si.taken \div FrameCount

Queues(st, s, t, q) ==
  IF s \in DOMAIN st
  THEN /\ q = t + Len(st[s].messages) - Gone(st[s])
       /\ \A j \in DOMAIN st[s].messages :
            j > Gone(st[s]) => st[s].messages[j] = t + j - Gone(st[s])
  ELSE q = t

Backlog(p, s, t) ==
  \E q \in t..sent[p][s] :
    /\ Queues(store[p], s, t, q)
    /\ Carries(AsData(outbox[p]), s, q, sent[p][s])

Flow(e, s) ==
  LET p == Peer(e)
  IN  \E d \in 0..sent[p][s] : \E t \in d..sent[p][s] :
        /\ delivered[e][s] = [n \in 1..d |-> n]
        /\ Carries(wire[p], s, d, t)
        /\ sending[p] /\ ~broken => Backlog(p, s, t)
        /\ Close(s) \in ToSet(wire[p]) => t = sent[p][s]

\* Nothing comes after the Close of a stream.
Over(p, s) ==
  /\ \A i, j \in DOMAIN wire[p] :
       wire[p][i] = Close(s) /\ IsData(wire[p][j], s) => j < i
  /\ Close(s) \in ToSet(wire[p]) =>
       /\ s \notin held[p] \cup ToSet(closing[p]) \cup DOMAIN store[p]
       /\ Open(s) \notin ToSet(notify[p])

Orderly == \A p \in End, s \in Sid : Over(p, s)

\* What has been sent on a stream reaches those who watch it.
Watched(e, s) == receiving[e] /\ (s \in streams[e] \/ Open(s) \in ToSet(wire[Peer(e)]))

Flows == Orderly /\ \A e \in End, s \in Sid : Watched(e, s) => Flow(e, s)

-----------------------------------------------------------------------------
(* The two ends, the streams, and sequences *)

LEMMA PeerFacts ==
  ASSUME NEW e \in End
  PROVE  /\ Peer(e) \in End /\ Peer(e) # e /\ Peer(Peer(e)) = e
         /\ \A d \in End : d = e \/ d = Peer(e)
<1>1. IsFiniteSet(End) /\ Cardinality(End) = 2
  BY EndAssumption
<1>2. /\ IsFiniteSet(End \ {e}) /\ Cardinality(End \ {e}) = 1
  BY <1>1, FS_RemoveElement
<1>3. End \ {e} # {}
  BY <1>2, FS_EmptySet
<1> PICK d \in End \ {e} : TRUE
  BY <1>3
<1>4. IsFiniteSet((End \ {e}) \ {d}) /\ Cardinality((End \ {e}) \ {d}) = 0
  BY <1>2, FS_RemoveElement
<1>5. (End \ {e}) \ {d} = {}
  BY <1>4, FS_EmptySet
<1>6. \A c \in End : c # e <=> c = d
  BY <1>5
<1>7. Peer(e) = d
  BY <1>6 DEF Peer
<1>8. \A c \in End : c # d <=> c = e
  BY <1>6
<1>9. Peer(d) = e
  BY <1>8 DEF Peer
<1> QED BY <1>6, <1>7, <1>9

LEMMA SidFacts ==
  /\ NoSid \notin Sid
  /\ \A s \in Sid : /\ s = <<s[1], s[2]>> /\ s[1] \in End
                    /\ s[2] \in Nat \ {0} /\ s[2] <= MaxOpen[s[1]]
  /\ \A e \in End, n \in Nat \ {0} : n <= MaxOpen[e] => <<e, n>> \in Sid
<1>1. MaxOpen \in [End -> Nat]
  BY EndAssumption
<1>2. ASSUME NEW s \in Sid
      PROVE  /\ s = <<s[1], s[2]>> /\ s[1] \in End
             /\ s[2] \in Nat \ {0} /\ s[2] <= MaxOpen[s[1]]
  <2> PICK e \in End : s \in {e} \X (1..MaxOpen[e])
    BY DEF Sid
  <2> QED BY <1>1
<1>3. ASSUME NEW e \in End, NEW n \in Nat \ {0}, n <= MaxOpen[e]
      PROVE  <<e, n>> \in Sid
  <2>1. <<e, n>> \in {e} \X (1..MaxOpen[e])
    BY <1>1, <1>3
  <2> QED BY <2>1 DEF Sid
<1> QED BY <1>2, <1>3, EndAssumption

LEMMA SequenceFacts ==
  ASSUME NEW X, NEW w \in Seq(X)
  PROVE  /\ \A x \in X : /\ Append(w, x) \in Seq(X)
                         /\ ToSet(Append(w, x)) = ToSet(w) \cup {x}
         /\ \A v \in Seq(X) : /\ w \o v \in Seq(X)
                              /\ ToSet(w \o v) = ToSet(w) \cup ToSet(v)
         /\ w # <<>> => /\ Head(w) \in ToSet(w) /\ Head(w) \in X
                        /\ Tail(w) \in Seq(X)
                        /\ ToSet(w) = {Head(w)} \cup ToSet(Tail(w))
         /\ ToSet(w) \subseteq X /\ ToSet(<<>>) = {}
<1>1. ASSUME NEW x \in X
      PROVE  Append(w, x) \in Seq(X) /\ ToSet(Append(w, x)) = ToSet(w) \cup {x}
  <2>1. Append(w, x) \in Seq(X) /\ DOMAIN Append(w, x) = 1..(Len(w) + 1)
    OBVIOUS
  <2>2. \A i \in 1..Len(w) : Append(w, x)[i] = w[i]
    OBVIOUS
  <2>3. Append(w, x)[Len(w) + 1] = x /\ Len(w) \in Nat /\ DOMAIN w = 1..Len(w)
    OBVIOUS
  <2>4. 1..(Len(w) + 1) = (1..Len(w)) \cup {Len(w) + 1}
    BY <2>3
  <2> QED BY <2>1, <2>2, <2>3, <2>4 DEF ToSet
<1>2. ASSUME NEW v \in Seq(X)
      PROVE  w \o v \in Seq(X) /\ ToSet(w \o v) = ToSet(w) \cup ToSet(v)
  <2>1. /\ w \o v \in Seq(X) /\ DOMAIN (w \o v) = 1..(Len(w) + Len(v))
        /\ Len(w) \in Nat /\ Len(v) \in Nat
        /\ DOMAIN w = 1..Len(w) /\ DOMAIN v = 1..Len(v)
    OBVIOUS
  <2>2. \A i \in 1..Len(w) : (w \o v)[i] = w[i]
    OBVIOUS
  <2>3. \A i \in 1..Len(v) : (w \o v)[Len(w) + i] = v[i]
    OBVIOUS
  <2>4. \A i \in 1..(Len(w) + Len(v)) : i \in 1..Len(w) \/ i - Len(w) \in 1..Len(v)
    BY <2>1
  <2>5. \A i \in 1..Len(v) : Len(w) + i \in 1..(Len(w) + Len(v))
    BY <2>1
  <2>6. \A i \in 1..Len(w) : i \in 1..(Len(w) + Len(v))
    BY <2>1
  <2>7. ToSet(w \o v) \subseteq ToSet(w) \cup ToSet(v)
    <3> SUFFICES ASSUME NEW i \in 1..(Len(w) + Len(v))
                 PROVE  (w \o v)[i] \in ToSet(w) \cup ToSet(v)
      BY <2>1 DEF ToSet
    <3>1. CASE i \in 1..Len(w)
      BY <2>1, <2>2, <3>1 DEF ToSet
    <3>2. CASE i - Len(w) \in 1..Len(v)
      <4>1. (w \o v)[i] = v[i - Len(w)]
        BY <2>1, <2>3, <3>2
      <4> QED BY <2>1, <3>2, <4>1 DEF ToSet
    <3> QED BY <2>4, <3>1, <3>2
  <2>8. ToSet(w) \cup ToSet(v) \subseteq ToSet(w \o v)
    BY <2>1, <2>2, <2>3, <2>5, <2>6 DEF ToSet
  <2> QED BY <2>1, <2>7, <2>8
<1>3. ASSUME w # <<>>
      PROVE  /\ Head(w) \in ToSet(w) /\ Head(w) \in X
             /\ Tail(w) \in Seq(X)
             /\ ToSet(w) = {Head(w)} \cup ToSet(Tail(w))
  <2>1. /\ Len(w) \in Nat \ {0} /\ DOMAIN w = 1..Len(w) /\ Head(w) = w[1]
        /\ Tail(w) \in Seq(X) /\ DOMAIN Tail(w) = 1..(Len(w) - 1)
        /\ \A i \in 1..(Len(w) - 1) : Tail(w)[i] = w[i + 1]
    BY <1>3
  <2>2. 1 \in 1..Len(w) /\ w[1] \in X
    BY <2>1
  <2>3. \A i \in 1..Len(w) : i = 1 \/ i - 1 \in 1..(Len(w) - 1)
    BY <2>1
  <2>4. \A i \in 1..(Len(w) - 1) : i + 1 \in 1..Len(w)
    BY <2>1
  <2>5. \A i \in 1..Len(w) : i = 1 \/ w[i] = Tail(w)[i - 1]
    BY <2>1, <2>3
  <2>6. ToSet(w) \subseteq {Head(w)} \cup ToSet(Tail(w))
    <3> SUFFICES ASSUME NEW i \in 1..Len(w) PROVE w[i] \in {Head(w)} \cup ToSet(Tail(w))
      BY <2>1 DEF ToSet
    <3>1. CASE i = 1
      BY <2>1, <3>1
    <3>2. CASE i - 1 \in 1..(Len(w) - 1) /\ w[i] = Tail(w)[i - 1]
      BY <2>1, <3>2 DEF ToSet
    <3> QED BY <2>3, <2>5, <3>1, <3>2
  <2>7. {Head(w)} \cup ToSet(Tail(w)) \subseteq ToSet(w)
    BY <2>1, <2>2, <2>4 DEF ToSet
  <2>8. Head(w) \in ToSet(w) /\ Head(w) \in X
    BY <2>1, <2>2 DEF ToSet
  <2> QED BY <2>1, <2>6, <2>7, <2>8
<1>4. ToSet(w) \subseteq X /\ ToSet(<<>>) = {}
  BY DEF ToSet
<1> QED BY <1>1, <1>2, <1>3, <1>4

-----------------------------------------------------------------------------
(* What the folds and the concatenations of the model compute, part by part *)

\* The values of a folding after each part of the sequence.
Steps(run, n, V, base, step) ==
  /\ run \in [0..n -> V] /\ run[0] = base
  /\ \A m \in 1..n : run[m] = step[m][run[m - 1]]

Folded(it, n, V, base, step) ==
  /\ base \in V /\ \A i \in 1..n, v \in V : step[i][v] \in V
  /\ it[{}] = base
  /\ \A T \in SUBSET (1..n) : T # {} /\ it[T \ {Max(T)}] \in V =>
       it[T] = step[Max(T)][it[T \ {Max(T)}]]

LEMMA FoldingSteps ==
  ASSUME NEW n \in Nat, NEW V, NEW base, NEW step, NEW it, Folded(it, n, V, base, step)
  PROVE  \E run : Steps(run, n, V, base, step) /\ run[n] = it[1..n]
<1> DEFINE run == [m \in 0..n |-> it[1..m]]
           N   == {m \in Nat : m \in 0..n => it[1..m] \in V}
<1>1. it[1..0] = base
  <2>1. 1..0 = {}
    OBVIOUS
  <2> QED BY <2>1 DEF Folded
<1>2. ASSUME NEW m \in 1..n, it[1..(m - 1)] \in V
      PROVE  it[1..m] = step[m][it[1..(m - 1)]] /\ it[1..m] \in V
  <2>1. 1..m \in SUBSET (1..n) /\ 1..m # {}
    OBVIOUS
  <2>2. Max(1..m) = m /\ (1..m) \ {m} = 1..(m - 1)
    BY MaxInterval
  <2>3. it[1..m] = step[m][it[1..(m - 1)]]
    BY <1>2, <2>1, <2>2 DEF Folded
  <2> QED BY <1>2, <2>3 DEF Folded
<1>3. \A m \in Nat : m \in N
  <2>1. 0 \in N
    BY <1>1 DEF Folded
  <2>2. ASSUME NEW m \in Nat, m \in N PROVE m + 1 \in N
    <3> SUFFICES ASSUME m + 1 \in 0..n PROVE it[1..(m + 1)] \in V
      OBVIOUS
    <3>1. m + 1 \in 1..n /\ (m + 1) - 1 = m /\ m \in 0..n
      OBVIOUS
    <3> QED BY <1>2, <2>2, <3>1
  <2> HIDE DEF N
  <2> QED BY <2>1, <2>2, NatSetInduction
<1>4. \A m \in 0..n : it[1..m] \in V
  BY <1>3
<1>5. \A m \in 1..n : m - 1 \in 0..n /\ m \in 0..n
  OBVIOUS
<1>6. Steps(run, n, V, base, step)
  BY <1>1, <1>2, <1>4, <1>5 DEF Steps
<1> QED BY <1>6

\* What holds of the base and is kept by every step holds at the end.
LEMMA StepsInduction ==
  ASSUME NEW n \in Nat, NEW V, NEW base, NEW step, NEW run,
         Steps(run, n, V, base, step), NEW C, 0 \in C,
         \A m \in 1..n : m - 1 \in C => m \in C
  PROVE  n \in C
<1> DEFINE N == {m \in Nat : m <= n => m \in C}
<1>1. ASSUME NEW m \in Nat, m \in N PROVE m + 1 \in N
  <2> SUFFICES ASSUME m + 1 <= n PROVE m + 1 \in C
    OBVIOUS
  <2>1. m + 1 \in 1..n /\ (m + 1) - 1 = m
    OBVIOUS
  <2> QED BY <1>1, <2>1
<1>2. 0 \in N
  OBVIOUS
<1> HIDE DEF N
<1>3. \A m \in Nat : m \in N
  BY <1>1, <1>2, NatSetInduction
<1> QED BY <1>3 DEF N

\* Those: the members of the set, in a sequence of what the sequence has.
LEMMA ThoseFacts ==
  ASSUME NEW X, NEW w \in Seq(X), NEW set
  PROVE  Those(w, set) \in Seq(X) /\ ToSet(Those(w, set)) = ToSet(w) \cap set
<1> DEFINE n == Len(w)
           V == Seq(X)
           step == [m \in 1..n |-> [v \in V |-> IF w[m] \in set THEN Append(v, w[m]) ELSE v]]
           Is(it) == it = [T \in SUBSET (1..n) |->
                      IF T = {} THEN <<>>
                      ELSE IF w[Max(T)] \in set THEN Append(it[T \ {Max(T)}], w[Max(T)])
                           ELSE it[T \ {Max(T)}]]
<1>0. n \in Nat /\ DOMAIN w = 1..n /\ <<>> \in V /\ \A m \in 1..n : w[m] \in X
  OBVIOUS
<1>1. \A m \in 1..n, v \in V :
        step[m][v] = (IF w[m] \in set THEN Append(v, w[m]) ELSE v) /\ step[m][v] \in V
  OBVIOUS
<1>2. PICK g : Folding(g, n, V, <<>>, step)
  <2> HIDE DEF step, V, n
  <2> QED BY <1>0, <1>1, FoldingExists
<1>3. Is(g)
  <2> HIDE DEF step, V, n
  <2>1. ASSUME NEW T \in SUBSET (1..n), T # {}
        PROVE  g[T] = IF w[Max(T)] \in set THEN Append(g[T \ {Max(T)}], w[Max(T)])
                      ELSE g[T \ {Max(T)}]
    <3>1. Max(T) \in 1..n /\ g[T \ {Max(T)}] \in V
      BY <1>0, <1>2, <2>1, MaxExists DEF Folding
    <3>2. g[T] = step[Max(T)][g[T \ {Max(T)}]]
      BY <1>2, <2>1 DEF Folding
    <3> QED BY <1>1, <3>1, <3>2
  <2> QED BY <1>2, <2>1 DEF Folding
<1>4. PICK it : Is(it) /\ Those(w, set) = it[1..n]
  <2>1. Is(CHOOSE it : Is(it))
    <3> HIDE DEF Is
    <3> QED BY <1>3
  <2>2. Those(w, set) = (CHOOSE it : Is(it))[1..n]
    BY <1>0 DEF Those, FoldLeft, MapThenFoldSet
  <2> HIDE DEF Is
  <2> QED BY <2>1, <2>2
<1>5. PICK run : Steps(run, n, V, <<>>, step) /\ run[n] = it[1..n]
  <2> HIDE DEF step, V, n
  <2>1. it[{}] = <<>>
    BY <1>4
  <2>2. ASSUME NEW T \in SUBSET (1..n), T # {}, it[T \ {Max(T)}] \in V
        PROVE  it[T] = step[Max(T)][it[T \ {Max(T)}]]
    <3>1. Max(T) \in 1..n
      BY <1>0, <2>2, MaxExists
    <3>2. it[T] = IF w[Max(T)] \in set THEN Append(it[T \ {Max(T)}], w[Max(T)])
                  ELSE it[T \ {Max(T)}]
      BY <1>4, <2>2
    <3> QED BY <1>1, <2>2, <3>1, <3>2
  <2> HIDE DEF Is
  <2>3. Folded(it, n, V, <<>>, step)
    BY <1>0, <1>1, <2>1, <2>2 DEF Folded
  <2> QED BY <1>0, <2>3, FoldingSteps
<1> DEFINE C == {m \in 0..n : ToSet(run[m]) = {w[i] : i \in 1..m} \cap set}
<1>6. 0 \in C
  BY <1>0, <1>5 DEF Steps, ToSet
<1>7. ASSUME NEW m \in 1..n, m - 1 \in C PROVE m \in C
  <2> HIDE DEF step, V, n
  <2>1. run[m - 1] \in V /\ run[m] = step[m][run[m - 1]] /\ m \in 0..n
    BY <1>0, <1>5 DEF Steps
  <2>2. 1..m = (1..(m - 1)) \cup {m}
    OBVIOUS
  <2>3. ToSet(Append(run[m - 1], w[m])) = ToSet(run[m - 1]) \cup {w[m]}
    BY <1>0, <2>1, SequenceFacts DEF V
  <2> QED BY <1>1, <1>7, <2>1, <2>2, <2>3
<1>8. n \in C
  <2> HIDE DEF step, V, n, C
  <2> QED BY <1>0, <1>5, <1>6, <1>7, StepsInduction
<1>9. run[n] \in V
  <2> HIDE DEF step, V, n
  <2> QED BY <1>0, <1>5 DEF Steps
<1>10. ToSet(w) = {w[i] : i \in 1..n}
  BY <1>0 DEF ToSet
<1>11. Those(w, set) = run[n]
  BY <1>4, <1>5
<1> QED
  <2> HIDE DEF step, n, Is
  <2> QED BY <1>8, <1>9, <1>10, <1>11

-----------------------------------------------------------------------------
(* The queue of messages *)

LEMMA ConstantFacts ==
  /\ FrameCount \in Nat \ {0, 1}
  /\ \A e \in End : MaxOpen[e] \in Nat /\ MaxSent[e] \in Nat
BY FrameAssumption, EndAssumption

\* What division is.
LEMMA Cancel ==
  ASSUME NEW f \in Nat \ {0}, NEW x \in Int, NEW y \in Int, f * x < f * y
  PROVE  x < y
<1> SUFFICES ASSUME y <= x PROVE FALSE
  OBVIOUS
<1>1. PICK z \in Nat : x = y + z
  <2>1. x - y \in Nat /\ x = y + (x - y)
    OBVIOUS
  <2> QED BY <2>1
<1>2. f * x = f * y + f * z /\ f * z >= 0
  BY <1>1
<1> QED BY <1>2

LEMMA DivFacts ==
  ASSUME NEW f \in Nat \ {0}, NEW a \in Nat
  PROVE  /\ a \div f \in Nat /\ f * (a \div f) <= a /\ a < f * ((a \div f) + 1)
         /\ \A q \in Int : f * q <= a /\ a < f * (q + 1) => q = a \div f
<1>1. a \div f \in Int
  OBVIOUS
<1>2. f * (a \div f) <= a
  OBVIOUS
<1>3. a < f * ((a \div f) + 1)
  OBVIOUS
<1> DEFINE d == a \div f
<1> HIDE DEF d
<1>4. d \in Int /\ f * d <= a /\ a < f * (d + 1)
  BY <1>1, <1>2, <1>3 DEF d
<1>5. f * 0 = 0 /\ f * d \in Int /\ f * (d + 1) \in Int
  BY <1>4
<1>6. 0 < d + 1
  <2>1. f * 0 < f * (d + 1)
    BY <1>4, <1>5
  <2> QED BY <1>4, <2>1, Cancel
<1>7. ASSUME NEW q \in Int, f * q <= a, a < f * (q + 1) PROVE q = d
  <2>0. f * q \in Int /\ f * (q + 1) \in Int
    OBVIOUS
  <2>1. f * q < f * (d + 1) /\ f * d < f * (q + 1)
    BY <1>4, <1>5, <1>7, <2>0
  <2>2. q < d + 1
    BY <1>4, <2>1, Cancel
  <2>3. d < q + 1
    BY <1>4, <2>1, Cancel
  <2> QED BY <1>4, <2>2, <2>3
<1> QED BY <1>4, <1>6, <1>7 DEF d

LEMMA StoreSets ==
  ASSUME NEW e, NEW st
  PROVE  IsStore(e, st) <=> st \in Stores(e)
BY DEF IsStore, Stores, SoundInfo

LEMMA StoreFacts ==
  ASSUME NEW e \in End, NEW st \in Stores(e)
  PROVE  /\ DOMAIN st \subseteq Sid
         /\ \A s \in DOMAIN st :
              /\ st[s] \in SoundInfo(e) /\ st[s].messages \in Seq(1..MaxSent[e])
              /\ st[s].taken \in Nat /\ Len(st[s].messages) \in Nat
              /\ st[s].taken <= FrameCount * Len(st[s].messages)
         /\ Empty \in SoundInfo(e)
<1>1. Empty \in SoundInfo(e)
  <2>1. Len(<<>>) = 0 /\ <<>> \in Seq(1..MaxSent[e])
    OBVIOUS
  <2>2. FrameCount * 0 = 0
    BY ConstantFacts
  <2> QED BY <2>1, <2>2 DEF SoundInfo, Info, Empty
<1> QED BY <1>1 DEF Stores, SoundInfo, Info

LEMMA OpenStreamFacts ==
  ASSUME NEW e \in End, NEW st \in Stores(e), NEW s \in Sid
  PROVE  /\ open_stream(st, s) \in Stores(e)
         /\ DOMAIN open_stream(st, s) = DOMAIN st \cup {s}
         /\ open_stream(st, s)[s] = Empty
         /\ \A r \in DOMAIN st : r # s => open_stream(st, s)[r] = st[r]
<1>1. open_stream(st, s) = [r \in DOMAIN st \cup {s} |-> IF r = s THEN Empty ELSE st[r]]
  BY DEF open_stream
<1>2. \A r \in DOMAIN st : st[r] \in SoundInfo(e)
  BY StoreFacts
<1>3. Empty \in SoundInfo(e) /\ DOMAIN st \subseteq Sid
  BY StoreFacts
<1>4. open_stream(st, s) \in [DOMAIN st \cup {s} -> SoundInfo(e)]
  BY <1>1, <1>2, <1>3
<1>5. DOMAIN st \cup {s} \in SUBSET Sid
  BY <1>3
<1> QED BY <1>1, <1>4, <1>5 DEF Stores

LEMMA CloseStreamFacts ==
  ASSUME NEW e \in End, NEW st \in Stores(e), NEW set
  PROVE  /\ Restrict(st, DOMAIN st \ set) \in Stores(e)
         /\ DOMAIN Restrict(st, DOMAIN st \ set) = DOMAIN st \ set
         /\ \A s \in DOMAIN st \ set : Restrict(st, DOMAIN st \ set)[s] = st[s]
<1>1. Restrict(st, DOMAIN st \ set) = [s \in DOMAIN st \ set |-> st[s]]
  BY DEF Restrict
<1>2. Restrict(st, DOMAIN st \ set) \in [DOMAIN st \ set -> SoundInfo(e)]
  BY <1>1, StoreFacts
<1>3. DOMAIN st \ set \in SUBSET Sid
  BY StoreFacts
<1> QED BY <1>1, <1>2, <1>3 DEF Stores

LEMMA AddFacts ==
  ASSUME NEW e \in End, NEW st \in Stores(e), NEW s \in DOMAIN st, NEW n \in 1..MaxSent[e]
  PROVE  /\ add(st, s, n) \in Stores(e) /\ DOMAIN add(st, s, n) = DOMAIN st
         /\ add(st, s, n)[s].messages = Append(st[s].messages, n)
         /\ add(st, s, n)[s].taken = st[s].taken
         /\ \A r \in DOMAIN st : r # s => add(st, s, n)[r] = st[r]
<1> DEFINE si == [st[s] EXCEPT !.messages = Append(@, n)]
<1>1. /\ st[s].messages \in Seq(1..MaxSent[e]) /\ st[s].taken \in Nat
      /\ st[s].taken <= FrameCount * Len(st[s].messages)
      /\ st[s] \in Info(e) /\ DOMAIN st \in SUBSET Sid
  BY StoreFacts DEF SoundInfo
<1>2. add(st, s, n) = [st EXCEPT ![s] = si]
  BY DEF add
<1>3. /\ si.messages = Append(st[s].messages, n) /\ si.taken = st[s].taken
      /\ si \in Info(e)
  <2>1. Append(st[s].messages, n) \in Seq(1..MaxSent[e])
    BY <1>1
  <2>2. st[s] \in [messages : Seq(1..MaxSent[e]), taken : Nat]
    BY <1>1 DEF Info
  <2> QED BY <2>1, <2>2 DEF Info
<1>4. Len(si.messages) = Len(st[s].messages) + 1
  BY <1>1, <1>3
<1>5. st[s].taken <= FrameCount * (Len(st[s].messages) + 1)
  <2>1. \A f, m, k \in Nat : k <= f * m => k <= f * (m + 1)
    OBVIOUS
  <2>2. Len(st[s].messages) \in Nat /\ FrameCount \in Nat
    BY <1>1, ConstantFacts
  <2> HIDE DEF si
  <2> QED BY <1>1, <2>1, <2>2
<1>6. si \in SoundInfo(e)
  BY <1>3, <1>4, <1>5 DEF SoundInfo
<1> HIDE DEF si
<1>7. st \in [DOMAIN st -> SoundInfo(e)]
  BY DEF Stores
<1>8. [st EXCEPT ![s] = si] \in [DOMAIN st -> SoundInfo(e)]
  BY <1>6, <1>7
<1>9. [st EXCEPT ![s] = si] \in Stores(e)
  BY <1>1, <1>8 DEF Stores
<1> QED BY <1>2, <1>3, <1>7, <1>9

-----------------------------------------------------------------------------
(* What send_mgr puts into the queue *)

Notices == [type : {"Open", "Close"}, sid : Sid]

Announces(w) == {s \in Sid : Open(s) \in ToSet(w)}

Heeds(p, w, st) ==
  /\ Notified(p, w) = [p EXCEPT !.store = st]
  /\ DOMAIN st = DOMAIN p.store \cup Announces(w)
  /\ \A s \in DOMAIN st : st[s] = IF s \in Announces(w) THEN Empty ELSE p.store[s]

\* Notified: the streams that were opened, without messages, and all others as
\* they were.
LEMMA NotifiedFacts ==
  ASSUME NEW e \in End, NEW p, p.store \in Stores(e), NEW w \in Seq(Notices)
  PROVE  \E st \in Stores(e) : Heeds(p, w, st)
<1> DEFINE n == Len(w)
           X == Notices
           V == Stores(e)
           base == p.store
           step == [m \in 1..n |-> [v \in V |->
                     IF w[m].type = "Open" THEN open_stream(v, w[m].sid) ELSE v]]
           Is(it) == it = [T \in SUBSET (1..n) |->
                      IF T = {} THEN base
                       ELSE IF w[Max(T)].type = "Open"
                              THEN open_stream(it[T \ {Max(T)}], w[Max(T)].sid)
                              ELSE it[T \ {Max(T)}]]
<1>0. n \in Nat /\ DOMAIN w = 1..n /\ base \in V /\ \A m \in 1..n : w[m] \in X
  OBVIOUS
<1>1. \A m \in 1..n, v \in V :
        /\ step[m][v] = (IF w[m].type = "Open" THEN open_stream(v, w[m].sid) ELSE v)
        /\ step[m][v] \in V
  <2> SUFFICES ASSUME NEW m \in 1..n, NEW v \in V
               PROVE  (IF w[m].type = "Open" THEN open_stream(v, w[m].sid) ELSE v) \in V
    OBVIOUS
  <2>1. w[m].sid \in Sid
    BY <1>0 DEF Notices
  <2> QED BY <2>1, OpenStreamFacts
<1>2. PICK g : Folding(g, n, V, base, step)
  <2> HIDE DEF step, V, n
  <2> QED BY <1>0, <1>1, FoldingExists
<1>3. Is(g)
  <2> HIDE DEF step, V, n
  <2>1. ASSUME NEW T \in SUBSET (1..n), T # {}
        PROVE  g[T] = IF w[Max(T)].type = "Open"
                        THEN open_stream(g[T \ {Max(T)}], w[Max(T)].sid)
                        ELSE g[T \ {Max(T)}]
    <3>1. Max(T) \in 1..n /\ g[T \ {Max(T)}] \in V
      BY <1>0, <1>2, <2>1, MaxExists DEF Folding
    <3>2. g[T] = step[Max(T)][g[T \ {Max(T)}]]
      BY <1>2, <2>1 DEF Folding
    <3> QED BY <1>1, <3>1, <3>2
  <2> QED BY <1>2, <2>1 DEF Folding
<1>4. PICK it :
        /\ Is(it)
        /\ FoldLeft(LAMBDA st, ev : IF ev.type = "Open" THEN open_stream(st, ev.sid) ELSE st,
                      base, w) = it[1..n]
  <2>1. Is(CHOOSE it : Is(it))
    <3> HIDE DEF Is
    <3> QED BY <1>3
  <2>2. FoldLeft(LAMBDA st, ev : IF ev.type = "Open" THEN open_stream(st, ev.sid) ELSE st,
             base, w) = (CHOOSE it : Is(it))[1..n]
    BY <1>0 DEF FoldLeft, MapThenFoldSet
  <2> HIDE DEF Is
  <2> QED BY <2>1, <2>2
<1>5. PICK run : Steps(run, n, V, base, step) /\ run[n] = it[1..n]
  <2> HIDE DEF step, V, n
  <2>1. it[{}] = base
    BY <1>4
  <2>2. ASSUME NEW T \in SUBSET (1..n), T # {}, it[T \ {Max(T)}] \in V
        PROVE  it[T] = step[Max(T)][it[T \ {Max(T)}]]
    <3>1. Max(T) \in 1..n
      BY <1>0, <2>2, MaxExists
    <3>2. it[T] = IF w[Max(T)].type = "Open"
                    THEN open_stream(it[T \ {Max(T)}], w[Max(T)].sid)
                    ELSE it[T \ {Max(T)}]
      BY <1>4, <2>2
    <3> QED BY <1>1, <2>2, <3>1, <3>2
  <2> HIDE DEF Is
  <2>3. Folded(it, n, V, base, step)
    BY <1>0, <1>1, <2>1, <2>2 DEF Folded
  <2> QED BY <1>0, <2>3, FoldingSteps
<1>6. \A m \in 1..n : m - 1 \in 0..n /\ m \in 0..n
  OBVIOUS
<1>7. \A m \in 1..n :
        /\ run[m - 1] \in V
        /\ run[m] = IF w[m].type = "Open" THEN open_stream(run[m - 1], w[m].sid)
                    ELSE run[m - 1]
  <2> HIDE DEF step, V, n
  <2> QED BY <1>1, <1>5, <1>6 DEF Steps
<1>8. /\ run \in [0..n -> V] /\ run[0] = base
      /\ FoldLeft(LAMBDA st, ev : IF ev.type = "Open" THEN open_stream(st, ev.sid) ELSE st,
                    base, w) = run[n]
  <2> HIDE DEF step, V, n, Is
  <2> QED BY <1>4, <1>5 DEF Steps
<1> DEFINE Opened(m) == {s \in Sid : \E i \in 1..m : w[i] = Open(s)}
           C == {m \in 0..n :
                   /\ DOMAIN run[m] = DOMAIN base \cup Opened(m)
                   /\ \A s \in DOMAIN run[m] :
                        run[m][s] = IF s \in Opened(m) THEN Empty ELSE base[s]}
<1>9. 0 \in C
  <2>1. 0 \in 0..n /\ 1..0 = {}
    BY <1>0
  <2>2. Opened(0) = {}
    BY <2>1
  <2> HIDE DEF n, V, base, Opened, step, Is
  <2> QED BY <1>8, <2>1, <2>2
<1>10. ASSUME NEW m \in 1..n, m - 1 \in C PROVE m \in C
  <2>1. 1..m = (1..(m - 1)) \cup {m} /\ m \in 0..n
    OBVIOUS
  <2>2. /\ run[m - 1] \in V /\ w[m] \in Notices
        /\ run[m] = IF w[m].type = "Open" THEN open_stream(run[m - 1], w[m].sid)
                    ELSE run[m - 1]
    BY <1>0, <1>7
  <2>3. CASE w[m].type = "Open"
    <3>1. w[m].sid \in Sid /\ w[m] = Open(w[m].sid)
      BY <2>2, <2>3 DEF Notices, Open, Event
    <3>2. \A s \in Sid : w[m] = Open(s) <=> s = w[m].sid
      BY <3>1 DEF Open, Event
    <3>3. Opened(m) = Opened(m - 1) \cup {w[m].sid}
      BY <2>1, <3>1, <3>2
    <3>4. /\ DOMAIN run[m] = DOMAIN run[m - 1] \cup {w[m].sid}
          /\ run[m][w[m].sid] = Empty
          /\ \A r \in DOMAIN run[m - 1] : r # w[m].sid => run[m][r] = run[m - 1][r]
      <4>1. run[m - 1] \in Stores(e) /\ run[m] = open_stream(run[m - 1], w[m].sid)
        BY <2>2, <2>3
      <4> HIDE DEF n, V, base, step, Is, Opened, C
      <4>2. \A st \in Stores(e), s \in Sid :
              /\ DOMAIN open_stream(st, s) = DOMAIN st \cup {s}
              /\ open_stream(st, s)[s] = Empty
              /\ \A r \in DOMAIN st : r # s => open_stream(st, s)[r] = st[r]
        BY OpenStreamFacts
      <4>3. w[m].sid \in Sid
        BY <3>1
      <4> DEFINE old == run[m - 1]
                 s == w[m].sid
                 new == run[m]
      <4>4. old \in Stores(e) /\ s \in Sid /\ new = open_stream(old, s)
        BY <4>1, <4>3
      <4> HIDE DEF old, s, new
      <4>5. /\ DOMAIN new = DOMAIN old \cup {s} /\ new[s] = Empty
            /\ \A r \in DOMAIN old : r # s => new[r] = old[r]
        BY <4>2, <4>4
      <4> QED BY <4>5 DEF old, s, new
    <3> HIDE DEF Opened, n, V, base
    <3> QED BY <1>10, <2>1, <3>3, <3>4
  <2>4. CASE w[m].type # "Open"
    <3>1. \A s \in Sid : w[m] # Open(s)
      BY <2>4 DEF Open, Event
    <3>2. Opened(m) = Opened(m - 1)
      BY <2>1, <3>1
    <3> HIDE DEF Opened
    <3> QED BY <1>10, <2>1, <2>2, <2>4, <3>2
  <2> QED BY <2>3, <2>4
<1>11. n \in C
  <2> HIDE DEF C, step, n, V, base
  <2> QED BY <1>0, <1>5, <1>9, <1>10, StepsInduction
<1>12. Opened(n) = {s \in Sid : Open(s) \in ToSet(w)}
  BY <1>0 DEF ToSet
<1>13. Notified(p, w) = [p EXCEPT !.store = run[n]]
  BY <1>8 DEF Notified
<1>14. run[n] \in Stores(e) /\ DOMAIN run[n] \subseteq Sid
  <2>1. run[n] \in Stores(e)
    <3> HIDE DEF n, base, step, Is
    <3>1. n \in 0..n
      BY <1>0
    <3> QED BY <1>8, <3>1
  <2> QED BY <2>1, StoreFacts
<1>15. Opened(n) = Announces(w)
  BY <1>12 DEF Announces
<1>16. /\ DOMAIN run[n] = DOMAIN base \cup Announces(w)
       /\ \A s \in DOMAIN run[n] :
            run[n][s] = IF s \in Announces(w) THEN Empty ELSE base[s]
  <2> HIDE DEF Opened, n, base
  <2> QED BY <1>11, <1>15
<1> HIDE DEF n
<1>17. Heeds(p, w, run[n])
  BY <1>13, <1>16 DEF Heeds
<1> QED BY <1>14, <1>17

\* send_mgr puts message after message into the queue.
LEMMA MessagesRun ==
  ASSUME NEW e \in End, NEW p, p.store \in Stores(e), NEW w \in Seq(Sid \X (1..MaxSent[e])),
         \A i \in DOMAIN w : w[i][1] \in DOMAIN p.store
  PROVE  \E run :
           /\ run \in [0..Len(w) -> {st \in Stores(e) : DOMAIN st = DOMAIN p.store}]
           /\ run[0] = p.store
           /\ \A m \in 1..Len(w) : run[m] = add(run[m - 1], w[m][1], w[m][2])
           /\ SendMessages(p, w) = [p EXCEPT !.store = run[Len(w)]]
<1> DEFINE n == Len(w)
           X == Sid \X (1..MaxSent[e])
           V == {st \in Stores(e) : DOMAIN st = DOMAIN p.store}
           base == p.store
           step == [m \in 1..n |-> [v \in V |-> add(v, w[m][1], w[m][2])]]
           Is(it) == it = [T \in SUBSET (1..n) |->
                      IF T = {} THEN base
                      ELSE add(it[T \ {Max(T)}], w[Max(T)][1], w[Max(T)][2])]
<1>0. n \in Nat /\ DOMAIN w = 1..n /\ base \in V /\ \A m \in 1..n : w[m] \in X
  OBVIOUS
<1>1. \A m \in 1..n, v \in V : step[m][v] = (add(v, w[m][1], w[m][2])) /\ step[m][v] \in V
  <2> SUFFICES ASSUME NEW m \in 1..n, NEW v \in V PROVE add(v, w[m][1], w[m][2]) \in V
    OBVIOUS
  <2> DEFINE s == w[m][1]
             k == w[m][2]
  <2>1. v \in Stores(e) /\ s \in DOMAIN v /\ k \in 1..MaxSent[e] /\ DOMAIN v = DOMAIN base
    BY <1>0
  <2> HIDE DEF s, k, base
  <2>2. add(v, s, k) \in Stores(e) /\ DOMAIN add(v, s, k) = DOMAIN v
    BY <2>1, AddFacts
  <2> QED BY <2>1, <2>2 DEF s, k, base
<1>2. PICK g : Folding(g, n, V, base, step)
  <2> HIDE DEF step, V, n
  <2> QED BY <1>0, <1>1, FoldingExists
<1>3. Is(g)
  <2> HIDE DEF step, V, n
  <2>1. ASSUME NEW T \in SUBSET (1..n), T # {}
        PROVE  g[T] = add(g[T \ {Max(T)}], w[Max(T)][1], w[Max(T)][2])
    <3>1. Max(T) \in 1..n /\ g[T \ {Max(T)}] \in V
      BY <1>0, <1>2, <2>1, MaxExists DEF Folding
    <3>2. g[T] = step[Max(T)][g[T \ {Max(T)}]]
      BY <1>2, <2>1 DEF Folding
    <3> QED BY <1>1, <3>1, <3>2
  <2> QED BY <1>2, <2>1 DEF Folding
<1>4. PICK it : Is(it) /\ FoldLeft(LAMBDA st, m : add(st, m[1], m[2]), base, w) = it[1..n]
  <2>1. Is(CHOOSE it : Is(it))
    <3> HIDE DEF Is
    <3> QED BY <1>3
  <2>2. FoldLeft(LAMBDA st, m : add(st, m[1], m[2]), base, w) = (CHOOSE it : Is(it))[1..n]
    BY <1>0 DEF FoldLeft, MapThenFoldSet
  <2> HIDE DEF Is
  <2> QED BY <2>1, <2>2
<1>5. PICK run : Steps(run, n, V, base, step) /\ run[n] = it[1..n]
  <2> HIDE DEF step, V, n
  <2>1. it[{}] = base
    BY <1>4
  <2>2. ASSUME NEW T \in SUBSET (1..n), T # {}, it[T \ {Max(T)}] \in V
        PROVE  it[T] = step[Max(T)][it[T \ {Max(T)}]]
    <3>1. Max(T) \in 1..n
      BY <1>0, <2>2, MaxExists
    <3>2. it[T] = add(it[T \ {Max(T)}], w[Max(T)][1], w[Max(T)][2])
      BY <1>4, <2>2
    <3> QED BY <1>1, <2>2, <3>1, <3>2
  <2> HIDE DEF Is
  <2>3. Folded(it, n, V, base, step)
    BY <1>0, <1>1, <2>1, <2>2 DEF Folded
  <2> QED BY <1>0, <2>3, FoldingSteps
<1>6. \A m \in 1..n : m - 1 \in 0..n /\ m \in 0..n
  OBVIOUS
<1>7. \A m \in 1..n : run[m - 1] \in V /\ run[m] = (add(run[m - 1], w[m][1], w[m][2]))
  <2> HIDE DEF step, V, n
  <2> QED BY <1>1, <1>5, <1>6 DEF Steps
<1>8. /\ run \in [0..n -> V] /\ run[0] = base
      /\ FoldLeft(LAMBDA st, m : add(st, m[1], m[2]), base, w) = run[n]
  <2> HIDE DEF step, V, n, Is
  <2> QED BY <1>4, <1>5 DEF Steps
<1>9. SendMessages(p, w) = [p EXCEPT !.store = run[n]]
  BY <1>8 DEF SendMessages
<1> QED BY <1>7, <1>8, <1>9

\* FlattenSeq appends part after part.
LEMMA FlattenRun ==
  ASSUME NEW X, NEW w \in Seq(Seq(X))
  PROVE  \E run : /\ run \in [0..Len(w) -> Seq(X)] /\ run[0] = <<>>
                  /\ \A m \in 1..Len(w) : run[m] = run[m - 1] \o w[m]
                  /\ FlattenSeq(w) = run[Len(w)]
<1> DEFINE n == Len(w)
           V == Seq(X)
           step == [m \in 1..n |-> [v \in V |-> v \o w[m]]]
           Is(f) == f = [i \in 1..n |-> IF i = 1 THEN w[i] ELSE f[i - 1] \o w[i]]
<1>0. n \in Nat /\ DOMAIN w = 1..n /\ <<>> \in V /\ \A m \in 1..n : w[m] \in V
  OBVIOUS
<1>1. \A m \in 1..n, v \in V : step[m][v] = v \o w[m] /\ step[m][v] \in V
  OBVIOUS
<1>2. PICK g : Folding(g, n, V, <<>>, step)
  <2> HIDE DEF step, V, n
  <2> QED BY <1>0, <1>1, FoldingExists
<1>3. PICK run : Steps(run, n, V, <<>>, step)
  <2> HIDE DEF step, V, n
  <2>1. {} \in SUBSET (1..n)
    OBVIOUS
  <2>2. Folded(g, n, V, <<>>, step)
    BY <1>0, <1>1, <1>2, <2>1 DEF Folded, Folding
  <2> QED BY <1>0, <2>2, FoldingSteps
<1>4. \A m \in 1..n : m - 1 \in 0..n /\ m \in 0..n /\ (m # 1 => m - 1 \in 1..n)
  OBVIOUS
<1>5. /\ run \in [0..n -> V] /\ run[0] = <<>>
      /\ \A m \in 1..n : run[m] = run[m - 1] \o w[m]
  <2> HIDE DEF step, V, n
  <2> QED BY <1>1, <1>3, <1>4 DEF Steps
<1>6. Is([i \in 1..n |-> run[i]])
  <2> HIDE DEF step
  <2>1. ASSUME NEW i \in 1..n
        PROVE  run[i] = IF i = 1 THEN w[i] ELSE run[i - 1] \o w[i]
    <3>1. CASE i = 1
      <4>1. run[1] = <<>> \o w[1] /\ w[1] \in Seq(X)
        BY SMTT(60), <1>0, <1>5, <3>1
      <4> QED BY <3>1, <4>1
    <3>2. CASE i # 1
      BY <1>5, <3>2
    <3> QED BY <3>1, <3>2
  <2> HIDE DEF n, V
  <2>2. \A i \in 1..n : i # 1 => [j \in 1..n |-> run[j]][i - 1] = run[i - 1]
    BY <1>4
  <2> QED BY <2>1, <2>2
<1>7. PICK f : Is(f) /\ (n # 0 => FlattenSeq(w) = f[n])
  <2>1. Is(CHOOSE f : Is(f))
    <3> HIDE DEF Is
    <3> QED BY <1>6
  <2>2. n # 0 => FlattenSeq(w) = (CHOOSE f : Is(f))[n]
    BY DEF FlattenSeq
  <2> HIDE DEF Is
  <2> QED BY <2>1, <2>2
<1> DEFINE C == {m \in 0..n : m # 0 => f[m] = run[m]}
<1>8. 0 \in C
  BY <1>0
<1>9. ASSUME NEW m \in 1..n, m - 1 \in C PROVE m \in C
  <2>1. f[m] = IF m = 1 THEN w[m] ELSE f[m - 1] \o w[m]
    BY <1>7
  <2>2. [i \in 1..n |-> run[i]][m] =
          IF m = 1 THEN w[m] ELSE [i \in 1..n |-> run[i]][m - 1] \o w[m]
    BY <1>6
  <2>3. m # 1 => m - 1 \in 1..n /\ m - 1 # 0
    OBVIOUS
  <2> HIDE DEF n
  <2>4. m # 1 => [i \in 1..n |-> run[i]][m - 1] = f[m - 1]
    BY <1>9, <2>3
  <2>5. m \in 0..n
    BY <1>4
  <2> QED BY <2>1, <2>2, <2>4, <2>5
<1>10. n \in C
  <2> HIDE DEF C, step, n, V
  <2> QED BY <1>0, <1>3, <1>8, <1>9, StepsInduction
<1>11. n = 0 => FlattenSeq(w) = <<>>
  BY DEF FlattenSeq
<1>12. FlattenSeq(w) = run[n]
  <2> HIDE DEF Is, step, V
  <2> QED BY <1>5, <1>7, <1>10, <1>11
<1> QED BY <1>5, <1>12

-----------------------------------------------------------------------------
(* Sequences of messages in order *)

LEMMA CarriesNone ==
  ASSUME NEW w, NEW s, NEW a \in Nat, \A i \in DOMAIN w : ~ IsData(w[i], s)
  PROVE  Carries(w, s, a, a)
BY DEF Carries

LEMMA ConcatPositions ==
  ASSUME NEW X, NEW w \in Seq(X), NEW v \in Seq(X)
  PROVE  /\ Len(w) \in Nat /\ Len(v) \in Nat /\ w \o v \in Seq(X)
         /\ DOMAIN w = 1..Len(w) /\ DOMAIN v = 1..Len(v)
         /\ DOMAIN (w \o v) = 1..(Len(w) + Len(v))
         /\ \A i \in 1..Len(w) : (w \o v)[i] = w[i] /\ i \in 1..(Len(w) + Len(v))
         /\ \A i \in 1..Len(v) : /\ (w \o v)[Len(w) + i] = v[i]
                                 /\ Len(w) + i \in 1..(Len(w) + Len(v))
         /\ \A i \in 1..(Len(w) + Len(v)) :
              \/ i \in 1..Len(w) /\ (w \o v)[i] = w[i]
              \/ i > Len(w) /\ i - Len(w) \in 1..Len(v) /\ (w \o v)[i] = v[i - Len(w)]
<1>1. /\ Len(w) \in Nat /\ Len(v) \in Nat /\ w \o v \in Seq(X)
      /\ DOMAIN w = 1..Len(w) /\ DOMAIN v = 1..Len(v)
      /\ DOMAIN (w \o v) = 1..(Len(w) + Len(v))
  OBVIOUS
<1>2. \A i \in 1..Len(w) : (w \o v)[i] = w[i] /\ i \in 1..(Len(w) + Len(v))
  OBVIOUS
<1>3. \A i \in 1..Len(v) : /\ (w \o v)[Len(w) + i] = v[i]
                           /\ Len(w) + i \in 1..(Len(w) + Len(v))
  OBVIOUS
<1>4. ASSUME NEW i \in 1..(Len(w) + Len(v))
      PROVE  \/ i \in 1..Len(w) /\ (w \o v)[i] = w[i]
             \/ i > Len(w) /\ i - Len(w) \in 1..Len(v) /\ (w \o v)[i] = v[i - Len(w)]
  <2>1. i \in 1..Len(w) \/ (i > Len(w) /\ i - Len(w) \in 1..Len(v))
    BY <1>1
  <2>2. i - Len(w) \in 1..Len(v) => Len(w) + (i - Len(w)) = i
    BY <1>1
  <2>3. i - Len(w) \in 1..Len(v) => (w \o v)[i] = v[i - Len(w)]
    BY <1>3, <2>2
  <2> QED BY <1>2, <2>1, <2>3
<1> QED BY <1>1, <1>2, <1>3, <1>4

LEMMA CarriesConcat ==
  ASSUME NEW X, NEW w \in Seq(X), NEW v \in Seq(X), NEW s,
         NEW a \in Nat, NEW b \in Nat, NEW c \in Nat, a <= b, b <= c,
         Carries(w, s, a, b), Carries(v, s, b, c)
  PROVE  Carries(w \o v, s, a, c)
<1> DEFINE u == w \o v
           k == Len(w)
           l == Len(v)
<1>1. /\ k \in Nat /\ l \in Nat /\ DOMAIN u = 1..(k + l) /\ DOMAIN w = 1..k /\ DOMAIN v = 1..l
      /\ \A i \in 1..k : u[i] = w[i] /\ i \in 1..(k + l)
      /\ \A i \in 1..l : u[k + i] = v[i] /\ k + i \in 1..(k + l)
      /\ \A i \in 1..(k + l) :
           \/ i \in 1..k /\ u[i] = w[i]
           \/ i > k /\ i - k \in 1..l /\ u[i] = v[i - k]
  BY ZenonT(60), ConcatPositions
<1> HIDE DEF u, k, l
<1>2. /\ \A i \in 1..k : IsData(w[i], s) => w[i].n \in (a + 1)..b
      /\ \A i \in 1..l : IsData(v[i], s) => v[i].n \in (b + 1)..c
      /\ \A n \in (a + 1)..b : \E i \in 1..k : IsData(w[i], s) /\ w[i].n = n
      /\ \A n \in (b + 1)..c : \E i \in 1..l : IsData(v[i], s) /\ v[i].n = n
      /\ \A i, j \in 1..k : IsData(w[i], s) /\ IsData(w[j], s) /\ i < j => w[i].n < w[j].n
      /\ \A i, j \in 1..l : IsData(v[i], s) /\ IsData(v[j], s) /\ i < j => v[i].n < v[j].n
  BY <1>1 DEF Carries
<1>3. ASSUME NEW i \in 1..(k + l), IsData(u[i], s)
      PROVE  u[i].n \in (a + 1)..c
  <2>1. CASE i \in 1..k /\ u[i] = w[i]
    <3>1. w[i].n \in (a + 1)..b
      BY <1>2, <1>3, <2>1
    <3> QED BY <2>1, <3>1
  <2>2. CASE i - k \in 1..l /\ u[i] = v[i - k]
    <3>1. v[i - k].n \in (b + 1)..c
      BY <1>2, <1>3, <2>2
    <3> QED BY <2>2, <3>1
  <2> QED BY <1>1, <2>1, <2>2
<1>4. ASSUME NEW n \in (a + 1)..c
      PROVE  \E i \in 1..(k + l) : IsData(u[i], s) /\ u[i].n = n
  <2>1. CASE n \in (a + 1)..b
    <3> PICK i \in 1..k : IsData(w[i], s) /\ w[i].n = n
      BY <1>2, <2>1
    <3> QED BY <1>1
  <2>2. CASE n \in (b + 1)..c
    <3> PICK i \in 1..l : IsData(v[i], s) /\ v[i].n = n
      BY <1>2, <2>2
    <3>1. k + i \in 1..(k + l) /\ u[k + i] = v[i]
      BY <1>1
    <3> QED BY <3>1
  <2> QED BY <2>1, <2>2
<1>5. ASSUME NEW i \in 1..(k + l), NEW j \in 1..(k + l),
             IsData(u[i], s), IsData(u[j], s), i < j
      PROVE  u[i].n < u[j].n
  <2>1. CASE i \in 1..k /\ u[i] = w[i] /\ j \in 1..k /\ u[j] = w[j]
    BY <1>2, <1>5, <2>1
  <2>2. CASE i \in 1..k /\ u[i] = w[i] /\ j - k \in 1..l /\ u[j] = v[j - k]
    <3>1. w[i].n \in (a + 1)..b /\ v[j - k].n \in (b + 1)..c
      BY <1>2, <1>5, <2>2
    <3> QED BY SMTT(60), <2>2, <3>1
  <2>3. CASE /\ i > k /\ i - k \in 1..l /\ u[i] = v[i - k]
             /\ j - k \in 1..l /\ u[j] = v[j - k]
    <3>1. i - k < j - k
      BY <1>1, <1>5
    <3> QED BY <1>2, <1>5, <2>3, <3>1
  <2>4. CASE i > k /\ j \in 1..k
    BY <1>1, <1>5, <2>4
  <2> QED BY <1>1, <2>1, <2>2, <2>3, <2>4
<1> QED BY <1>1, <1>3, <1>4, <1>5 DEF Carries, u

LEMMA CarriesAppend ==
  ASSUME NEW X, NEW w \in Seq(X), NEW x \in X, NEW s, NEW a \in Nat, NEW b \in Nat, a <= b,
         Carries(w, s, a, b)
  PROVE  /\ ~ IsData(x, s) => Carries(Append(w, x), s, a, b)
         /\ IsData(x, s) /\ x.n = b + 1 => Carries(Append(w, x), s, a, b + 1)
<1> DEFINE v == <<x>>
<1>1. DOMAIN v = {1} /\ v[1] = x /\ v \in Seq(X) /\ Append(w, x) = w \o v
  OBVIOUS
<1> HIDE DEF v
<1>2. ASSUME ~ IsData(x, s) PROVE Carries(Append(w, x), s, a, b)
  <2>1. Carries(v, s, b, b)
    BY <1>1, <1>2, CarriesNone
  <2>2. b <= b
    OBVIOUS
  <2> QED BY <1>1, <2>1, <2>2, CarriesConcat
<1>3. ASSUME IsData(x, s), x.n = b + 1 PROVE Carries(Append(w, x), s, a, b + 1)
  <2>1. Carries(v, s, b, b + 1)
    BY <1>1, <1>3 DEF Carries
  <2>2. b <= b + 1 /\ b + 1 \in Nat
    OBVIOUS
  <2> QED BY <1>1, <2>1, <2>2, CarriesConcat
<1> QED BY <1>2, <1>3

LEMMA CarriesTail ==
  ASSUME NEW X, NEW w \in Seq(X), w # <<>>, NEW s, NEW a \in Nat, NEW b \in Nat,
         a <= b, Carries(w, s, a, b)
  PROVE  IF IsData(Head(w), s)
         THEN Head(w).n = a + 1 /\ a < b /\ Carries(Tail(w), s, a + 1, b)
         ELSE Carries(Tail(w), s, a, b)
<1> DEFINE v == Tail(w)
           l == Len(w)
<1>1. /\ l \in Nat \ {0} /\ DOMAIN w = 1..l /\ Head(w) = w[1] /\ DOMAIN v = 1..(l - 1)
      /\ \A i \in 1..(l - 1) : v[i] = w[i + 1] /\ i + 1 \in 1..l
      /\ \A i \in 1..l : i = 1 \/ (i - 1 \in 1..(l - 1) /\ w[i] = v[i - 1])
  <2>1. /\ l \in Nat \ {0} /\ DOMAIN w = 1..l /\ Head(w) = w[1] /\ DOMAIN v = 1..(l - 1)
        /\ \A i \in 1..(l - 1) : v[i] = w[i + 1]
    OBVIOUS
  <2> HIDE DEF v, l
  <2>2. \A i \in 1..(l - 1) : i + 1 \in 1..l
    BY <2>1
  <2>3. \A i \in 1..l : i = 1 \/ (i - 1 \in 1..(l - 1) /\ (i - 1) + 1 = i)
    BY <2>1
  <2> QED BY <2>1, <2>2, <2>3
<1> HIDE DEF v, l
<1>2. /\ \A i \in 1..l : IsData(w[i], s) => w[i].n \in (a + 1)..b
      /\ \A n \in (a + 1)..b : \E i \in 1..l : IsData(w[i], s) /\ w[i].n = n
      /\ \A i, j \in 1..l : IsData(w[i], s) /\ IsData(w[j], s) /\ i < j => w[i].n < w[j].n
  BY <1>1 DEF Carries
<1>3. \A i, j \in 1..(l - 1) :
        IsData(v[i], s) /\ IsData(v[j], s) /\ i < j => v[i].n < v[j].n
  <2> SUFFICES ASSUME NEW i \in 1..(l - 1), NEW j \in 1..(l - 1),
                      IsData(v[i], s), IsData(v[j], s), i < j
               PROVE  v[i].n < v[j].n
    OBVIOUS
  <2>1. i + 1 < j + 1 /\ i + 1 \in 1..l /\ j + 1 \in 1..l
    BY <1>1
  <2> QED BY <1>1, <1>2, <2>1
<1>4. CASE IsData(w[1], s)
  <2>1. 1 \in 1..l /\ w[1].n \in (a + 1)..b
    BY <1>1, <1>2, <1>4
  <2>2. a + 1 \in (a + 1)..b
    BY <2>1
  <2> PICK i \in 1..l : IsData(w[i], s) /\ w[i].n = a + 1
    BY <1>2, <2>2
  <2>3. w[1].n = a + 1
    <3>1. CASE i = 1
      BY <3>1
    <3>2. CASE i # 1
      <4>1. 1 < i
        BY <3>2
      <4>2. w[1].n < a + 1
        BY <1>2, <1>4, <2>1, <4>1
      <4> QED BY <2>1, <4>2
    <3> QED BY <3>1, <3>2
  <2>4. ASSUME NEW j \in 1..(l - 1), IsData(v[j], s) PROVE v[j].n \in ((a + 1) + 1)..b
    <3>1. j + 1 \in 1..l /\ v[j] = w[j + 1] /\ 1 < j + 1
      BY <1>1
    <3>2. w[j + 1].n \in (a + 1)..b /\ w[1].n < w[j + 1].n
      BY <1>2, <1>4, <2>1, <2>4, <3>1
    <3> QED BY <2>3, <3>1, <3>2
  <2>5. ASSUME NEW n \in ((a + 1) + 1)..b
        PROVE  \E j \in 1..(l - 1) : IsData(v[j], s) /\ v[j].n = n
    <3>1. n \in (a + 1)..b /\ n # a + 1
      OBVIOUS
    <3> PICK j \in 1..l : IsData(w[j], s) /\ w[j].n = n
      BY <1>2, <3>1
    <3>2. j # 1
      BY <2>3, <3>1
    <3>3. j - 1 \in 1..(l - 1) /\ w[j] = v[j - 1]
      BY <1>1, <3>2
    <3> QED BY <3>3
  <2>6. Carries(v, s, a + 1, b)
    BY <1>1, <1>3, <2>4, <2>5 DEF Carries
  <2> QED BY <1>1, <1>4, <2>1, <2>3, <2>6 DEF v
<1>5. CASE ~ IsData(w[1], s)
  <2>1. ASSUME NEW n \in (a + 1)..b
        PROVE  \E j \in 1..(l - 1) : IsData(v[j], s) /\ v[j].n = n
    <3> PICK j \in 1..l : IsData(w[j], s) /\ w[j].n = n
      BY <1>2
    <3>1. j - 1 \in 1..(l - 1) /\ w[j] = v[j - 1]
      BY <1>1, <1>5
    <3> QED BY <3>1
  <2>2. Carries(v, s, a, b)
    BY ZenonT(60), <1>1, <1>2, <1>3, <2>1 DEF Carries
  <2> QED BY <1>1, <1>5, <2>2 DEF v
<1> QED BY <1>4, <1>5

LEMMA CarriesPrefix ==
  ASSUME NEW X, NEW w \in Seq(X), NEW s, NEW a \in Nat, NEW b \in Nat, a <= b,
         Carries(w, s, a, b), NEW k \in 0..Len(w)
  PROVE  /\ \E c \in a..b : Carries(SubSeq(w, 1, k), s, a, c)
         /\ (\A i \in DOMAIN w : IsData(w[i], s) => i <= k) =>
              Carries(SubSeq(w, 1, k), s, a, b)
<1> DEFINE l == Len(w)
           v == SubSeq(w, 1, k)
<1>1. l \in Nat /\ DOMAIN w = 1..l /\ k \in 0..l /\ DOMAIN v = 1..k
  OBVIOUS
<1>2. \A i \in 1..k : v[i] = w[i] /\ i \in 1..l
  OBVIOUS
<1> HIDE DEF l, v
<1>3. /\ \A i \in 1..l : IsData(w[i], s) => w[i].n \in (a + 1)..b
      /\ \A n \in (a + 1)..b : \E i \in 1..l : IsData(w[i], s) /\ w[i].n = n
      /\ \A i, j \in 1..l : IsData(w[i], s) /\ IsData(w[j], s) /\ i < j => w[i].n < w[j].n
  BY <1>1 DEF Carries
<1>4. \A i, j \in 1..k :
        IsData(v[i], s) /\ IsData(v[j], s) /\ i < j => v[i].n < v[j].n
  BY <1>2, <1>3
<1>5. ASSUME \A i \in DOMAIN w : IsData(w[i], s) => i <= k
      PROVE  Carries(v, s, a, b)
  <2>1. ASSUME NEW n \in (a + 1)..b PROVE \E i \in 1..k : IsData(v[i], s) /\ v[i].n = n
    <3> PICK i \in 1..l : IsData(w[i], s) /\ w[i].n = n
      BY <1>3
    <3>1. i \in 1..k
      BY <1>1, <1>5
    <3> QED BY <1>2, <3>1
  <2>2. \A i \in 1..k : IsData(v[i], s) => v[i].n \in (a + 1)..b
    BY <1>2, <1>3
  <2>3. DOMAIN v = 1..k
    BY <1>1
  <2> QED BY ONLY <1>4, <2>1, <2>2, <2>3 DEF Carries
<1> DEFINE T == {v[i].n : i \in {j \in 1..k : IsData(v[j], s)}}
<1>6. T \subseteq (a + 1)..b /\ T \subseteq 1..b
  BY SMTT(60), <1>2, <1>3
<1>7. CASE T = {}
  <2>1. \A i \in 1..k : ~ IsData(v[i], s)
    BY <1>7
  <2>2. Carries(v, s, a, a)
    BY <1>1, <2>1, CarriesNone
  <2>3. a \in a..b
    OBVIOUS
  <2> QED BY <1>5, <2>2, <2>3 DEF v
<1>8. CASE T # {}
  <2> DEFINE c == Max(T)
  <2>1. c \in T /\ \A n \in T : n <= c
    <3> HIDE DEF T
    <3> QED BY <1>6, <1>8, MaxExists
  <2>2. PICK m \in 1..k : IsData(v[m], s) /\ v[m].n = c
    BY <2>1
  <2>3. \A i \in 1..k : IsData(v[i], s) => v[i].n \in T
    OBVIOUS
  <2>4. c \in (a + 1)..b
    BY <1>6, <2>1
  <2> HIDE DEF c, T
  <2>5. ASSUME NEW i \in 1..k, IsData(v[i], s) PROVE v[i].n \in (a + 1)..c
    <3>1. v[i].n \in T
      BY <2>3, <2>5
    <3>2. v[i].n \in (a + 1)..b /\ v[i].n <= c
      BY <1>6, <2>1, <3>1
    <3> QED BY <2>4, <3>2
  <2>6. ASSUME NEW n \in (a + 1)..c PROVE \E i \in 1..k : IsData(v[i], s) /\ v[i].n = n
    <3>1. n \in (a + 1)..b
      BY <2>4
    <3> PICK i \in 1..l : IsData(w[i], s) /\ w[i].n = n
      BY <1>3, <3>1
    <3>2. m \in 1..l /\ IsData(w[m], s) /\ w[m].n = c /\ n <= c
      BY <1>2, <2>2
    <3>3. ~ (m < i)
      <4> SUFFICES ASSUME m < i PROVE FALSE
        OBVIOUS
      <4>1. w[m].n < w[i].n
        BY <1>3, <3>2
      <4> QED BY <2>4, <3>2, <4>1
    <3>4. i \in 1..k
      BY <1>1, <3>3
    <3> QED BY <1>2, <3>4
  <2>7. Carries(v, s, a, c)
    BY <1>1, <1>4, <2>5, <2>6 DEF Carries
  <2>8. c \in a..b
    BY <2>4
  <2> QED BY <1>5, <2>7, <2>8 DEF v
<1> QED BY <1>7, <1>8

\* What is added to the queue takes up where the queue ends.
LEMMA MessagesFlow ==
  ASSUME NEW e \in End, NEW p, p.store \in Stores(e), NEW w \in Seq(Sid \X (1..MaxSent[e])),
         \A i \in DOMAIN w : w[i][1] \in DOMAIN p.store
  PROVE  \E st \in Stores(e) :
           /\ SendMessages(p, w) = [p EXCEPT !.store = st]
           /\ DOMAIN st = DOMAIN p.store
           /\ \A s \in Sid, t, q, r \in Nat :
                t <= q /\ q <= r /\ Queues(p.store, s, t, q) /\ Carries(AsData(w), s, q, r) =>
                  Queues(st, s, t, r)
<1> DEFINE l == Len(w)
           V == {st \in Stores(e) : DOMAIN st = DOMAIN p.store}
<1>1. PICK run :
        /\ run \in [0..l -> V]
        /\ run[0] = p.store
        /\ \A m \in 1..l : run[m] = add(run[m - 1], w[m][1], w[m][2])
        /\ SendMessages(p, w) = [p EXCEPT !.store = run[l]]
  BY MessagesRun
<1>2. /\ l \in Nat /\ DOMAIN w = 1..l
      /\ \A i \in 1..l : w[i][1] \in Sid /\ w[i][1] \in DOMAIN p.store /\ w[i][2] \in 1..MaxSent[e]
  <2>1. \A i \in 1..l : w[i] \in Sid \X (1..MaxSent[e])
    OBVIOUS
  <2> QED BY <2>1
<1>3. \A m \in 0..l : run[m] \in Stores(e) /\ DOMAIN run[m] = DOMAIN p.store
  BY <1>1
<1>4. ASSUME NEW s \in Sid, NEW t \in Nat, NEW q \in Nat, NEW r \in Nat, t <= q, q <= r,
             Queues(p.store, s, t, q), Carries(AsData(w), s, q, r)
      PROVE  Queues(run[l], s, t, r)
  <2> DEFINE Past(m, b)   == \A i \in 1..l : w[i][1] = s /\ i <= m => w[i][2] <= b
             Future(m, b) == \A i \in 1..l : w[i][1] = s /\ i > m => w[i][2] > b
             Good(m) == \E b \in q..r : /\ Queues(run[m], s, t, b)
                                        /\ Past(m, b) /\ Future(m, b)
             N == {m \in Nat : m <= l => Good(m)}
  <2>1. /\ \A i \in 1..l : w[i][1] = s => w[i][2] \in (q + 1)..r
        /\ \A n \in (q + 1)..r : \E i \in 1..l : w[i][1] = s /\ w[i][2] = n
        /\ \A i, j \in 1..l : w[i][1] = s /\ w[j][1] = s /\ i < j => w[i][2] < w[j][2]
    <3> DEFINE v == AsData(w)
    <3>1. DOMAIN v = 1..l
      BY <1>2 DEF AsData
    <3>2. \A i \in 1..l : (IsData(v[i], s) <=> w[i][1] = s) /\ v[i].n = w[i][2]
      BY <1>2 DEF AsData, IsData
    <3> HIDE DEF v
    <3>3. Carries(v, s, q, r)
      BY <1>4 DEF v
    <3>4. /\ \A i \in 1..l : IsData(v[i], s) => v[i].n \in (q + 1)..r
          /\ \A n \in (q + 1)..r : \E i \in 1..l : IsData(v[i], s) /\ v[i].n = n
          /\ \A i, j \in 1..l :
               IsData(v[i], s) /\ IsData(v[j], s) /\ i < j => v[i].n < v[j].n
      BY <3>1, <3>3 DEF Carries
    <3> HIDE DEF l
    <3>5. ASSUME NEW n \in (q + 1)..r PROVE \E i \in 1..l : w[i][1] = s /\ w[i][2] = n
      <4> PICK i \in 1..l : IsData(v[i], s) /\ v[i].n = n
        BY <3>4
      <4> QED BY <3>2
    <3>6. ASSUME NEW i \in 1..l, NEW j \in 1..l, w[i][1] = s, w[j][1] = s, i < j
          PROVE  w[i][2] < w[j][2]
      <4>1. v[i].n < v[j].n
        BY <3>2, <3>4, <3>6
      <4> QED BY <3>2, <4>1
    <3>7. ASSUME NEW i \in 1..l, w[i][1] = s PROVE w[i][2] \in (q + 1)..r
      <4>1. v[i].n \in (q + 1)..r
        BY <3>2, <3>4, <3>7
      <4> QED BY <3>2, <4>1
    <3> QED BY <3>5, <3>6, <3>7
  <2>2. 0 \in N
    <3>1. Queues(run[0], s, t, q) /\ q \in q..r
      BY <1>1, <1>4
    <3>2. Past(0, q) /\ Future(0, q)
      BY <1>2, <2>1
    <3> QED BY <3>1, <3>2
  <2>3. ASSUME NEW k \in Nat, k \in N PROVE k + 1 \in N
    <3> SUFFICES ASSUME k + 1 <= l PROVE Good(k + 1)
      <4> HIDE DEF Good, l
      <4> QED OBVIOUS
    <3> DEFINE m   == k + 1
               old == run[k]
               new == run[m]
               r1  == w[m][1]
               n1  == w[m][2]
    <3>1. m \in 1..l /\ m - 1 = k /\ k \in 0..l /\ m \in 0..l
      BY <1>2
    <3>2. PICK b \in q..r : Queues(old, s, t, b) /\ Past(k, b) /\ Future(k, b)
      BY SMTT(60), <2>3
    <3>3. /\ old \in Stores(e) /\ r1 \in DOMAIN old /\ r1 \in Sid /\ n1 \in 1..MaxSent[e]
          /\ new = add(old, r1, n1)
      BY <1>1, <1>2, <1>3, <3>1
    <3>4. /\ DOMAIN new = DOMAIN old
          /\ new[r1].messages = Append(old[r1].messages, n1)
          /\ new[r1].taken = old[r1].taken
          /\ \A x \in DOMAIN old : x # r1 => new[x] = old[x]
      <4> HIDE DEF old, new, r1, n1
      <4> DEFINE sum == add(old, r1, n1)
      <4>1. /\ DOMAIN sum = DOMAIN old
            /\ sum[r1].messages = Append(old[r1].messages, n1)
            /\ sum[r1].taken = old[r1].taken
            /\ \A x \in DOMAIN old : x # r1 => sum[x] = old[x]
        BY SMTT(60), <3>3, AddFacts
      <4> HIDE DEF sum
      <4>2. new = sum
        BY <3>3 DEF sum
      <4> QED BY <4>1, <4>2
    <3>5. CASE r1 # s
      <4>1. Queues(new, s, t, b)
        <5> HIDE DEF old, new, r1, n1
        <5> QED BY <3>2, <3>4, <3>5 DEF Queues
      <4>2. Past(m, b) /\ Future(m, b)
        <5>1. \A i \in 1..l : i <= m /\ w[i][1] = s => i <= k
          BY <3>1, <3>5
        <5>2. \A i \in 1..l : i > m => i > k
          BY <3>1
        <5> QED BY <3>2, <5>1, <5>2
      <4> QED BY <4>1, <4>2
    <3>6. CASE r1 = s
      <4>1. n1 \in (q + 1)..r /\ n1 > b
        BY <2>1, <3>1, <3>2, <3>6
      <4>2. b + 1 \in (q + 1)..r
        BY <4>1
      <4>3. PICK i \in 1..l : w[i][1] = s /\ w[i][2] = b + 1
        BY <2>1, <4>2
      <4>4. n1 = b + 1
        <5>1. ~ (i <= k)
          BY <3>2, <4>3
        <5>2. CASE i = m
          BY <4>3, <5>2
        <5>3. CASE i > m
          <6>1. n1 < b + 1
            BY <2>1, <3>1, <3>6, <4>3, <5>3
          <6> QED BY <4>1, <6>1
        <5> QED BY <3>1, <5>1, <5>2, <5>3
      <4>5. Queues(new, s, t, b + 1)
        <5> HIDE DEF old, new, r1, n1
        <5> DEFINE mo == old[s].messages
                   mn == new[s].messages
                   g  == Gone(old[s])
        <5>1. /\ s \in DOMAIN old /\ s \in DOMAIN new
              /\ mo \in Seq(1..MaxSent[e]) /\ Len(mo) \in Nat
              /\ mn = Append(mo, b + 1) /\ Gone(new[s]) = g
          BY <3>3, <3>4, <3>6, <4>4, StoreFacts DEF Gone
        <5>2. /\ b = t + Len(mo) - g
              /\ \A j \in DOMAIN mo : j > g => mo[j] = t + j - g
          BY <3>2, <5>1 DEF Queues
        <5>3. g \in Nat
          <6>1. old[s].taken \in Nat /\ FrameCount \in Nat \ {0}
            BY <3>3, <5>1, StoreFacts, ConstantFacts
          <6> QED BY <6>1, DivFacts DEF Gone
        <5> HIDE DEF mo, mn, g
        <5>4. /\ Len(mn) = Len(mo) + 1 /\ DOMAIN mn = 1..(Len(mo) + 1) /\ DOMAIN mo = 1..Len(mo)
              /\ mn[Len(mo) + 1] = b + 1
              /\ \A j \in 1..Len(mo) : mn[j] = mo[j]
          BY <5>1
        <5>5. b + 1 = t + Len(mn) - g
          BY <5>1, <5>2, <5>3, <5>4
        <5>6. \A j \in DOMAIN mn : j > g => mn[j] = t + j - g
          <6> SUFFICES ASSUME NEW j \in DOMAIN mn, j > g PROVE mn[j] = t + j - g
            OBVIOUS
          <6>1. CASE j = Len(mo) + 1
            BY <5>1, <5>2, <5>3, <5>4, <6>1
          <6>2. CASE j \in 1..Len(mo)
            BY <5>2, <5>4, <6>2
          <6> QED BY <5>1, <5>4, <6>1, <6>2
        <5> QED BY <5>1, <5>5, <5>6 DEF Queues, mn, g
      <4>6. Past(m, b + 1)
        <5> SUFFICES ASSUME NEW j \in 1..l, w[j][1] = s, j <= m PROVE w[j][2] <= b + 1
          OBVIOUS
        <5>1. CASE j = m
          BY <4>4, <5>1
        <5>2. CASE j # m
          <6>1. j <= k
            BY <3>1, <5>2
          <6>2. w[j][2] <= b /\ w[j][2] \in (q + 1)..r
            BY <2>1, <3>2, <6>1
          <6> QED BY <6>2
        <5> QED BY <5>1, <5>2
      <4>7. Future(m, b + 1)
        BY <2>1, <3>1, <3>6, <4>4
      <4>8. b + 1 \in q..r
        BY <4>2
      <4> QED BY <4>5, <4>6, <4>7, <4>8
    <3> QED BY <3>5, <3>6
  <2>4. Good(l)
    <3> HIDE DEF Good, l
    <3>1. \A m \in Nat : m \in N
      <4> HIDE DEF N
      <4> QED BY <2>2, <2>3, NatSetInduction
    <3> QED BY <1>2, <3>1
  <2>5. PICK b \in q..r : Queues(run[l], s, t, b) /\ Past(l, b)
    BY <2>4
  <2>6. b = r
    <3>1. CASE r = q
      BY <3>1
    <3>2. CASE r # q
      <4>1. r \in (q + 1)..r
        BY <1>4, <3>2
      <4>2. PICK i \in 1..l : w[i][1] = s /\ w[i][2] = r
        BY <2>1, <4>1
      <4>3. r <= b
        BY <1>2, <2>5, <4>2
      <4> QED BY <4>3
    <3> QED BY <3>1, <3>2
  <2> QED BY <2>5, <2>6
<1>5. l \in 0..l
  BY <1>2
<1> HIDE DEF l, V
<1> QED BY <1>1, <1>3, <1>4, <1>5

(* What a flush takes from the queue *)

LEMMA SidFinite == IsFiniteSet(Sid)
<1>1. End # {}
  <2>1. Cardinality(End) = 2 /\ Cardinality({}) = 0
    BY EndAssumption, FS_EmptySet
  <2> QED BY <2>1
<1> PICK e \in End : TRUE
  BY <1>1
<1> DEFINE d == Peer(e)
           E == {e} \X (1..MaxOpen[e])
           D == {d} \X (1..MaxOpen[d])
<1>2. d \in End /\ \A c \in End : c = e \/ c = d
  BY PeerFacts
<1>3. IsFiniteSet({e}) /\ IsFiniteSet({d})
  BY FS_Singleton
<1>4. MaxOpen[e] \in Nat /\ MaxOpen[d] \in Nat
  BY <1>2, ConstantFacts
<1>5. IsFiniteSet(1..MaxOpen[e]) /\ IsFiniteSet(1..MaxOpen[d])
  <2>1. \A n \in Nat : IsFiniteSet(1..n)
    <3> SUFFICES ASSUME NEW n \in Nat PROVE IsFiniteSet(1..n)
      OBVIOUS
    <3>1. 1 \in Int /\ n \in Int
      OBVIOUS
    <3> QED BY <3>1, FS_Interval
  <2> HIDE DEF d
  <2> QED BY <1>4, <2>1
<1>6. IsFiniteSet(E) /\ IsFiniteSet(D)
  BY <1>3, <1>5, FS_Product
<1>7. IsFiniteSet(E \cup D)
  BY <1>6, FS_Union
<1>8. Sid \subseteq E \cup D
  <2> SUFFICES ASSUME NEW s \in Sid PROVE s \in E \cup D
    OBVIOUS
  <2> PICK c \in End : s \in {c} \X (1..MaxOpen[c])
    BY DEF Sid
  <2> QED BY <1>2
<1> QED BY <1>7, <1>8, FS_Subset

\* A share does not ask for more than there is, and for something unless for all.
Share(si) ==
  {share \in [k : Nat, all : BOOLEAN] :
     /\ share.k <= Left(si)
     /\ IF share.all THEN share.k = Left(si) ELSE share.k > 0}

LEMMA LeftFacts ==
  ASSUME NEW e \in End, NEW si \in SoundInfo(e)
  PROVE  /\ si.messages \in Seq(1..MaxSent[e]) /\ Len(si.messages) \in Nat
         /\ si.taken \in Nat /\ si.taken <= FrameCount * Len(si.messages)
         /\ Left(si) = FrameCount * Len(si.messages) - si.taken /\ Left(si) \in Nat
         /\ Gone(si) \in Nat /\ Gone(si) <= Len(si.messages)
<1>1. /\ si.messages \in Seq(1..MaxSent[e]) /\ si.taken \in Nat
      /\ si.taken <= FrameCount * Len(si.messages)
  BY DEF SoundInfo, Info
<1> DEFINE l == Len(si.messages)
           t == si.taken
           f == FrameCount
           g == t \div f
<1>2. l \in Nat /\ f \in Nat \ {0} /\ t \in Nat /\ t <= f * l
  BY <1>1, ConstantFacts
<1> HIDE DEF l, t, f
<1>3. g \in Nat /\ f * g <= t
  BY <1>2, DivFacts
<1> HIDE DEF g
<1>4. f * l = l * f /\ f * l - t \in Nat
  BY <1>2
<1>5. f * g < f * (l + 1)
  BY <1>2, <1>3
<1>6. g < l + 1
  BY <1>2, <1>3, <1>5, Cancel
<1>7. Left(si) = f * l - t
  BY <1>4 DEF Left, l, f, t
<1> QED BY <1>1, <1>2, <1>3, <1>4, <1>6, <1>7 DEF Gone, g, t, f, l

LEMMA ShareFacts ==
  ASSUME NEW e \in End, NEW st \in Stores(e), NEW s \in DOMAIN st, NEW last,
         NEW share \in IF last THEN LastShare(st, s) ELSE SomeShare(st[s])
  PROVE  share \in Share(st[s])
<1> DEFINE left == Left(st[s])
<1>1. left \in Nat
  BY StoreFacts, LeftFacts
<1>2. ASSUME NEW k \in 1..left, share = [k |-> k, all |-> FALSE] PROVE share \in Share(st[s])
  <2> HIDE DEF left
  <2>1. k \in Nat /\ k <= left /\ k > 0
    BY <1>1
  <2> QED BY <1>2, <2>1 DEF Share, left
<1>3. ASSUME share = [k |-> left, all |-> TRUE] PROVE share \in Share(st[s])
  <2> HIDE DEF left
  <2>1. left <= left
    BY <1>1
  <2> QED BY <1>1, <1>3, <2>1 DEF Share, left
<1>4. CASE share \in SomeShare(st[s])
  <2>1. share \in {[k |-> k, all |-> FALSE] : k \in 1..left} \cup {[k |-> left, all |-> TRUE]}
    BY <1>4 DEF SomeShare
  <2> HIDE DEF left
  <2> QED BY <1>2, <1>3, <2>1
<1>5. CASE share \in LastShare(st, s)
  <2>1. \/ \E k \in 2..left : share = [k |-> k, all |-> FALSE]
        \/ share = [k |-> left, all |-> TRUE]
    BY <1>5 DEF LastShare
  <2>2. \A k \in 2..left : k \in 1..left
    OBVIOUS
  <2> HIDE DEF left
  <2> QED BY <1>2, <1>3, <2>1, <2>2
<1> QED BY <1>4, <1>5

\* The numbers of a share of k frames, of l messages of f frames each, t of them
\* gone: whole messages before and after it, and those before its last frame.
LEMMA Times ==
  ASSUME NEW f \in Nat, NEW x \in Int, NEW y \in Int
  PROVE  /\ f * x \in Int /\ x * f = f * x
         /\ f * (x + 1) = f * x + f /\ f * ((x - y) + 1) = f * x - f * y + f
         /\ f * (x - y) = f * x - f * y
         /\ x <= y => f * x <= f * y
<1>1. f * x \in Int /\ x * f = f * x /\ f * (x + 1) = f * x + f
  OBVIOUS
<1>2. f * (x - y) = f * x - f * y
  OBVIOUS
<1>3. f * ((x - y) + 1) = f * x - f * y + f
  OBVIOUS
<1>4. ASSUME x <= y PROVE f * x <= f * y
  <2>1. y - x \in Nat /\ f * (y - x) \in Nat /\ f * (y - x) = f * y - f * x
    BY <1>4
  <2>2. f * x \in Int /\ f * y \in Int
    OBVIOUS
  <2> QED BY <2>1, <2>2
<1> QED BY <1>1, <1>2, <1>3, <1>4

Counts(f, t, k, l, g, x) ==
  /\ g \in Nat /\ x \in Nat /\ g <= x /\ x <= l
  /\ t + k = f * l => x = l

LEMMA Counting ==
  ASSUME NEW f \in Nat \ {0}, NEW t \in Nat, NEW k \in Nat, NEW l \in Nat, t + k <= f * l
  PROVE  Counts(f, t, k, l, t \div f, (t + k) \div f)
<1> DEFINE at == t + k
           g  == t \div f
           x  == at \div f
<1>1. at \in Nat /\ t <= at /\ at <= f * l
  OBVIOUS
<1> HIDE DEF at
<1>2. g \in Nat /\ f * g <= t
  BY DivFacts
<1>3. x \in Nat /\ f * x <= at /\ at < f * (x + 1)
  BY <1>1, DivFacts
<1> HIDE DEF g, x
<1>4. f * g \in Int /\ f * x \in Int /\ f * l \in Int /\ f * (x + 1) \in Int
      /\ f * (l + 1) = f * l + f
  BY <1>2, <1>3, Times
<1> DEFINE fg == f * g
           fx == f * x
           fl == f * l
           fx1 == f * (x + 1)
           fl1 == f * (l + 1)
<1>5. fg < fx1 /\ fx < fl1
  <2>1. /\ fg \in Int /\ fx \in Int /\ fl \in Int /\ fx1 \in Int /\ fl1 = fl + f
        /\ fg <= t /\ fx <= at /\ at < fx1 /\ at <= fl
    BY <1>1, <1>2, <1>3, <1>4
  <2> HIDE DEF fg, fx, fl, fx1, fl1
  <2> QED BY <1>1, <2>1
<1>6. g < x + 1 /\ x < l + 1
  BY <1>2, <1>3, <1>5, Cancel
<1>7. ASSUME at = f * l PROVE x = l
  <2>1. fl < fx1
    BY <1>3, <1>7
  <2>2. l < x + 1
    BY <1>3, <2>1, Cancel
  <2> QED BY <1>3, <1>6, <2>2
<1>8. g <= x /\ x <= l
  BY <1>2, <1>3, <1>6
<1> QED BY <1>2, <1>3, <1>7, <1>8 DEF Counts, g, x, at

Rests(f, at, l, x, done) ==
  /\ done \in Nat /\ done < l
  /\ at - done * f \in Nat /\ at - done * f <= f * (l - done)
  /\ (at - done * f) \div f = x - done

LEMMA Resting ==
  ASSUME NEW f \in Nat \ {0}, NEW at \in Nat \ {0}, NEW l \in Nat, at <= f * l
  PROVE  Rests(f, at, l, at \div f, (at - 1) \div f)
<1> DEFINE x    == at \div f
           done == (at - 1) \div f
<1>1. x \in Nat /\ f * x <= at /\ at < f * (x + 1)
  BY DivFacts
<1>2. done \in Nat /\ f * done <= at - 1
  <2>1. at - 1 \in Nat
    OBVIOUS
  <2> HIDE DEF done
  <2>2. \A a \in Nat : a \div f \in Nat /\ f * (a \div f) <= a
    BY DivFacts
  <2> QED BY <2>1, <2>2 DEF done
<1> HIDE DEF x, done
<1> DEFINE fd  == f * done
           fx  == f * x
           fl  == f * l
           fx1 == f * (x + 1)
<1>3. /\ fd \in Int /\ fx \in Int /\ fl \in Int /\ fx1 = fx + f /\ done * f = fd
      /\ f * (l - done) = fl - fd
      /\ f * (x - done) = fx - fd /\ f * ((x - done) + 1) = fx - fd + f
  BY <1>1, <1>2, Times
<1>4. fd <= at - 1 /\ fx <= at /\ at < fx1 /\ at <= fl
  BY <1>1, <1>2
<1>5. done < l
  <2>1. fd < fl
    <3> HIDE DEF fd, fl, fx, fx1
    <3> QED BY <1>3, <1>4
  <2> QED BY <1>2, <2>1, Cancel
<1> DEFINE left == at - done * f
           y    == x - done
           fy   == f * y
           fy1  == f * (y + 1)
<1>6. /\ left \in Nat /\ left <= f * (l - done)
      /\ fy <= left /\ left < fy1
  <2>1. left = at - fd /\ f * (l - done) = fl - fd /\ fy = fx - fd /\ fy1 = fx - fd + f
    BY <1>3
  <2> HIDE DEF fd, fx, fl, fx1, left, fy, fy1
  <2>2. left \in Nat /\ left <= fl - fd /\ fy <= left /\ left < fy1
    BY <1>3, <1>4, <2>1
  <2> QED BY <2>1, <2>2
<1>7. y \in Int
  BY <1>1, <1>2
<1>8. y = left \div f
  <2> HIDE DEF y, left
  <2>1. \A a \in Nat, q \in Int : f * q <= a /\ a < f * (q + 1) => q = a \div f
    BY DivFacts
  <2> QED BY <1>6, <1>7, <2>1
<1> QED BY <1>2, <1>5, <1>6, <1>8 DEF Rests, x, done

\* The messages of a share are the next of the queue, which keeps the others.
Keeps(e, si, share, new, c) ==
  /\ c \in Nat /\ Gone(si) + c <= Len(si.messages)
  /\ new \in SoundInfo(e)
  /\ Len(new.messages) - Gone(new) = Len(si.messages) - Gone(si) - c
  /\ \A j \in DOMAIN new.messages : j > Gone(new) =>
       \E i \in DOMAIN si.messages :
         new.messages[j] = si.messages[i] /\ i - Gone(si) - c = j - Gone(new)

LEMMA AfterFacts ==
  ASSUME NEW e \in End, NEW si \in SoundInfo(e), NEW share \in Share(si)
  PROVE  Keeps(e, si, share, After(si, share),
               (si.taken + share.k) \div FrameCount - si.taken \div FrameCount)
<1> DEFINE f == FrameCount
           m == si.messages
           l == Len(m)
           t == si.taken
           k == share.k
           at == t + k
           g == t \div f
           x == at \div f
           c == x - g
<1>1. /\ f \in Nat \ {0} /\ m \in Seq(1..MaxSent[e]) /\ l \in Nat /\ t \in Nat /\ t <= f * l
      /\ Left(si) = f * l - t /\ Gone(si) = g
  BY ConstantFacts, LeftFacts DEF Gone
<1>2. /\ k \in Nat /\ share.all \in BOOLEAN /\ k <= Left(si)
      /\ share.all => k = Left(si)
      /\ ~ share.all => k > 0
  BY DEF Share
<1> HIDE DEF f, l, t, k
<1>3. at \in Nat /\ at <= f * l /\ (share.all => at = f * l) /\ (~ share.all => at # 0)
  <2> DEFINE fl == f * l
  <2>1. fl \in Int
    BY <1>1
  <2>2. Left(si) = fl - t
    BY <1>1
  <2> HIDE DEF fl
  <2>3. t \in Nat /\ k \in Nat /\ k <= fl - t
    BY <1>1, <1>2, <2>2
  <2>4. at \in Nat /\ at <= fl
    <3> HIDE DEF m
    <3> QED BY <2>1, <2>3
  <2>5. ASSUME share.all PROVE at = fl
    <3>1. k = fl - t
      BY <1>2, <2>2, <2>5
    <3> QED BY <2>1, <2>3, <3>1
  <2>6. ASSUME ~ share.all PROVE at # 0
    <3>1. k > 0
      BY <1>2, <2>6
    <3> QED BY <2>3, <3>1
  <2> QED BY <2>4, <2>5, <2>6 DEF fl
<1>4. Counts(f, t, k, l, g, x)
  <2>1. t + k <= f * l /\ f \in Nat \ {0} /\ t \in Nat /\ k \in Nat /\ l \in Nat
    BY <1>1, <1>2, <1>3
  <2> HIDE DEF m
  <2> QED BY <2>1, Counting
<1> HIDE DEF g, x
<1> HIDE DEF g, x
<1>5. g \in Nat /\ x \in Nat /\ c \in Nat /\ g + c = x /\ x <= l /\ (at = f * l => x = l)
  BY <1>1, <1>4 DEF Counts
<1>6. CASE share.all
  <2>1. After(si, share) = Empty
    BY <1>6 DEF After
  <2>2. x = l
    BY <1>3, <1>5, <1>6
  <2>3. Gone(Empty) = 0 /\ Len(Empty.messages) = 0 /\ DOMAIN Empty.messages = {}
    <3>1. Counts(f, 0, 0, 0, 0 \div f, (0 + 0) \div f)
      <4>1. 0 \in Nat /\ 0 + 0 <= f * 0
        BY <1>1
      <4> QED BY <1>1, <4>1, Counting
    <3>2. 0 \div f = 0
      BY <3>1 DEF Counts
    <3> QED BY <3>2 DEF Gone, Empty, f
  <2>4. Empty \in SoundInfo(e)
    <3>1. Len(<<>>) = 0 /\ <<>> \in Seq(1..MaxSent[e]) /\ FrameCount * 0 = 0
      BY ConstantFacts
    <3> QED BY <3>1 DEF SoundInfo, Info, Empty
  <2> DEFINE mE == Empty.messages
             nE == Len(mE)
             gE == Gone(Empty)
  <2>5. nE - gE = l - g - c
    <3> HIDE DEF c, nE, gE
    <3>1. nE = 0 /\ gE = 0
      BY <2>3 DEF nE, gE
    <3> QED BY <1>1, <1>5, <2>2, <3>1
  <2>6. g + c <= l
    BY <1>5
  <2> HIDE DEF c
  <2>7. Keeps(e, si, share, Empty, c)
    BY <1>1, <1>5, <2>3, <2>4, <2>5, <2>6 DEF Keeps, l
  <2> QED BY <2>1, <2>7 DEF c, x, g, t, k, f
<1>7. CASE ~ share.all
  <2> DEFINE done == (at - 1) \div f
             left == at - done * f
             rest == SubSeq(m, done + 1, l)
             new  == [messages |-> rest, taken |-> left]
  <2>1. Rests(f, at, l, x, done)
    <3> HIDE DEF at
    <3>1. at \in Nat \ {0}
      BY <1>3, <1>7
    <3> QED BY <1>1, <1>3, <3>1, Resting DEF x
  <2> HIDE DEF done
  <2>2. /\ done \in Nat /\ done < l /\ left \in Nat /\ left <= f * (l - done)
        /\ left \div f = x - done
    BY <2>1 DEF Rests
  <2>3. After(si, share) = new
    BY <1>7 DEF After, done, l, k, t, f
  <2>4. /\ rest \in Seq(1..MaxSent[e]) /\ Len(rest) = l - done /\ DOMAIN rest = 1..(l - done)
        /\ \A j \in 1..(l - done) : rest[j] = m[done + j] /\ done + j \in DOMAIN m
    <3> HIDE DEF m
    <3>1. DOMAIN m = 1..l /\ l = Len(m) /\ done + 1 \in 1..l /\ l \in 1..l
      BY <1>1, <2>2 DEF l
    <3>2. \A j \in (done + 1)..l : m[j] \in 1..MaxSent[e]
      <4>1. \A j \in (done + 1)..l : j \in 1..Len(m)
        BY <1>1, <2>2, <3>1
      <4>2. \A j \in 1..Len(m) : m[j] \in 1..MaxSent[e]
        <5> DEFINE S == 1..MaxSent[e]
        <5>1. m \in Seq(S)
          BY <1>1
        <5> HIDE DEF S
        <5>2. \A j \in 1..Len(m) : m[j] \in S
          BY <5>1
        <5> QED BY <5>2 DEF S
      <4> QED BY <4>1, <4>2
    <3>3. done + 1 \in Int /\ l \in Int /\ done + 1 <= l /\ l - (done + 1) + 1 = l - done
      BY <1>1, <2>2
    <3>4. /\ rest \in Seq(1..MaxSent[e])
          /\ Len(rest) = IF done + 1 <= l THEN l - (done + 1) + 1 ELSE 0
          /\ \A j \in 1..(l - (done + 1) + 1) : rest[j] = m[(done + 1) + j - 1]
      BY <3>2, <3>3, SubSeqProperties
    <3> HIDE DEF rest
    <3>5. Len(rest) = l - done /\ DOMAIN rest = 1..(l - done)
      BY <3>3, <3>4
    <3>6. ASSUME NEW j \in 1..(l - done) PROVE rest[j] = m[done + j] /\ done + j \in 1..l
      <4>1. done + j \in 1..l /\ (done + 1) + j - 1 = done + j
        BY <1>1, <2>2
      <4> QED BY <3>3, <3>4, <4>1
    <3> QED BY <3>1, <3>4, <3>5, <3>6
  <2> HIDE DEF rest, left, m
  <2>5. new.messages = rest /\ new.taken = left /\ Gone(new) = x - done
    BY <2>2 DEF Gone, f
  <2>6. new \in SoundInfo(e)
    BY <2>2, <2>4 DEF SoundInfo, Info, f
  <2> HIDE DEF new
  <2>7. Len(new.messages) - Gone(new) = l - g - c
    BY <1>1, <1>5, <2>2, <2>4, <2>5
  <2>8. ASSUME NEW j \in DOMAIN new.messages
        PROVE  \E i \in DOMAIN m : new.messages[j] = m[i] /\ i - g - c = j - Gone(new)
    <3>1. j \in 1..(l - done)
      BY <2>4, <2>5, <2>8
    <3>2. new.messages[j] = m[done + j] /\ done + j \in DOMAIN m
      BY <2>4, <2>5, <3>1
    <3>3. (done + j) - g - c = j - Gone(new)
      BY <1>5, <2>2, <2>5, <3>1
    <3> QED BY <3>2, <3>3
  <2>9. g + c <= l
    BY <1>5
  <2> HIDE DEF c
  <2>10. Keeps(e, si, share, new, c)
    BY <1>1, <1>5, <2>6, <2>7, <2>8, <2>9 DEF Keeps, l, m
  <2> QED BY <2>3, <2>10 DEF c, x, g, t, k, f
<1> QED BY <1>6, <1>7

Holds(si, t, q) ==
  /\ q = t + Len(si.messages) - Gone(si)
  /\ \A j \in DOMAIN si.messages :
       j > Gone(si) => si.messages[j] = t + j - Gone(si)

LEMMA ShareFlow ==
  ASSUME NEW e \in End, NEW si \in SoundInfo(e), NEW share \in Share(si), NEW s \in Sid
  PROVE  /\ Completed(s, si, share.k) \in Seq(Datum(e))
         /\ \A i \in DOMAIN Completed(s, si, share.k) : Completed(s, si, share.k)[i].sid = s
         /\ \A t, q \in Nat : t <= q /\ Holds(si, t, q) =>
              \E b \in t..q : /\ Carries(Completed(s, si, share.k), s, t, b)
                              /\ Holds(After(si, share), b, q)
<1> DEFINE m == si.messages
           l == Len(m)
           g == si.taken \div FrameCount
           c == (si.taken + share.k) \div FrameCount - g
           new == After(si, share)
           w == Completed(s, si, share.k)
           S == 1..MaxSent[e]
<1>1. Keeps(e, si, share, new, c)
  BY AfterFacts
<1>2. m \in Seq(S) /\ l \in Nat /\ Gone(si) = g /\ g \in Nat
  BY LeftFacts DEF Gone
<1>3. w = [j \in 1..c |-> [type |-> "Data", sid |-> s, n |-> m[g + j]]]
  BY DEF Completed
<1> HIDE DEF g, c, w
<1>4. /\ c \in Nat /\ g + c <= l
      /\ new \in SoundInfo(e)
      /\ Len(new.messages) - Gone(new) = l - g - c
      /\ \A j \in DOMAIN new.messages : j > Gone(new) =>
           \E i \in DOMAIN m : new.messages[j] = m[i] /\ i - g - c = j - Gone(new)
  BY <1>1, <1>2 DEF Keeps
<1>5. Len(new.messages) \in Nat /\ Gone(new) \in Nat
  BY <1>4, LeftFacts
<1> HIDE DEF new, S
<1>6. DOMAIN m = 1..l /\ \A j \in 1..l : m[j] \in S
  BY <1>2
<1> HIDE DEF m, l
<1>7. \A j \in 1..c : g + j \in 1..l /\ g + j > g
  BY <1>2, <1>4
<1>8. /\ DOMAIN w = 1..c
      /\ \A j \in 1..c : w[j] = [type |-> "Data", sid |-> s, n |-> m[g + j]]
  BY <1>3
<1>9. w \in Seq(Datum(e))
  <2>1. \A j \in 1..c : w[j] \in Datum(e)
    <3> SUFFICES ASSUME NEW j \in 1..c PROVE w[j] \in Datum(e)
      OBVIOUS
    <3>1. m[g + j] \in S
      BY <1>6, <1>7
    <3> QED BY <1>8, <3>1 DEF Datum, S
  <2>2. w = [j \in 1..c |-> w[j]]
    BY <1>3
  <2> QED BY <1>4, <2>1, <2>2, SeqDef
<1>10. \A i \in DOMAIN w : w[i].sid = s
  BY <1>8
<1>11. ASSUME NEW t \in Nat, NEW q \in Nat, t <= q, Holds(si, t, q)
       PROVE  \E b \in t..q : Carries(w, s, t, b) /\ Holds(new, b, q)
  <2>1. q = t + l - g /\ \A j \in 1..l : j > g => m[j] = t + j - g
    BY <1>2, <1>6, <1>11 DEF Holds, m, l
  <2>2. t + c \in t..q
    BY <1>2, <1>4, <2>1
  <2>3. \A j \in 1..c : IsData(w[j], s) /\ w[j].n = t + j
    <3> SUFFICES ASSUME NEW j \in 1..c PROVE IsData(w[j], s) /\ w[j].n = t + j
      OBVIOUS
    <3>1. m[g + j] = t + (g + j) - g
      BY <1>7, <2>1
    <3>2. t + (g + j) - g = t + j
      BY <1>2
    <3> QED BY <1>8, <3>1, <3>2 DEF IsData
  <2>4. Carries(w, s, t, t + c)
    <3>1. \A j \in 1..c : w[j].n \in (t + 1)..(t + c)
      BY <1>4, <2>3
    <3>2. ASSUME NEW n \in (t + 1)..(t + c) PROVE \E i \in 1..c : IsData(w[i], s) /\ w[i].n = n
      <4>1. n - t \in 1..c /\ t + (n - t) = n
        BY <1>4
      <4> QED BY <2>3, <4>1
    <3>3. \A i, j \in 1..c : i < j => w[i].n < w[j].n
      BY <1>4, <2>3
    <3> QED BY <1>8, <3>1, <3>2, <3>3 DEF Carries
  <2>5. Holds(new, t + c, q)
    <3>1. q = (t + c) + Len(new.messages) - Gone(new)
      BY <1>2, <1>4, <1>5, <2>1
    <3>2. ASSUME NEW j \in DOMAIN new.messages, j > Gone(new)
          PROVE  new.messages[j] = (t + c) + j - Gone(new)
      <4>1. PICK i \in 1..l : new.messages[j] = m[i] /\ i - g - c = j - Gone(new)
        BY <1>4, <1>6, <3>2
      <4>2. j \in Nat
        <5>1. new.messages \in Seq(1..MaxSent[e])
          BY <1>4, LeftFacts
        <5> QED BY <5>1
      <4>3. i > g
        BY <1>2, <1>4, <1>5, <3>2, <4>1, <4>2
      <4>4. m[i] = t + i - g
        BY <2>1, <4>3
      <4> QED BY <1>2, <1>4, <1>5, <4>1, <4>2, <4>4
    <3> QED BY <3>1, <3>2 DEF Holds
  <2> QED BY <2>2, <2>4, <2>5
<1> QED BY <1>9, <1>10, <1>11 DEF w, new

Busy(st) == {s \in DOMAIN st : st[s] # Empty}

LEMMA OrderFacts ==
  ASSUME NEW busy \in SUBSET Sid, NEW order \in SetToSeqs(busy)
  PROVE  /\ Cardinality(busy) \in Nat /\ order \in [1..Cardinality(busy) -> busy]
         /\ \A i, j \in 1..Cardinality(busy) : i # j => order[i] # order[j]
         /\ \A s \in busy : \E i \in 1..Cardinality(busy) : order[i] = s
<1> DEFINE n == Cardinality(busy)
<1>1. IsFiniteSet(busy) /\ n \in Nat
  BY SidFinite, FS_Subset, FS_CardinalityType
<1>2. order \in [1..n -> busy] /\ \A i, j \in 1..n : i # j => order[i] # order[j]
  BY DEF SetToSeqs
<1> HIDE DEF n
<1>3. order \in Injection(1..n, busy)
  BY <1>2 DEF Injection, IsInjective
<1>4. IsFiniteSet(1..n) /\ Cardinality(1..n) = n
  <2>1. 1 \in Int /\ n \in Int /\ IF 1 > n THEN n = 0 ELSE n - 1 + 1 = n
    BY <1>1
  <2> QED BY <2>1, FS_Interval
<1>5. order \in Surjection(1..n, busy)
  BY <1>1, <1>3, <1>4, FS_Injection DEF n
<1>6. \A s \in busy : \E i \in 1..n : order[i] = s
  BY <1>5 DEF Surjection
<1> QED BY <1>1, <1>2, <1>6 DEF n

\* A flush takes the next messages of each stream, and leaves the others.
Takes(e, st, new, w) ==
  /\ new \in Stores(e) /\ DOMAIN new = DOMAIN st /\ w \in Seq(Datum(e))
  /\ \A i \in DOMAIN w : w[i].sid \in DOMAIN st
  /\ \A s \in Sid, t, q \in Nat : t <= q /\ Queues(st, s, t, q) =>
       \E b \in t..q : Carries(w, s, t, b) /\ Queues(new, s, b, q)

LEMMA GrabFacts ==
  ASSUME NEW e \in End, NEW st \in Stores(e), NEW last, NEW g \in grab(st, last)
  PROVE  Takes(e, st, g.store, g.frames)
<1> DEFINE busy == Busy(st)
           X == Datum(e)
           Shares(s) == IF last THEN LastShare(st, s) ELSE SomeShare(st[s])
<1> DEFINE Plans == {p \in [busy -> UNION {Shares(s) : s \in busy}] :
                       \A s \in busy : p[s] \in Shares(s)}
           Outcome(p, order) ==
             [store  |-> [s \in DOMAIN st |-> IF s \in busy THEN After(st[s], p[s]) ELSE st[s]],
              frames |-> FlattenSeq([i \in DOMAIN order |->
                           Completed(order[i], st[order[i]], p[order[i]].k)])]
<1>1. PICK p \in Plans, order \in SetToSeqs(busy) : g = Outcome(p, order)
  <2>1. grab(st, last) = {Outcome(p, order) : p \in Plans, order \in SetToSeqs(busy)}
    BY DEF grab, Busy
  <2> HIDE DEF Plans, Outcome, busy
  <2> QED BY <2>1
<1> DEFINE n     == Cardinality(busy)
           parts == [i \in DOMAIN order |-> Completed(order[i], st[order[i]], p[order[i]].k)]
           new   == [s \in DOMAIN st |-> IF s \in busy THEN After(st[s], p[s]) ELSE st[s]]
<1>2. g.store = new /\ g.frames = FlattenSeq(parts)
  BY <1>1
<1>3. DOMAIN st \subseteq Sid /\ busy \subseteq DOMAIN st /\ \A s \in DOMAIN st : st[s] \in SoundInfo(e)
  BY StoreFacts DEF Busy
<1>4. \A s \in busy : p[s] \in Share(st[s])
  <2> SUFFICES ASSUME NEW s \in busy PROVE p[s] \in Share(st[s])
    OBVIOUS
  <2>1. p[s] \in IF last THEN LastShare(st, s) ELSE SomeShare(st[s])
    BY <1>1
  <2>2. s \in DOMAIN st
    BY <1>3
  <2> QED BY <2>1, <2>2, ShareFacts
<1> HIDE DEF Shares, busy
<1>5. /\ n \in Nat /\ order \in [1..n -> busy]
      /\ \A i, j \in 1..n : i # j => order[i] # order[j]
      /\ \A s \in busy : \E i \in 1..n : order[i] = s
  <2>1. busy \in SUBSET Sid
    BY <1>3
  <2> QED BY <1>1, <2>1, OrderFacts
<1> HIDE DEF n
<1>6. /\ DOMAIN parts = 1..n
      /\ \A i \in 1..n : parts[i] = Completed(order[i], st[order[i]], p[order[i]].k)
  BY <1>5
<1> HIDE DEF parts
<1>7. \A s \in busy :
        /\ s \in Sid /\ s \in DOMAIN st /\ st[s] \in SoundInfo(e)
        /\ Completed(s, st[s], p[s].k) \in Seq(X)
        /\ \A i \in DOMAIN Completed(s, st[s], p[s].k) : Completed(s, st[s], p[s].k)[i].sid = s
        /\ \A t, q \in Nat : t <= q /\ Holds(st[s], t, q) =>
             \E b \in t..q : /\ Carries(Completed(s, st[s], p[s].k), s, t, b)
                             /\ Holds(After(st[s], p[s]), b, q)
  <2> SUFFICES ASSUME NEW s \in busy
        PROVE
        /\ s \in Sid /\ s \in DOMAIN st /\ st[s] \in SoundInfo(e)
        /\ Completed(s, st[s], p[s].k) \in Seq(X)
        /\ \A i \in DOMAIN Completed(s, st[s], p[s].k) : Completed(s, st[s], p[s].k)[i].sid = s
        /\ \A t, q \in Nat : t <= q /\ Holds(st[s], t, q) =>
             \E b \in t..q : /\ Carries(Completed(s, st[s], p[s].k), s, t, b)
                             /\ Holds(After(st[s], p[s]), b, q)
    BY Zenon
  <2> DEFINE si == st[s]
             share == p[s]
  <2>1. s \in Sid /\ s \in DOMAIN st /\ si \in SoundInfo(e) /\ share \in Share(si)
    BY <1>3, <1>4
  <2> HIDE DEF si, share
  <2>2. /\ Completed(s, si, share.k) \in Seq(Datum(e))
        /\ \A i \in DOMAIN Completed(s, si, share.k) : Completed(s, si, share.k)[i].sid = s
        /\ \A t, q \in Nat : t <= q /\ Holds(si, t, q) =>
              \E b \in t..q : /\ Carries(Completed(s, si, share.k), s, t, b)
                              /\ Holds(After(si, share), b, q)
    BY <2>1, ShareFlow
  <2> QED BY <2>1, <2>2 DEF si, share
<1>8. new \in Stores(e) /\ DOMAIN new = DOMAIN st
  <2>1. \A s \in DOMAIN st : new[s] \in SoundInfo(e)
    <3> SUFFICES ASSUME NEW s \in DOMAIN st PROVE new[s] \in SoundInfo(e)
      OBVIOUS
    <3>1. CASE s \in busy
      <4> DEFINE si == st[s]
                 share == p[s]
      <4>1. si \in SoundInfo(e) /\ share \in Share(si) /\ new[s] = After(si, share)
        BY <1>3, <1>4, <3>1
      <4> HIDE DEF si, share, new
      <4>2. \E c : Keeps(e, si, share, After(si, share), c)
        BY <4>1, AfterFacts
      <4> QED BY <4>1, <4>2 DEF Keeps
    <3>2. CASE s \notin busy
      BY <1>3, <3>2
    <3> QED BY <3>1, <3>2
  <2>2. new \in [DOMAIN st -> SoundInfo(e)]
    BY <2>1
  <2>3. DOMAIN st \in SUBSET Sid
    BY <1>3
  <2> QED BY <2>2, <2>3 DEF Stores
<1>9. \A i \in 1..n : parts[i] \in Seq(X) /\ order[i] \in busy
  BY <1>5, <1>6, <1>7
<1>10. parts \in Seq(Seq(X)) /\ Len(parts) = n
  <2> DEFINE V == Seq(X)
  <2>1. parts = [i \in 1..n |-> parts[i]]
    BY <1>6 DEF parts
  <2>2. \A i \in 1..n : parts[i] \in V
    BY <1>9
  <2> HIDE DEF V
  <2>3. parts \in [1..n -> V]
    BY <2>1, <2>2
  <2>4. parts \in Seq(V)
    BY ZenonT(60), <1>5, <2>3, SeqDef
  <2>5. Len(parts) = n
    BY <1>5, <2>3, <2>4
  <2> QED BY <2>4, <2>5 DEF V
<1>11. PICK run :
         /\ run \in [0..n -> Seq(X)] /\ run[0] = <<>>
         /\ \A m \in 1..n : run[m] = run[m - 1] \o parts[m]
         /\ FlattenSeq(parts) = run[n]
  BY <1>10, FlattenRun
<1> HIDE DEF X
<1>12. ASSUME NEW C, 0 \in C, \A m \in 1..n : m - 1 \in C => m \in C PROVE n \in C
  <2> DEFINE step == [m \in 1..n |-> [v \in Seq(X) |-> v \o parts[m]]]
  <2>1. \A m \in 1..n : m - 1 \in 0..n
    BY <1>5
  <2>2. Steps(run, n, Seq(X), <<>>, step)
    BY <1>11, <2>1 DEF Steps
  <2> HIDE DEF step
  <2> QED BY <1>5, <1>12, <2>2, StepsInduction
<1>13. \A m \in 1..n : /\ m - 1 \in 0..n /\ m \in 0..n /\ run[m - 1] \in Seq(X)
                       /\ run[m] = run[m - 1] \o parts[m]
  <2>1. \A m \in 1..n : m - 1 \in 0..n /\ m \in 0..n
    BY <1>5
  <2> QED BY <1>11, <2>1
<1>14. n \in 0..n /\ run[n] \in Seq(X)
  BY <1>5, <1>11
<1>15. \A m \in 1..n : \A i \in DOMAIN parts[m] : parts[m][i].sid = order[m]
  <2> SUFFICES ASSUME NEW m \in 1..n
               PROVE  \A i \in DOMAIN parts[m] : parts[m][i].sid = order[m]
    OBVIOUS
  <2> DEFINE s == order[m]
  <2>1. parts[m] = Completed(s, st[s], p[s].k) /\ s \in busy
    BY <1>6, <1>9
  <2> HIDE DEF s
  <2>2. \A i \in DOMAIN Completed(s, st[s], p[s].k) : Completed(s, st[s], p[s].k)[i].sid = s
    BY <1>7, <2>1
  <2> QED BY <2>1, <2>2 DEF s
<1>16. \A i \in DOMAIN run[n] : run[n][i].sid \in DOMAIN st
  <2> DEFINE Fine(v) == \A i \in DOMAIN v : v[i].sid \in DOMAIN st
             C == {m \in 0..n : Fine(run[m])}
  <2>1. 0 \in C
    BY <1>5, <1>11
  <2>2. ASSUME NEW m \in 1..n, m - 1 \in C PROVE m \in C
    <3> DEFINE v == run[m - 1]
               w == parts[m]
    <3>1. v \in Seq(X) /\ w \in Seq(X) /\ run[m] = v \o w /\ Fine(v) /\ m \in 0..n
      BY <1>9, <1>13, <2>2
    <3>2. Fine(w)
      <4>1. order[m] \in busy /\ \A i \in DOMAIN w : w[i].sid = order[m]
        BY <1>15, <1>9, <2>2
      <4> HIDE DEF w
      <4> QED BY <1>7, <4>1
    <3> HIDE DEF v, w
    <3>3. Fine(v \o w)
      BY SMTT(60), <3>1, <3>2, ConcatPositions
    <3> QED BY <3>1, <3>3
  <2> HIDE DEF C
  <2>3. n \in C
    BY <1>12, <2>1, <2>2
  <2> QED BY <2>3 DEF C
<1>17. ASSUME NEW s \in Sid, NEW t \in Nat, NEW q \in Nat, t <= q, Queues(st, s, t, q)
       PROVE  \E b \in t..q : Carries(run[n], s, t, b) /\ Queues(new, s, b, q)
  <2>1. CASE s \notin busy
    <3> DEFINE C == {m \in 0..n : \A i \in DOMAIN run[m] : run[m][i].sid # s}
    <3>1. 0 \in C
      BY <1>5, <1>11
    <3>2. ASSUME NEW m \in 1..n, m - 1 \in C PROVE m \in C
      <4> DEFINE v == run[m - 1]
                 w == parts[m]
      <4>1. /\ v \in Seq(X) /\ w \in Seq(X) /\ run[m] = v \o w /\ m \in 0..n
            /\ \A i \in DOMAIN v : v[i].sid # s
        BY <1>9, <1>13, <3>2
      <4>2. \A i \in DOMAIN w : w[i].sid # s
        <5>1. order[m] # s
          BY <1>9, <2>1
        <5> QED BY <1>15, <3>2, <5>1
      <4> HIDE DEF v, w
      <4>3. \A i \in DOMAIN (v \o w) : (v \o w)[i].sid # s
        BY SMTT(60), <4>1, <4>2, ConcatPositions
      <4> QED BY <4>1, <4>3
    <3> HIDE DEF C
    <3>3. n \in C
      BY <1>12, <3>1, <3>2
    <3>4. Carries(run[n], s, t, t)
      <4>1. \A i \in DOMAIN run[n] : ~ IsData(run[n][i], s)
        BY <3>3 DEF C, IsData
      <4> QED BY <4>1, CarriesNone
    <3>5. Queues(new, s, t, q)
      <4>1. s \in DOMAIN st => new[s] = st[s]
        BY <2>1
      <4> HIDE DEF new
      <4> QED BY <1>8, <1>17, <4>1 DEF Queues
    <3>6. t \in t..q
      BY <1>17
    <3> QED BY <3>4, <3>5, <3>6
  <2>2. CASE s \in busy
    <3> DEFINE w == Completed(s, st[s], p[s].k)
               after == After(st[s], p[s])
    <3>1. Holds(st[s], t, q)
      BY <1>7, <1>17, <2>2 DEF Queues, Holds
    <3>2. PICK b \in t..q : Carries(w, s, t, b) /\ Holds(after, b, q)
      BY <1>7, <1>17, <2>2, <3>1
    <3>3. Queues(new, s, b, q)
      <4>1. s \in DOMAIN st /\ new[s] = after
        BY <1>7, <2>2
      <4> HIDE DEF new, after
      <4> QED BY <1>8, <3>2, <4>1 DEF Queues, Holds
    <3>4. PICK h \in 1..n : order[h] = s
      BY <1>5, <2>2
    <3> DEFINE C == {m \in 0..n : /\ m < h => Carries(run[m], s, t, t)
                                  /\ m >= h => Carries(run[m], s, t, b)}
    <3>5. 0 \in C
      <4>1. Carries(<<>>, s, t, t)
        BY CarriesNone
      <4>2. 0 \in 0..n /\ 0 < h
        BY <1>5
      <4> HIDE DEF w
      <4> QED BY <1>11, <4>1, <4>2
    <3>6. ASSUME NEW m \in 1..n, m - 1 \in C PROVE m \in C
      <4> DEFINE u == run[m - 1]
                 v == parts[m]
      <4>1. u \in Seq(X) /\ v \in Seq(X) /\ run[m] = u \o v /\ m \in 0..n /\ b \in Nat /\ t <= b
        <5>1. b \in Nat /\ t <= b
          <6> HIDE DEF w, after
          <6> QED OBVIOUS
        <5> QED BY <1>9, <1>13, <3>6, <5>1
      <4>2. ASSUME NEW a \in Nat, a >= t, Carries(u, s, t, a), m # h
            PROVE  Carries(run[m], s, t, a)
        <5>1. order[m] # s
          BY <1>5, <3>4, <4>2
        <5>2. \A i \in DOMAIN v : v[i].sid # s
          BY <1>15, <3>6, <5>1
        <5>3. Carries(v, s, a, a)
          <6>1. \A i \in DOMAIN v : ~ IsData(v[i], s)
            BY <5>2 DEF IsData
          <6> QED BY <6>1, CarriesNone
        <5> HIDE DEF u, v
        <5>4. t <= a /\ a <= a
          BY <4>2
        <5>5. Carries(u \o v, s, t, a)
          BY <4>1, <4>2, <5>3, <5>4, CarriesConcat
        <5> QED BY <4>1, <5>5
      <4>3. CASE m < h
        <5>1. Carries(u, s, t, t) /\ m # h /\ t >= t /\ ~ (m >= h)
          BY <3>6, <4>3
        <5>2. Carries(run[m], s, t, t)
          BY <4>2, <5>1
        <5> QED BY <4>1, <5>1, <5>2
      <4>4. CASE m > h
        <5>1. Carries(u, s, t, b) /\ m # h /\ b >= t /\ ~ (m < h)
          BY <3>6, <4>1, <4>4
        <5>2. Carries(run[m], s, t, b)
          BY <4>1, <4>2, <5>1
        <5> QED BY <4>1, <5>1, <5>2
      <4>5. CASE m = h
        <5>1. Carries(u, s, t, t) /\ ~ (m < h)
          BY <3>6, <4>5
        <5>2. v = w
          BY <1>6, <3>4, <4>5
        <5> HIDE DEF u, v, w
        <5>3. t <= t
          OBVIOUS
        <5>4. Carries(v, s, t, b)
          BY <3>2, <5>2
        <5>5. Carries(u \o v, s, t, b)
          BY <4>1, <5>1, <5>3, <5>4, CarriesConcat
        <5> QED BY <4>1, <5>1, <5>5
      <4> QED BY <4>3, <4>4, <4>5
    <3> HIDE DEF C
    <3>7. n \in C
      BY <1>12, <3>5, <3>6
    <3>8. Carries(run[n], s, t, b)
      <4>1. n >= h
        BY <1>5
      <4> QED BY <3>7, <4>1 DEF C
    <3> QED BY <3>3, <3>8
  <2> QED BY <2>1, <2>2
<1> QED BY <1>2, <1>8, <1>11, <1>14, <1>16, <1>17 DEF Takes, X

Situation(e) == [store : Stores(e), closing : Seq(Sid), out : Seq(Frame(e))]

\* From p to q a send_mgr that may close the streams C writes x.
Tells(p, q, x, C) ==
  /\ \A i \in DOMAIN x : x[i].type \in {"Data", "Close"} /\ x[i].sid \in DOMAIN p.store
  /\ \A i \in DOMAIN x : x[i].type = "Close" =>
       x[i].sid \in C /\ x[i].sid \notin DOMAIN q.store \cup ToSet(q.closing)
  /\ \A i, j \in DOMAIN x : x[i].type = "Close" /\ IsData(x[j], x[i].sid) => j < i
  /\ \A s \in Sid, t, r \in Nat : t <= r /\ Queues(p.store, s, t, r) =>
       \E b \in t..r : /\ Carries(x, s, t, b) /\ Queues(q.store, s, b, r)
                       /\ Close(s) \in ToSet(x) => b = r

Shrinks(e, p, q, C) ==
  /\ q \in Situation(e) /\ ToSet(q.closing) \subseteq C
  /\ DOMAIN q.store \subseteq DOMAIN p.store /\ DOMAIN p.store \ DOMAIN q.store \subseteq C
  /\ ToSet(q.closing) \ ToSet(p.closing) \subseteq DOMAIN p.store

Writes(e, p, q, C) ==
  /\ Shrinks(e, p, q, C)
  /\ \E x \in Seq(Frame(e)) : q.out = p.out \o x /\ Tells(p, q, x, C)

LEMMA ConcatAssociates ==
  ASSUME NEW X, NEW u \in Seq(X), NEW v \in Seq(X), NEW w \in Seq(X)
  PROVE  (u \o v) \o w = u \o (v \o w) /\ u \o <<>> = u /\ <<>> \o u = u
<1>1. u \o <<>> = u /\ <<>> \o u = u
  OBVIOUS
<1> QED BY SMTT(60), <1>1, ConcatAssociative

LEMMA EmptyFacts ==
  ASSUME NEW st, NEW s \in DOMAIN st, st[s] = Empty, NEW t \in Nat, NEW q \in Nat
  PROVE  Queues(st, s, t, q) <=> q = t
<1>1. Gone(Empty) = 0
  <2> DEFINE f == FrameCount
  <2>1. f \in Nat \ {0}
    BY ConstantFacts
  <2> HIDE DEF f
  <2>2. f * 0 = 0 /\ f * (0 + 1) = f
    BY <2>1
  <2>3. 0 = 0 \div f
    <3>1. f * 0 <= 0 /\ 0 < f * (0 + 1)
      BY <2>1, <2>2
    <3>2. \A q1 \in Int : f * q1 <= 0 /\ 0 < f * (q1 + 1) => q1 = 0 \div f
      BY <2>1, DivFacts
    <3> QED BY <3>1, <3>2
  <2> QED BY <2>3 DEF Gone, Empty, f
<1>2. Empty.messages = <<>> /\ Len(Empty.messages) = 0 /\ DOMAIN Empty.messages = {}
  BY DEF Empty
<1> QED BY <1>1, <1>2 DEF Queues

LEMMA FlushFacts ==
  ASSUME NEW e \in End, NEW p \in Situation(e), NEW C, ToSet(p.closing) \subseteq C,
         NEW last, NEW q \in flush(p, last)
  PROVE  Writes(e, p, q, C)
<1>0. p.store \in Stores(e) /\ p.closing \in Seq(Sid) /\ p.out \in Seq(Frame(e))
  BY DEF Situation
<1>20. PICK g \in grab(p.store, last) :
      q = LET ready == {s \in ToSet(p.closing) : CanClose(g.store, s)}
              now   == Those(p.closing, ready)
          IN  [store   |-> Restrict(g.store, DOMAIN g.store \ ready),
               closing |-> Those(p.closing, ToSet(p.closing) \ ready),
               out     |-> p.out \o g.frames \o [i \in DOMAIN now |-> Event("Close", now[i])]]
  BY DEF flush
<1> DEFINE ready == {s \in ToSet(p.closing) : CanClose(g.store, s)}
           now == Those(p.closing, ready)
           y == [i \in DOMAIN now |-> Event("Close", now[i])]
           X == Frame(e)
           w == g.frames
           x == w \o y
<1>1. /\ q.store = Restrict(g.store, DOMAIN g.store \ ready)
      /\ q.closing = Those(p.closing, ToSet(p.closing) \ ready)
      /\ q.out = (p.out \o w) \o y
      /\ q = [store |-> q.store, closing |-> q.closing, out |-> q.out]
  BY <1>20
<1>2. Takes(e, p.store, g.store, w)
  BY <1>0, GrabFacts
<1>3. /\ g.store \in Stores(e) /\ DOMAIN g.store = DOMAIN p.store /\ w \in Seq(Datum(e))
      /\ \A i \in DOMAIN w : w[i].sid \in DOMAIN p.store
      /\ \A s \in Sid, t, r \in Nat : t <= r /\ Queues(p.store, s, t, r) =>
           \E b \in t..r : Carries(w, s, t, b) /\ Queues(g.store, s, b, r)
  BY <1>2 DEF Takes
<1>4. /\ ready \subseteq ToSet(p.closing) /\ ready \subseteq DOMAIN p.store /\ ready \subseteq Sid
      /\ \A s \in ready : g.store[s] = Empty
  BY <1>0, <1>3, SequenceFacts DEF CanClose
<1> HIDE DEF ready
<1> DEFINE cl == p.closing
<1> HIDE DEF cl
<1>5. now \in Seq(Sid) /\ ToSet(now) = ready
  <2>1. cl \in Seq(Sid) /\ ready \subseteq ToSet(cl) /\ now = Those(cl, ready)
    BY <1>0, <1>4 DEF cl
  <2> HIDE DEF now
  <2>2. Those(cl, ready) \in Seq(Sid) /\ ToSet(Those(cl, ready)) = ToSet(cl) \cap ready
    BY <2>1, ThoseFacts
  <2> QED BY <2>1, <2>2
<1> HIDE DEF now
<1>6. q.closing \in Seq(Sid) /\ ToSet(q.closing) = ToSet(p.closing) \ ready
  <2> DEFINE rest == ToSet(cl) \ ready
  <2>1. cl \in Seq(Sid) /\ q.closing = Those(cl, rest)
    BY <1>0, <1>1 DEF cl
  <2> HIDE DEF rest
  <2>2. Those(cl, rest) \in Seq(Sid) /\ ToSet(Those(cl, rest)) = ToSet(cl) \cap rest
    BY <2>1, ThoseFacts
  <2> QED BY <2>1, <2>2 DEF cl, rest
<1>7. /\ q.store \in Stores(e) /\ DOMAIN q.store = DOMAIN p.store \ ready
      /\ \A s \in DOMAIN q.store : q.store[s] = g.store[s]
  <2> DEFINE st == g.store
             rest == Restrict(st, DOMAIN st \ ready)
  <2>1. st \in Stores(e)
    BY <1>3
  <2> HIDE DEF st
  <2>2. /\ rest \in Stores(e) /\ DOMAIN rest = DOMAIN st \ ready
        /\ \A s \in DOMAIN st \ ready : rest[s] = st[s]
    BY <2>1, CloseStreamFacts
  <2> QED BY <1>1, <1>3, <2>2 DEF st
<1>8. /\ DOMAIN y = 1..Len(now) /\ Len(now) \in Nat
      /\ \A i \in DOMAIN y : y[i] = Close(now[i]) /\ now[i] \in ready
      /\ \A s \in ready : \E i \in DOMAIN y : y[i] = Close(s)
  <2>1. DOMAIN now = 1..Len(now) /\ Len(now) \in Nat
    BY <1>5
  <2>2. ready = {now[i] : i \in DOMAIN now}
    BY <1>5 DEF ToSet
  <2> QED BY <2>1, <2>2 DEF Close
<1>9. y \in Seq(X)
  <2>1. \A i \in 1..Len(now) : y[i] \in X
    <3> SUFFICES ASSUME NEW i \in 1..Len(now) PROVE y[i] \in X
      OBVIOUS
    <3>1. y[i] = Close(now[i]) /\ now[i] \in Sid
      BY <1>4, <1>8
    <3> HIDE DEF y
    <3> QED BY <3>1 DEF Frame, Close, Event
  <2>2. y = [i \in 1..Len(now) |-> y[i]]
    BY <1>8
  <2> HIDE DEF y, X
  <2> QED BY <1>8, <2>1, <2>2, SeqDef
<1>10. w \in Seq(X)
  <2>1. Datum(e) \subseteq X
    BY DEF Frame
  <2> HIDE DEF w, X
  <2> QED BY <1>3, <2>1
<1>11. \A i \in DOMAIN w : w[i].type = "Data"
  <2>1. \A i \in DOMAIN w : w[i] \in Datum(e)
    <3> HIDE DEF w
    <3> QED BY <1>3
  <2> QED BY <2>1 DEF Datum
<1>12. \A i \in DOMAIN y : y[i].type = "Close" /\ y[i].sid \in ready
  BY <1>8 DEF Close, Event
<1> HIDE DEF y, w
<1>13. x \in Seq(X) /\ q.out = p.out \o x
  <2> DEFINE o == p.out
  <2> HIDE DEF o, X
  <2>1. o \in Seq(X)
    BY <1>0 DEF o, X
  <2>2. (o \o w) \o y = o \o x
    BY <1>9, <1>10, <2>1, ConcatAssociates
  <2>3. x \in Seq(X)
    BY <1>9, <1>10
  <2> QED BY <1>1, <2>2, <2>3 DEF o
<1> DEFINE k == Len(w)
           l == Len(y)
<1>14. /\ k \in Nat /\ l \in Nat /\ DOMAIN x = 1..(k + l) /\ DOMAIN w = 1..k /\ DOMAIN y = 1..l
       /\ \A i \in 1..k : x[i] = w[i] /\ i \in 1..(k + l)
       /\ \A i \in 1..l : x[k + i] = y[i] /\ k + i \in 1..(k + l)
       /\ \A i \in 1..(k + l) :
            \/ i \in 1..k /\ x[i] = w[i]
            \/ i > k /\ i - k \in 1..l /\ x[i] = y[i - k]
  BY <1>9, <1>10, ConcatPositions
<1> HIDE DEF k, l, x
<1>15. \A i \in DOMAIN x : \/ i <= k /\ x[i].type = "Data" /\ x[i].sid \in DOMAIN p.store
                           \/ i > k /\ x[i].type = "Close" /\ x[i].sid \in ready
  <2> SUFFICES ASSUME NEW i \in 1..(k + l)
               PROVE  \/ i <= k /\ x[i].type = "Data" /\ x[i].sid \in DOMAIN p.store
                      \/ i > k /\ x[i].type = "Close" /\ x[i].sid \in ready
    BY <1>14
  <2>1. CASE i \in 1..k /\ x[i] = w[i]
    <3>1. w[i].type = "Data" /\ w[i].sid \in DOMAIN p.store /\ i <= k
      BY <1>3, <1>11, <1>14, <2>1
    <3> QED BY <2>1, <3>1
  <2>2. CASE i > k /\ i - k \in 1..l /\ x[i] = y[i - k]
    <3>1. y[i - k].type = "Close" /\ y[i - k].sid \in ready
      BY <1>12, <1>14, <2>2
    <3> QED BY <2>2, <3>1
  <2> QED BY <1>14, <2>1, <2>2
<1>16. \A i, j \in DOMAIN x : x[i].type = "Close" /\ IsData(x[j], x[i].sid) => j < i
  BY <1>14, <1>15 DEF IsData
<1>17. ASSUME NEW s \in Sid, NEW t \in Nat, NEW r \in Nat, t <= r, Queues(p.store, s, t, r)
       PROVE  \E b \in t..r : /\ Carries(x, s, t, b) /\ Queues(q.store, s, b, r)
                              /\ Close(s) \in ToSet(x) => b = r
  <2>1. PICK b \in t..r : Carries(w, s, t, b) /\ Queues(g.store, s, b, r)
    BY <1>3, <1>17
  <2>2. b \in Nat /\ t <= b /\ b <= b
    OBVIOUS
  <2>3. Carries(y, s, b, b)
    <3>1. \A i \in DOMAIN y : ~ IsData(y[i], s)
      BY <1>12 DEF IsData
    <3> QED BY <2>2, <3>1, CarriesNone
  <2>4. Carries(x, s, t, b)
    BY <1>9, <1>10, <2>1, <2>2, <2>3, CarriesConcat DEF x
  <2>5. CASE s \in ready
    <3>1. b = r
      <4>1. s \in DOMAIN g.store /\ g.store[s] = Empty
        BY <1>3, <1>4, <2>5
      <4> QED BY <2>1, <2>2, <4>1, EmptyFacts
    <3>2. Queues(q.store, s, b, r)
      BY <1>7, <2>5, <3>1 DEF Queues
    <3> QED BY <2>4, <3>1, <3>2
  <2>6. CASE s \notin ready
    <3>1. Queues(q.store, s, b, r)
      BY <1>3, <1>7, <2>1, <2>6 DEF Queues
    <3>2. Close(s) \notin ToSet(x)
      <4>1. \A i \in DOMAIN x : x[i] # Close(s)
        BY <1>15, <2>6 DEF Close, Event
      <4> QED BY <4>1 DEF ToSet
    <3> QED BY <2>4, <3>1, <3>2
  <2> QED BY <2>5, <2>6
<1>18. Tells(p, q, x, C)
  <2>1. \A i \in DOMAIN x : x[i].type \in {"Data", "Close"} /\ x[i].sid \in DOMAIN p.store
    BY <1>4, <1>15
  <2>2. \A i \in DOMAIN x : x[i].type = "Close" =>
          x[i].sid \in C /\ x[i].sid \notin DOMAIN q.store \cup ToSet(q.closing)
    BY <1>4, <1>6, <1>7, <1>15
  <2> QED BY <1>16, <1>17, <2>1, <2>2 DEF Tells
<1>19. Shrinks(e, p, q, C)
  <2>1. q.out \in Seq(Frame(e))
    <3> DEFINE o == p.out
    <3> HIDE DEF o, X
    <3>1. o \o x \in Seq(X)
      <4>1. o \in Seq(X)
        BY <1>0 DEF o, X
      <4> QED BY <1>13, <4>1
    <3> QED BY <1>13, <3>1 DEF o, X
  <2>2. q \in Situation(e)
    BY <1>1, <1>6, <1>7, <2>1 DEF Situation
  <2> QED BY <1>4, <1>6, <1>7, <2>2 DEF Shrinks
<1> QED BY <1>13, <1>18, <1>19 DEF Writes

LEMMA SituationFacts ==
  ASSUME NEW e \in End, NEW p \in Situation(e)
  PROVE  /\ p.store \in Stores(e) /\ p.closing \in Seq(Sid) /\ p.out \in Seq(Frame(e))
         /\ DOMAIN p.store \subseteq Sid /\ ToSet(p.closing) \subseteq Sid
         /\ \A st \in Stores(e) : [p EXCEPT !.store = st] \in Situation(e)
         /\ \A cl \in Seq(Sid) : [p EXCEPT !.closing = cl] \in Situation(e)
         /\ \A o \in Seq(Frame(e)) : [p EXCEPT !.out = o] \in Situation(e)
<1>1. p.store \in Stores(e) /\ p.closing \in Seq(Sid) /\ p.out \in Seq(Frame(e))
  BY DEF Situation
<1>2. DOMAIN p.store \subseteq Sid /\ ToSet(p.closing) \subseteq Sid
  BY <1>1, StoreFacts, SequenceFacts
<1>3. \A st \in Stores(e) : [p EXCEPT !.store = st] \in Situation(e)
  BY DEF Situation
<1>4. \A cl \in Seq(Sid) : [p EXCEPT !.closing = cl] \in Situation(e)
  BY DEF Situation
<1>5. \A o \in Seq(Frame(e)) : [p EXCEPT !.out = o] \in Situation(e)
  BY DEF Situation
<1> QED BY <1>1, <1>2, <1>3, <1>4, <1>5

LEMMA WritesNothing ==
  ASSUME NEW e \in End, NEW p \in Situation(e), NEW C, ToSet(p.closing) \subseteq C
  PROVE  Writes(e, p, p, C)
<1> DEFINE x == <<>>
<1>1. x \in Seq(Frame(e)) /\ p.out \o x = p.out /\ DOMAIN x = {} /\ ToSet(x) = {}
  BY SituationFacts DEF ToSet
<1> HIDE DEF x
<1>2. \A s \in Sid, t, r \in Nat : t <= r => t \in t..r /\ Carries(x, s, t, t)
  BY <1>1, CarriesNone
<1>3. Tells(p, p, x, C)
  <2>1. \A s \in Sid, t, r \in Nat : t <= r /\ Queues(p.store, s, t, r) =>
          \E b \in t..r : /\ Carries(x, s, t, b) /\ Queues(p.store, s, b, r)
                          /\ Close(s) \in ToSet(x) => b = r
    BY <1>1, <1>2
  <2> QED BY <1>1, <2>1 DEF Tells
<1> QED BY <1>1, <1>3 DEF Writes, Shrinks

LEMMA WritesTwice ==
  ASSUME NEW e \in End, NEW p \in Situation(e), NEW m, NEW q, NEW C,
         Writes(e, p, m, C), Writes(e, m, q, C)
  PROVE  Writes(e, p, q, C)
<1> DEFINE X == Frame(e)
<1>1. PICK u \in Seq(X) : m.out = p.out \o u /\ Tells(p, m, u, C)
  BY DEF Writes
<1>2. PICK v \in Seq(X) : q.out = m.out \o v /\ Tells(m, q, v, C)
  BY DEF Writes
<1>3. Shrinks(e, p, m, C) /\ Shrinks(e, m, q, C)
  BY DEF Writes
<1> DEFINE x == u \o v
           k == Len(u)
           l == Len(v)
<1>4. /\ k \in Nat /\ l \in Nat /\ x \in Seq(X)
      /\ DOMAIN x = 1..(k + l) /\ DOMAIN u = 1..k /\ DOMAIN v = 1..l
      /\ \A i \in 1..k : x[i] = u[i] /\ i \in 1..(k + l)
      /\ \A i \in 1..l : x[k + i] = v[i] /\ k + i \in 1..(k + l)
      /\ \A i \in 1..(k + l) :
           \/ i \in 1..k /\ x[i] = u[i]
           \/ i > k /\ i - k \in 1..l /\ x[i] = v[i - k]
  <2> HIDE DEF X
  <2> QED BY ConcatPositions
<1>5. q.out = p.out \o x
  <2> DEFINE o == p.out
  <2>1. o \in Seq(X)
    BY SituationFacts
  <2> HIDE DEF o, X
  <2>2. (o \o u) \o v = o \o x
    BY SMTT(60), <2>1, ConcatAssociates
  <2> QED BY <1>1, <1>2, <2>2 DEF o
<1> HIDE DEF k, l, x
<1>6. /\ q \in Situation(e) /\ m \in Situation(e)
      /\ ToSet(q.closing) \subseteq C
      /\ DOMAIN m.store \subseteq DOMAIN p.store /\ DOMAIN p.store \ DOMAIN m.store \subseteq C
      /\ DOMAIN q.store \subseteq DOMAIN m.store /\ DOMAIN m.store \ DOMAIN q.store \subseteq C
      /\ ToSet(m.closing) \ ToSet(p.closing) \subseteq DOMAIN p.store
      /\ ToSet(q.closing) \ ToSet(m.closing) \subseteq DOMAIN m.store
  BY <1>3 DEF Shrinks
<1>7. Shrinks(e, p, q, C)
  BY <1>6 DEF Shrinks
<1>8. /\ \A i \in 1..k : u[i].type \in {"Data", "Close"} /\ u[i].sid \in DOMAIN p.store
      /\ \A i \in 1..l : v[i].type \in {"Data", "Close"} /\ v[i].sid \in DOMAIN m.store
      /\ \A i \in 1..k : u[i].type = "Close" =>
           u[i].sid \in C /\ u[i].sid \notin DOMAIN m.store \cup ToSet(m.closing)
      /\ \A i \in 1..l : v[i].type = "Close" =>
           v[i].sid \in C /\ v[i].sid \notin DOMAIN q.store \cup ToSet(q.closing)
      /\ \A i, j \in 1..k : u[i].type = "Close" /\ IsData(u[j], u[i].sid) => j < i
      /\ \A i, j \in 1..l : v[i].type = "Close" /\ IsData(v[j], v[i].sid) => j < i
      /\ \A s \in Sid, t, r \in Nat : t <= r /\ Queues(p.store, s, t, r) =>
           \E b \in t..r : /\ Carries(u, s, t, b) /\ Queues(m.store, s, b, r)
                           /\ Close(s) \in ToSet(u) => b = r
      /\ \A s \in Sid, t, r \in Nat : t <= r /\ Queues(m.store, s, t, r) =>
           \E b \in t..r : /\ Carries(v, s, t, b) /\ Queues(q.store, s, b, r)
                           /\ Close(s) \in ToSet(v) => b = r
  BY <1>1, <1>2, <1>4 DEF Tells
<1>9. ASSUME NEW i \in 1..(k + l)
      PROVE  /\ x[i].type \in {"Data", "Close"} /\ x[i].sid \in DOMAIN p.store
             /\ x[i].type = "Close" =>
                  x[i].sid \in C /\ x[i].sid \notin DOMAIN q.store \cup ToSet(q.closing)
  <2>1. CASE i \in 1..k /\ x[i] = u[i]
    BY <1>6, <1>8, <2>1
  <2>2. CASE i - k \in 1..l /\ x[i] = v[i - k]
    BY <1>6, <1>8, <2>2
  <2> QED BY <1>4, <2>1, <2>2
<1>10. ASSUME NEW i \in 1..(k + l), NEW j \in 1..(k + l),
              x[i].type = "Close", IsData(x[j], x[i].sid)
       PROVE  j < i
  <2>1. CASE i \in 1..k /\ x[i] = u[i] /\ j \in 1..k /\ x[j] = u[j]
    BY <1>8, <1>10, <2>1
  <2>2. CASE i \in 1..k /\ x[i] = u[i] /\ j - k \in 1..l /\ x[j] = v[j - k]
    <3>1. u[i].sid \notin DOMAIN m.store /\ v[j - k].sid \in DOMAIN m.store
      BY <1>8, <1>10, <2>2
    <3> QED BY <1>10, <2>2, <3>1 DEF IsData
  <2>3. CASE i > k /\ i - k \in 1..l /\ x[i] = v[i - k] /\ j - k \in 1..l /\ x[j] = v[j - k]
    <3>1. j - k < i - k
      BY <1>8, <1>10, <2>3
    <3> QED BY <1>4, <3>1
  <2>4. CASE i > k /\ j \in 1..k
    BY <1>4, <2>4
  <2> QED BY <1>4, <2>1, <2>2, <2>3, <2>4
<1>11. ASSUME NEW s \in Sid, NEW t \in Nat, NEW r \in Nat, t <= r, Queues(p.store, s, t, r)
       PROVE  \E b \in t..r : /\ Carries(x, s, t, b) /\ Queues(q.store, s, b, r)
                              /\ Close(s) \in ToSet(x) => b = r
  <2>1. PICK a \in t..r : /\ Carries(u, s, t, a) /\ Queues(m.store, s, a, r)
                          /\ Close(s) \in ToSet(u) => a = r
    BY <1>8, <1>11
  <2>2. a \in Nat /\ t <= a /\ a <= r
    OBVIOUS
  <2>3. PICK b \in a..r : /\ Carries(v, s, a, b) /\ Queues(q.store, s, b, r)
                          /\ Close(s) \in ToSet(v) => b = r
    BY <1>8, <2>1, <2>2
  <2>4. b \in Nat /\ a <= b /\ b \in t..r
    BY <2>2
  <2>5. Carries(x, s, t, b)
    <3> HIDE DEF X
    <3> QED BY <2>1, <2>2, <2>3, <2>4, CarriesConcat DEF x
  <2>6. ASSUME Close(s) \in ToSet(x) PROVE b = r
    <3>1. ToSet(x) = ToSet(u) \cup ToSet(v)
      <4> HIDE DEF X
      <4> QED BY SequenceFacts DEF x
    <3> QED BY <2>1, <2>2, <2>3, <2>4, <2>6, <3>1
  <2> QED BY <2>3, <2>4, <2>5, <2>6
<1>12. Tells(p, q, x, C)
  BY <1>4, <1>9, <1>10, <1>11 DEF Tells
<1> QED BY <1>4, <1>5, <1>7, <1>12 DEF Writes

LEMMA SendCloseFacts ==
  ASSUME NEW e \in End, NEW p \in Situation(e), NEW s \in DOMAIN p.store,
         s \notin ToSet(p.closing), NEW C, ToSet(p.closing) \cup {s} \subseteq C
  PROVE  Writes(e, p, SendClose(p, s), C)
<1>1. /\ p.store \in Stores(e) /\ p.closing \in Seq(Sid) /\ p.out \in Seq(Frame(e)) /\ s \in Sid
      /\ p = [store |-> p.store, closing |-> p.closing, out |-> p.out]
  BY SituationFacts DEF Situation
<1>2. CASE ~ CanClose(p.store, s)
  <2> DEFINE q == [p EXCEPT !.closing = Append(@, s)]
             cl == p.closing
  <2>1. SendClose(p, s) = q
    BY <1>2 DEF SendClose
  <2>2. Append(cl, s) \in Seq(Sid) /\ ToSet(Append(cl, s)) = ToSet(cl) \cup {s}
    <3>1. cl \in Seq(Sid)
      BY <1>1
    <3> HIDE DEF cl
    <3> QED BY <1>1, <3>1, SequenceFacts
  <2>3. /\ q \in Situation(e) /\ q.store = p.store /\ q.out = p.out
        /\ q.closing = Append(cl, s)
    BY <1>1, <2>2 DEF Situation
  <2>4. Writes(e, p, p, C)
    BY WritesNothing
  <2> HIDE DEF q
  <2>5. PICK x \in Seq(Frame(e)) : p.out = p.out \o x /\ Tells(p, p, x, C)
    BY <2>4 DEF Writes
  <2>6. Shrinks(e, p, q, C)
    BY <2>2, <2>3 DEF Shrinks
  <2>7. Writes(e, p, q, C)
    <3> DEFINE y == <<>>
    <3>1. y \in Seq(Frame(e)) /\ p.out \o y = p.out /\ DOMAIN y = {} /\ ToSet(y) = {}
      BY <1>1 DEF ToSet
    <3> HIDE DEF y
    <3>2. \A r \in Sid, t, b \in Nat : t <= b => t \in t..b /\ Carries(y, r, t, t)
      BY <3>1, CarriesNone
    <3>3. Tells(p, q, y, C)
      <4>1. \A r \in Sid, t, c \in Nat : t <= c /\ Queues(p.store, r, t, c) =>
              \E b \in t..c : /\ Carries(y, r, t, b) /\ Queues(q.store, r, b, c)
                              /\ Close(r) \in ToSet(y) => b = c
        BY <2>3, <3>1, <3>2
      <4> QED BY <3>1, <4>1 DEF Tells
    <3> QED BY <2>3, <2>6, <3>1, <3>3 DEF Writes
  <2> QED BY <2>1, <2>7
<1>3. CASE CanClose(p.store, s)
  <2> DEFINE st == Restrict(p.store, DOMAIN p.store \ {s})
             f == Event("Close", s)
             o == p.out
             q == [p EXCEPT !.store = try_close_stream(@, s), !.out = Append(@, f)]
             x == <<f>>
  <2>1. SendClose(p, s) = q /\ try_close_stream(p.store, s) = st
    BY <1>3 DEF SendClose, try_close_stream
  <2>2. f \in Frame(e) /\ f = Close(s) /\ f.type = "Close" /\ f.sid = s
    BY <1>1 DEF Frame, Event, Close
  <2>3. /\ st \in Stores(e) /\ DOMAIN st = DOMAIN p.store \ {s}
        /\ \A r \in DOMAIN p.store \ {s} : st[r] = p.store[r]
    <3> DEFINE old == p.store
               set == {s}
               new == Restrict(old, DOMAIN old \ set)
    <3>1. old \in Stores(e)
      BY <1>1
    <3> HIDE DEF old, set
    <3>2. /\ new \in Stores(e) /\ DOMAIN new = DOMAIN old \ set
          /\ \A r \in DOMAIN old \ set : new[r] = old[r]
      BY <3>1, CloseStreamFacts
    <3> QED BY <3>2 DEF old, set
  <2> HIDE DEF f, st
  <2>4. x \in Seq(Frame(e)) /\ DOMAIN x = {1} /\ x[1] = f /\ ToSet(x) = {f}
    BY <2>2 DEF ToSet
  <2>5. o \in Seq(Frame(e)) /\ Append(o, f) = o \o x /\ Append(o, f) \in Seq(Frame(e))
    <3> DEFINE X == Frame(e)
    <3>1. o \in Seq(X) /\ f \in X
      BY <1>1, <2>2
    <3> HIDE DEF o, X
    <3>2. Append(o, f) = o \o x /\ Append(o, f) \in Seq(X)
      BY <3>1
    <3> QED BY <3>1, <3>2 DEF X
  <2>6. /\ q \in Situation(e) /\ q.store = st /\ q.closing = p.closing /\ q.out = p.out \o x
    <3>1. q = [store |-> st, closing |-> p.closing, out |-> Append(o, f)]
      BY <1>1, <2>1
    <3> QED BY <1>1, <2>3, <2>5, <3>1 DEF Situation
  <2> HIDE DEF q, x, o
  <2>7. Shrinks(e, p, q, C)
    BY <2>3, <2>6 DEF Shrinks
  <2>8. ASSUME NEW r \in Sid, NEW t \in Nat, NEW c \in Nat, t <= c, Queues(p.store, r, t, c)
        PROVE  \E b \in t..c : /\ Carries(x, r, t, b) /\ Queues(q.store, r, b, c)
                               /\ Close(r) \in ToSet(x) => b = c
    <3>1. t \in t..c /\ Carries(x, r, t, t)
      <4>1. \A i \in DOMAIN x : ~ IsData(x[i], r)
        BY <2>2, <2>4 DEF IsData
      <4>2. Carries(x, r, t, t)
        BY <4>1, CarriesNone
      <4> QED BY <2>8, <4>2
    <3>2. CASE r = s
      <4>1. c = t
        BY <1>3, <2>8, <3>2, EmptyFacts DEF CanClose
      <4>2. Queues(q.store, r, t, c)
        BY <2>3, <2>6, <3>2, <4>1 DEF Queues
      <4> QED BY <3>1, <4>1, <4>2
    <3>3. CASE r # s
      <4>1. Queues(q.store, r, t, c)
        BY <2>3, <2>6, <2>8, <3>3 DEF Queues
      <4>2. Close(r) \notin ToSet(x)
        BY <2>2, <2>4, <3>3 DEF Close, Event
      <4> QED BY <3>1, <4>1, <4>2
    <3> QED BY <3>2, <3>3
  <2>9. Tells(p, q, x, C)
    <3>1. \A i \in DOMAIN x : x[i].type \in {"Data", "Close"} /\ x[i].sid \in DOMAIN p.store
      BY <2>2, <2>4
    <3>2. \A i \in DOMAIN x : x[i].type = "Close" =>
            x[i].sid \in C /\ x[i].sid \notin DOMAIN q.store \cup ToSet(q.closing)
      BY <2>2, <2>3, <2>4, <2>6
    <3>3. \A i, j \in DOMAIN x : x[i].type = "Close" /\ IsData(x[j], x[i].sid) => j < i
      BY <2>2, <2>4 DEF IsData
    <3> QED BY <2>8, <3>1, <3>2, <3>3 DEF Tells
  <2> QED BY <2>1, <2>4, <2>6, <2>7, <2>9 DEF Writes
<1> QED BY <1>2, <1>3

Messaged(e, pick) == SendMessages(Prepared(e, pick), outbox[e])

\* A turn's flushes, with the request to close a stream before them.
LEMMA TurnFacts ==
  ASSUME NEW e \in End, NEW pick, Messaged(e, pick) \in Situation(e),
         NEW C, ToSet(Messaged(e, pick).closing) \subseteq C,
         pick.type = "close" =>
           /\ pick.sid \in DOMAIN Messaged(e, pick).store \cap C
           /\ pick.sid \notin ToSet(Messaged(e, pick).closing),
         NEW q \in Turn(e, pick)
  PROVE  \E m : /\ Writes(e, Messaged(e, pick), m, C)
                /\ q = m \/ (pick.type = "remove" /\ q = SendShutdown(m))
<1> DEFINE p == Messaged(e, pick)
           first == IF pick.type = "close" THEN SendClose(p, pick.sid) ELSE p
           after == flush(first, FALSE)
<1>1. q \in IF pick.type = "remove"
              THEN {SendShutdown(a) : a \in UNION {flush(b, TRUE) : b \in after}}
              ELSE after
  BY DEF Turn, Messaged
<1> HIDE DEF p
<1>2. p \in Situation(e) /\ ToSet(p.closing) \subseteq C
  BY DEF p
<1>3. Writes(e, p, first, C)
  <2>1. CASE pick.type = "close"
    <3>1. /\ pick.sid \in DOMAIN p.store /\ pick.sid \notin ToSet(p.closing)
          /\ ToSet(p.closing) \cup {pick.sid} \subseteq C
      BY <1>2, <2>1 DEF p
    <3> QED BY <1>2, <2>1, <3>1, SendCloseFacts
  <2>2. CASE pick.type # "close"
    BY <1>2, <2>2, WritesNothing
  <2> QED BY <2>1, <2>2
<1> HIDE DEF first
<1>4. ASSUME NEW a, Writes(e, p, a, C), NEW last, NEW b \in flush(a, last)
      PROVE  Writes(e, p, b, C)
  <2>1. a \in Situation(e) /\ ToSet(a.closing) \subseteq C
    BY <1>4 DEF Writes, Shrinks
  <2>2. Writes(e, a, b, C)
    BY <1>4, <2>1, FlushFacts
  <2> QED BY <1>2, <1>4, <2>2, WritesTwice
<1>5. \A b \in after : Writes(e, p, b, C)
  BY <1>3, <1>4
<1> HIDE DEF after
<1>6. CASE pick.type = "remove"
  <2>1. PICK b \in after : \E a \in flush(b, TRUE) : q = SendShutdown(a)
    BY <1>1, <1>6
  <2>2. PICK a \in flush(b, TRUE) : q = SendShutdown(a)
    BY <2>1
  <2>3. Writes(e, p, a, C)
    BY <1>4, <1>5
  <2> QED BY <1>6, <2>2, <2>3 DEF p
<1>7. CASE pick.type # "remove"
  BY <1>1, <1>5, <1>7 DEF p
<1> QED BY <1>6, <1>7

LEMMA FrameFacts ==
  ASSUME NEW e \in End, NEW f \in Frame(e)
  PROVE  /\ f.type \in {"Open", "Data", "Close", "Shutdown", "Eof"}
         /\ f.type = "Open" => f.sid \in Sid /\ f = Open(f.sid)
         /\ f.type = "Close" => f.sid \in Sid /\ f = Close(f.sid)
         /\ f.type = "Data" => f.sid \in Sid /\ f.n \in 1..MaxSent[e]
         /\ f.type \in {"Shutdown", "Eof"} => f.sid = NoSid
BY DEF Frame, Open, Close, Event, Datum, Shutdown, Eof

LEMMA ArrivedFacts ==
  ASSUME Typed, NEW e \in End, wire[Peer(e)] # <<>>
  PROVE  /\ Arrived(e) \in Frame(Peer(e)) /\ Arrived(e) \in ToSet(wire[Peer(e)])
         /\ Tail(wire[Peer(e)]) \in Seq(Frame(Peer(e)))
         /\ ToSet(wire[Peer(e)]) = {Arrived(e)} \cup ToSet(Tail(wire[Peer(e)]))
<1> DEFINE d == Peer(e)
           w == wire[d]
           X == Frame(d)
<1>1. d \in End
  BY PeerFacts
<1>2. w \in Seq(X)
  BY <1>1 DEF Typed, Bounded
<1> HIDE DEF X
<1>3. w # <<>> => /\ Head(w) \in ToSet(w) /\ Head(w) \in X
                  /\ Tail(w) \in Seq(X)
                  /\ ToSet(w) = {Head(w)} \cup ToSet(Tail(w))
  <2> HIDE DEF w
  <2> QED BY <1>2, SequenceFacts
<1> QED BY <1>3 DEF Arrived, X

LEMMA BoundedKept ==
  ASSUME NEW d \in End, Bounded(d), opens'[d] = opens[d], outbox'[d] = outbox[d],
         store'[d] = store[d], wire'[d] = wire[d], sent'[d] = sent[d],
         delivered'[d] = delivered[d], checked'[d] = checked[d]
  PROVE  Bounded(d)'
BY DEF Bounded, IsStore

LEMMA TypedInit == Init => Typed
<1> SUFFICES ASSUME Init PROVE Typed
  OBVIOUS
<1>1. Shape
  <2>1. <<>> \in Seq(Sid) /\ <<>> \in Seq([type : {"Open", "Close"}, sid : Sid])
    OBVIOUS
  <2> QED BY <2>1 DEF Init, Shape
<1>2. ASSUME NEW e \in End PROVE Bounded(e)
  <2>1. /\ <<>> \in Seq(Sid \X (1..MaxSent[e])) /\ <<>> \in Seq(Frame(e))
        /\ <<>> \in Seq(1..MaxSent[Peer(e)]) /\ DOMAIN <<>> = {} /\ <<>> = [s \in {} |-> 0]
    OBVIOUS
  <2>2. MaxOpen[e] \in Nat /\ MaxSent[e] \in Nat
    BY ConstantFacts
  <2>3. IsStore(e, <<>>)
    BY <2>1 DEF IsStore
  <2>4. /\ opens[e] = 0 /\ sent[e] = [s \in Sid |-> 0] /\ outbox[e] = <<>> /\ store[e] = <<>>
        /\ wire[e] = <<>> /\ delivered[e] = [s \in Sid |-> <<>>] /\ checked[e] = NoSid
    BY DEF Init
  <2> QED BY <2>1, <2>2, <2>3, <2>4 DEF Bounded
<1> QED BY <1>1, <1>2 DEF Typed

LEMMA TypedCheck ==
  ASSUME Typed, NEW e \in End, NEW s \in Sid, Check(e, s)
  PROVE  Typed'
<1>1. Shape'
  BY DEF Typed, Shape, Check, sendVars, recvVars, bothVars, wireVars
<1>2. ASSUME NEW d \in End PROVE Bounded(d)'
  <2>1. CASE d # e
    BY <2>1, BoundedKept DEF Typed, Shape, Check, sendVars, recvVars, bothVars, wireVars
  <2>2. CASE d = e
    <3>1. /\ opens' = opens /\ outbox' = outbox /\ store' = store /\ wire' = wire /\ sent' = sent
          /\ delivered' = delivered /\ checked'[e] = s /\ sent[e][s] < MaxSent[e]
      BY DEF Typed, Shape, Check, sendVars, recvVars, bothVars, wireVars
    <3> QED BY <2>2, <3>1 DEF Typed, Bounded, IsStore
  <2> QED BY <2>1, <2>2
<1> QED BY <1>1, <1>2 DEF Typed

LEMMA TypedSend ==
  ASSUME Typed, NEW e \in End, Send(e)
  PROVE  Typed'
<1> DEFINE s == checked[e]
           n == sent[e][s] + 1
<1>1. /\ s \in Sid /\ n \in 1..MaxSent[e] /\ sent[e] \in [Sid -> 0..MaxSent[e]]
      /\ checked[e] # NoSid
  <2>1. s \in Sid /\ checked[e] # NoSid
    BY ZenonT(60) DEF Typed, Shape, Send
  <2>2. sent[e] \in [Sid -> 0..MaxSent[e]] /\ sent[e][s] < MaxSent[e] /\ MaxSent[e] \in Nat
    BY <2>1, ConstantFacts DEF Typed, Bounded
  <2> HIDE DEF s
  <2>3. sent[e][s] \in 0..MaxSent[e]
    BY <2>1, <2>2
  <2> QED BY <2>1, <2>2, <2>3
<1>2. /\ checked' = [checked EXCEPT ![e] = NoSid]
      /\ sent' = [sent EXCEPT ![e][s] = n]
      /\ outbox' = [outbox EXCEPT ![e] = Append(@, <<s, n>>)]
      /\ UNCHANGED <<participant, held, opens, sending, store, closing, delivered, receiving,
                     streams, closed, notify, close_send, panicked, shutdown, wire, broken>>
  BY DEF Send, recvVars, bothVars, wireVars
<1> HIDE DEF s, n
<1>3. Shape'
  BY <1>1, <1>2 DEF Typed, Shape
<1>4. ASSUME NEW d \in End PROVE Bounded(d)'
  <2>1. CASE d # e
    BY <1>2, <2>1, BoundedKept DEF Typed, Shape
  <2>2. CASE d = e
    <3>1. sent'[e] = [sent[e] EXCEPT ![s] = n] /\ checked'[e] = NoSid
      BY <1>2 DEF Typed, Shape
    <3>2. sent'[e] \in [Sid -> 0..MaxSent[e]]
      BY <1>1, <3>1
    <3>3. outbox'[e] \in Seq(Sid \X (1..MaxSent[e]))
      <4> DEFINE X == Sid \X (1..MaxSent[e])
                 w == outbox[e]
      <4>1. outbox'[e] = Append(w, <<s, n>>)
        BY <1>2 DEF Typed, Shape
      <4>2. w \in Seq(X) /\ <<s, n>> \in X
        BY <1>1 DEF Typed, Bounded
      <4> HIDE DEF X, w
      <4>3. Append(w, <<s, n>>) \in Seq(X)
        BY <4>2
      <4> QED BY <4>1, <4>3 DEF X
    <3>4. Bounded(e)
      BY DEF Typed
    <3> QED BY <1>2, <2>2, <3>1, <3>2, <3>3, <3>4 DEF Bounded, IsStore
  <2> QED BY <2>1, <2>2
<1> QED BY <1>3, <1>4 DEF Typed

LEMMA TypedQuiet ==
  ASSUME Typed, NEW e \in End,
         \/ \E how \in {"leaving", "dropped"} : Leave(e, how)
         \/ CloseChannel(e) \/ Timeout(e) \/ Finish(e)
  PROVE  Typed'
<1>1. Shape'
  <2>1. CASE \E how \in {"leaving", "dropped"} : Leave(e, how)
    <3> PICK how \in {"leaving", "dropped"} : Leave(e, how)
      BY <2>1
    <3> QED BY DEF Typed, Shape, Leave, sendVars, recvVars, bothVars, wireVars
  <2>2. CASE CloseChannel(e)
    BY <2>2 DEF Typed, Shape, CloseChannel, appVars, sendVars, recvVars, wireVars
  <2>3. CASE Timeout(e)
    BY <2>3 DEF Typed, Shape, Timeout, appVars, sendVars, recvVars, bothVars, wireVars
  <2>4. CASE Finish(e)
    BY <2>4 DEF Typed, Shape, Finish, appVars, sendVars, recvVars, wireVars
  <2> QED BY <2>1, <2>2, <2>3, <2>4
<1>2. UNCHANGED <<opens, outbox, store, wire, sent, delivered, checked>>
  BY DEF Leave, CloseChannel, Timeout, Finish, appVars, sendVars, recvVars, bothVars, wireVars
<1> QED BY <1>1, <1>2, BoundedKept DEF Typed

\* What is delivered on streams that are gone is forgotten.
LEMMA DeliveredFacts ==
  ASSUME Typed, NEW e \in End, NEW left
  PROVE  /\ Delivered(e, left) = [d \in End |-> Delivered(e, left)[d]]
         /\ \A d \in End : d # e => Delivered(e, left)[d] = delivered[d]
         /\ Delivered(e, left)[e] \in [Sid -> Seq(1..MaxSent[Peer(e)])]
         /\ \A s \in Sid : Delivered(e, left)[e][s] = IF s \in left THEN delivered[e][s] ELSE <<>>
<1> DEFINE V == Seq(1..MaxSent[Peer(e)])
           new == [s \in Sid |-> IF s \in left THEN delivered[e][s] ELSE <<>>]
<1>1. Delivered(e, left) = [delivered EXCEPT ![e] = new]
  BY DEF Delivered
<1>2. delivered[e] \in [Sid -> V] /\ delivered = [d \in End |-> delivered[d]]
  BY DEF Typed, Shape, Bounded
<1>3. <<>> \in V
  OBVIOUS
<1> HIDE DEF V
<1>4. new \in [Sid -> V] /\ \A s \in Sid : new[s] = IF s \in left THEN delivered[e][s] ELSE <<>>
  BY <1>2, <1>3
<1> HIDE DEF new
<1> QED BY <1>1, <1>2, <1>4 DEF V

\* recv_mgr has taken the first frame of the wire to it.
LEMMA BoundedConsume ==
  ASSUME Typed, NEW e \in End, wire[Peer(e)] # <<>>,
         wire' = [wire EXCEPT ![Peer(e)] = Tail(@)],
         UNCHANGED <<opens, outbox, store, sent, checked>>,
         \A d \in End : d # e => delivered'[d] = delivered[d],
         delivered'[e] \in [Sid -> Seq(1..MaxSent[Peer(e)])]
  PROVE  \A d \in End : Bounded(d)'
<1> SUFFICES ASSUME NEW d \in End PROVE Bounded(d)'
  OBVIOUS
<1>1. Peer(e) \in End /\ Peer(e) # e /\ (d = e \/ d = Peer(e))
  BY PeerFacts
<1>2. Bounded(d) /\ \A c \in End : wire'[c] = IF c = Peer(e) THEN Tail(wire[c]) ELSE wire[c]
  BY <1>1 DEF Typed, Shape
<1>3. Tail(wire[Peer(e)]) \in Seq(Frame(Peer(e)))
  BY ArrivedFacts
<1>4. CASE d = e
  BY <1>1, <1>2, <1>4 DEF Bounded, IsStore
<1>5. CASE d = Peer(e)
  BY <1>1, <1>2, <1>3, <1>5 DEF Bounded, IsStore
<1> QED BY <1>1, <1>4, <1>5

LEMMA TypedStop ==
  ASSUME Typed, NEW e \in End, ReceiveEnd(e) \/ ForcedEnd(e)
  PROVE  Typed'
<1>1. /\ receiving' = [receiving EXCEPT ![e] = FALSE]
      /\ closed' = [closed EXCEPT ![e] = @ \cup (streams[e] \cap held[e])]
      /\ streams' = [streams EXCEPT ![e] = {}]
      /\ wire' = [wire EXCEPT ![Peer(e)] = <<>>]
      /\ delivered' = Delivered(e, {})
      /\ close_send' = close_send \/ close_send' = [close_send EXCEPT ![e] = sending[e]]
      /\ UNCHANGED <<participant, held, checked, sent, opens, outbox, sending, store, closing,
                     notify, panicked, shutdown, broken>>
  BY DEF ReceiveEnd, ForcedEnd, StopReceiving, appVars, sendVars
<1>2. Shape'
  <2>1. delivered' = [d \in End |-> delivered'[d]]
    <3>1. Delivered(e, {}) = [d \in End |-> Delivered(e, {})[d]]
      BY DeliveredFacts
    <3> QED BY <1>1, <3>1
  <2>2. closed' \in [End -> SUBSET Sid] /\ streams' \in [End -> SUBSET Sid]
    <3>1. /\ closed \in [End -> SUBSET Sid] /\ streams \in [End -> SUBSET Sid]
          /\ closed[e] \cup (streams[e] \cap held[e]) \in SUBSET Sid
      BY DEF Typed, Shape
    <3> QED BY <1>1, <3>1
  <2>4. close_send' \in [End -> BOOLEAN]
    <3>1. close_send \in [End -> BOOLEAN] /\ sending[e] \in BOOLEAN
      BY DEF Typed, Shape
    <3>2. CASE close_send' = close_send
      BY <3>1, <3>2
    <3>3. CASE close_send' = [close_send EXCEPT ![e] = sending[e]]
      BY <3>1, <3>3
    <3> QED BY <1>1, <3>2, <3>3
  <2>3. wire' = [d \in End |-> wire'[d]] /\ receiving' \in [End -> BOOLEAN]
    BY <1>1 DEF Typed, Shape
  <2> QED BY <1>1, <2>1, <2>2, <2>3, <2>4 DEF Typed, Shape
<1>3. ASSUME NEW d \in End PROVE Bounded(d)'
  <2>1. Peer(e) \in End /\ Peer(e) # e /\ (d = e \/ d = Peer(e))
    BY PeerFacts
  <2>2. Bounded(d) /\ \A c \in End : wire'[c] = IF c = Peer(e) THEN <<>> ELSE wire[c]
    BY <1>1, <2>1 DEF Typed, Shape
  <2>3. /\ delivered'[e] \in [Sid -> Seq(1..MaxSent[Peer(e)])]
        /\ d # e => delivered'[d] = delivered[d]
    BY <1>1, DeliveredFacts
  <2>4. <<>> \in Seq(Frame(Peer(e)))
    OBVIOUS
  <2>5. CASE d = e
    BY <1>1, <2>1, <2>2, <2>3, <2>5 DEF Bounded, IsStore
  <2>6. CASE d = Peer(e)
    BY <1>1, <2>1, <2>2, <2>3, <2>4, <2>6 DEF Bounded, IsStore
  <2> QED BY <2>1, <2>5, <2>6
<1> QED BY <1>2, <1>3 DEF Typed

LEMMA TypedReceiveOpen ==
  ASSUME Typed, NEW e \in End, ReceiveOpen(e)
  PROVE  Typed'
<1> DEFINE f == Arrived(e)
<1>1. /\ wire[Peer(e)] # <<>> /\ f.type = "Open"
      /\ wire' = [wire EXCEPT ![Peer(e)] = Tail(@)]
      /\ notify' = [notify EXCEPT ![e] = IF sending[e] THEN Append(@, f) ELSE @]
      /\ streams' = [streams EXCEPT ![e] = @ \cup {f.sid}]
      /\ held' = held \/ held' = [held EXCEPT ![e] = @ \cup {f.sid}]
      /\ UNCHANGED <<participant, checked, sent, opens, outbox, sending, store, closing,
                     delivered, receiving, closed, close_send, panicked, shutdown, broken>>
  BY DEF ReceiveOpen, Consume, Notify, sendVars, recvVars
<1>2. f.sid \in Sid /\ f \in Notices
  <2>1. Peer(e) \in End /\ f \in Frame(Peer(e))
    BY <1>1, PeerFacts, ArrivedFacts
  <2>2. f.sid \in Sid /\ f = Open(f.sid)
    BY <1>1, <2>1, FrameFacts
  <2> QED BY <2>2 DEF Notices, Open, Event
<1> HIDE DEF f
<1>3. Shape'
  <2>1. notify \in [End -> Seq(Notices)] /\ sending \in [End -> BOOLEAN]
    BY DEF Typed, Shape, Notices
  <2>2. notify' \in [End -> Seq(Notices)]
    BY <1>1, <1>2, <2>1
  <2>3. held' \in [End -> SUBSET Sid] /\ streams' \in [End -> SUBSET Sid]
    <3>1. /\ held \in [End -> SUBSET Sid] /\ streams \in [End -> SUBSET Sid]
          /\ held[e] \cup {f.sid} \in SUBSET Sid /\ streams[e] \cup {f.sid} \in SUBSET Sid
      BY <1>2 DEF Typed, Shape
    <3>2. CASE held' = held
      BY <1>1, <3>1, <3>2
    <3>3. CASE held' = [held EXCEPT ![e] = @ \cup {f.sid}]
      BY <1>1, <3>1, <3>3
    <3> QED BY <1>1, <3>2, <3>3
  <2>4. wire' = [d \in End |-> wire'[d]]
    BY <1>1 DEF Typed, Shape
  <2> QED BY <1>1, <2>2, <2>3, <2>4 DEF Typed, Shape, Notices
<1>4. \A d \in End : Bounded(d)'
  <2>1. delivered' = delivered /\ delivered[e] \in [Sid -> Seq(1..MaxSent[Peer(e)])]
    BY <1>1 DEF Typed, Bounded
  <2> QED BY <1>1, <2>1, BoundedConsume
<1> QED BY <1>3, <1>4 DEF Typed

LEMMA TypedReceiveClose ==
  ASSUME Typed, NEW e \in End, ReceiveClose(e)
  PROVE  Typed'
<1> DEFINE f == Arrived(e)
           left == streams[e] \ {f.sid}
<1>1. /\ wire[Peer(e)] # <<>> /\ f.type = "Close"
      /\ wire' = [wire EXCEPT ![Peer(e)] = Tail(@)]
      /\ notify' = [notify EXCEPT ![e] = IF sending[e] THEN Append(@, f) ELSE @]
      /\ streams' = [streams EXCEPT ![e] = @ \ {f.sid}]
      /\ delivered' = Delivered(e, left)
      /\ closed' = [closed EXCEPT ![e] = @ \cup ({f.sid} \cap held[e])]
      /\ UNCHANGED <<participant, held, checked, sent, opens, outbox, sending, store, closing,
                     receiving, close_send, panicked, shutdown, broken>>
  BY DEF ReceiveClose, Consume, Notify, appVars, sendVars
<1>2. f.sid \in Sid /\ f \in Notices
  <2>1. Peer(e) \in End /\ f \in Frame(Peer(e))
    BY <1>1, PeerFacts, ArrivedFacts
  <2>2. f.sid \in Sid /\ f = Close(f.sid)
    BY <1>1, <2>1, FrameFacts
  <2> QED BY <2>2 DEF Notices, Close, Event
<1> HIDE DEF f, left
<1>3. /\ delivered' = [d \in End |-> delivered'[d]]
      /\ \A d \in End : d # e => delivered'[d] = delivered[d]
      /\ delivered'[e] \in [Sid -> Seq(1..MaxSent[Peer(e)])]
  <2>1. /\ Delivered(e, left) = [d \in End |-> Delivered(e, left)[d]]
        /\ \A d \in End : d # e => Delivered(e, left)[d] = delivered[d]
        /\ Delivered(e, left)[e] \in [Sid -> Seq(1..MaxSent[Peer(e)])]
    BY DeliveredFacts
  <2> QED BY <1>1, <2>1
<1>4. Shape'
  <2>1. notify \in [End -> Seq(Notices)] /\ sending \in [End -> BOOLEAN]
    BY DEF Typed, Shape, Notices
  <2>2. notify' \in [End -> Seq(Notices)]
    BY <1>1, <1>2, <2>1
  <2> QED BY <1>1, <1>2, <1>3, <2>2 DEF Typed, Shape, Notices
<1>5. \A d \in End : Bounded(d)'
  BY <1>1, <1>3, BoundedConsume
<1> QED BY <1>4, <1>5 DEF Typed

LEMMA TypedReceiveData ==
  ASSUME Typed, NEW e \in End, ReceiveData(e)
  PROVE  Typed'
<1> DEFINE f == Arrived(e)
           V == Seq(1..MaxSent[Peer(e)])
<1>1. /\ wire[Peer(e)] # <<>> /\ f.type = "Data"
      /\ wire' = [wire EXCEPT ![Peer(e)] = Tail(@)]
      /\ delivered' = IF f.sid \in streams[e]
                        THEN [delivered EXCEPT ![e][f.sid] = Append(@, f.n)]
                        ELSE delivered
      /\ UNCHANGED <<participant, held, checked, sent, opens, outbox, sending, store, closing,
                     receiving, streams, closed, notify, close_send, panicked, shutdown, broken>>
  BY DEF ReceiveData, Consume, appVars, sendVars, bothVars
<1>2. f.sid \in Sid /\ f.n \in 1..MaxSent[Peer(e)]
  <2>1. Peer(e) \in End /\ f \in Frame(Peer(e))
    BY <1>1, PeerFacts, ArrivedFacts
  <2> QED BY <1>1, <2>1, FrameFacts
<1> HIDE DEF f
<1>3. delivered[e] \in [Sid -> V] /\ delivered = [d \in End |-> delivered[d]]
  BY DEF Typed, Shape, Bounded
<1>4. \A v \in V : Append(v, f.n) \in V
  BY <1>2
<1> HIDE DEF V
<1>5. /\ delivered' = [d \in End |-> delivered'[d]]
      /\ \A d \in End : d # e => delivered'[d] = delivered[d]
      /\ delivered'[e] \in [Sid -> V]
  <2>1. CASE f.sid \in streams[e]
    <3> DEFINE new == [delivered[e] EXCEPT ![f.sid] = Append(@, f.n)]
    <3>1. delivered' = [delivered EXCEPT ![e] = new]
      BY <1>1, <2>1
    <3>2. new \in [Sid -> V]
      BY <1>2, <1>3, <1>4
    <3> HIDE DEF new
    <3> QED BY <1>3, <3>1, <3>2
  <2>2. CASE f.sid \notin streams[e]
    BY <1>1, <1>3, <2>2
  <2> QED BY <2>1, <2>2
<1>6. Shape'
  BY <1>1, <1>5 DEF Typed, Shape
<1>7. \A d \in End : Bounded(d)'
  BY <1>1, <1>5, BoundedConsume DEF V
<1> QED BY <1>6, <1>7 DEF Typed

LEMMA TypedPanic ==
  ASSUME Typed, NEW e \in End, NEW why \in {"unknown stream", "nobody to open"}, Panic(e, why)
  PROVE  Typed'
<1> DEFINE w == IF Deaf(e) \/ ~ sending[e] THEN wire[e] ELSE Append(wire[e], Eof)
<1>1. Peer(e) \in End /\ Peer(e) # e /\ \A d \in End : d = e \/ d = Peer(e)
  BY PeerFacts
<1>2. /\ panicked' = [panicked EXCEPT ![e] = why]
      /\ sending' = [sending EXCEPT ![e] = FALSE]
      /\ receiving' = [receiving EXCEPT ![e] = FALSE]
      /\ streams' = [streams EXCEPT ![e] = {}]
      /\ wire' = [wire EXCEPT ![e] = w, ![Peer(e)] = <<>>]
      /\ held' = [held EXCEPT ![e] = {}]
      /\ closed' = [closed EXCEPT ![e] = {}]
      /\ checked' = [checked EXCEPT ![e] = NoSid]
      /\ close_send' = [close_send EXCEPT ![e] = FALSE]
      /\ UNCHANGED <<participant, sent, opens, outbox, notify, delivered, shutdown, store,
                     closing, broken>>
  <2>1. wire' = [wire EXCEPT ![e] = IF Deaf(e) \/ ~ sending[e] THEN @ ELSE Append(@, Eof),
                             ![Peer(e)] = <<>>]
    BY DEF Panic
  <2>2. wire' = [wire EXCEPT ![e] = w, ![Peer(e)] = <<>>]
    BY <2>1
  <2> QED BY <2>2 DEF Panic
<1>3. w \in Seq(Frame(e)) /\ <<>> \in Seq(Frame(Peer(e)))
  <2> DEFINE X == Frame(e)
             v == wire[e]
  <2>1. v \in Seq(X) /\ Eof \in X
    BY DEF Typed, Bounded, Frame
  <2> HIDE DEF X, v
  <2>2. Append(v, Eof) \in Seq(X)
    BY <2>1, SequenceFacts
  <2>3. w = v \/ w = Append(v, Eof)
    BY DEF v
  <2> HIDE DEF w
  <2>4. w \in Seq(X)
    BY <2>1, <2>2, <2>3
  <2>5. <<>> \in Seq(Frame(Peer(e)))
    BY EmptySeq
  <2> QED BY <2>4, <2>5 DEF X
<1> HIDE DEF w
<1>4. Shape'
  BY <1>2 DEF Typed, Shape
<1>5. ASSUME NEW d \in End PROVE Bounded(d)'
  <2>1. Bounded(d) /\ wire'[e] = w /\ wire'[Peer(e)] = <<>>
    BY <1>1, <1>2 DEF Typed, Shape
  <2>2. CASE d = e
    <3>1. checked'[e] = NoSid
      BY <1>2 DEF Typed, Shape
    <3> QED BY <1>2, <1>3, <2>1, <2>2, <3>1 DEF Bounded, IsStore
  <2>3. CASE d = Peer(e)
    <3>1. checked'[d] = checked[d]
      BY <1>1, <1>2, <2>3 DEF Typed, Shape
    <3> QED BY <1>2, <1>3, <2>1, <2>3, <3>1 DEF Bounded, IsStore
  <2> QED BY <1>1, <2>2, <2>3
<1> QED BY <1>4, <1>5 DEF Typed

\* What the application and the streams may be asked of.
LEMMA PickFacts ==
  ASSUME Typed, NEW e \in End, NEW pick \in Picks(e)
  PROVE  \/ pick.type = "tick" /\ pick.sid = NoSid
         \/ pick.type = "remove" /\ pick.sid = NoSid /\ close_send[e]
         \/ /\ pick.type = "open" /\ pick.sid = <<e, opens[e] + 1>> /\ pick.sid \in Sid
            /\ participant[e] = "held" /\ opens[e] < MaxOpen[e]
         \/ /\ pick.type = "close" /\ pick.sid \in held[e] /\ pick.sid # checked[e]
            /\ pick.sid \in Sid
<1>1. pick \in {Event("tick", NoSid)}
        \cup (IF participant[e] = "held" /\ opens[e] < MaxOpen[e]
               THEN {Event("open", <<e, opens[e] + 1>>)} ELSE {})
        \cup {Event("close", s) : s \in held[e] \ {checked[e]}}
        \cup (IF close_send[e] THEN {Event("remove", NoSid)} ELSE {})
  BY DEF Picks
<1>2. CASE pick = Event("tick", NoSid)
  BY <1>2 DEF Event
<1>3. CASE close_send[e] /\ pick = Event("remove", NoSid)
  BY <1>3 DEF Event
<1>4. CASE /\ participant[e] = "held" /\ opens[e] < MaxOpen[e]
           /\ pick = Event("open", <<e, opens[e] + 1>>)
  <2>1. opens[e] \in Nat /\ MaxOpen[e] \in Nat
    BY ConstantFacts DEF Typed, Shape
  <2>2. <<e, opens[e] + 1>> \in Sid
    BY <1>4, <2>1, SidFacts
  <2> QED BY <1>4, <2>2 DEF Event
<1>5. CASE \E s \in held[e] \ {checked[e]} : pick = Event("close", s)
  <2>1. held[e] \subseteq Sid
    BY DEF Typed, Shape
  <2> QED BY <1>5, <2>1 DEF Event
<1> QED BY <1>1, <1>2, <1>3, <1>4, <1>5

LEMMA PrefixFacts ==
  ASSUME NEW X, NEW w \in Seq(X), NEW k \in 0..Len(w)
  PROVE  /\ SubSeq(w, 1, k) \in Seq(X) /\ DOMAIN SubSeq(w, 1, k) = 1..k
         /\ \A i \in 1..k : SubSeq(w, 1, k)[i] = w[i] /\ i \in DOMAIN w
<1>1. Len(w) \in Nat /\ DOMAIN w = 1..Len(w) /\ \A i \in DOMAIN w : w[i] \in X
  OBVIOUS
<1>2. k \in Nat /\ k <= Len(w)
  BY <1>1
<1>3. \A i \in 1..k : w[i] \in X /\ i \in DOMAIN w
  <2> SUFFICES ASSUME NEW i \in 1..k PROVE w[i] \in X /\ i \in DOMAIN w
    OBVIOUS
  <2>1. i \in 1..Len(w)
    BY <1>1, <1>2
  <2> QED BY <1>1, <2>1
<1>4. /\ SubSeq(w, 1, k) \in Seq(X)
      /\ Len(SubSeq(w, 1, k)) = IF 1 <= k THEN k - 1 + 1 ELSE 0
      /\ \A i \in 1..(k - 1 + 1) : SubSeq(w, 1, k)[i] = w[1 + i - 1]
  <2>1. 1 \in Int /\ k \in Int
    BY <1>2
  <2> QED BY <1>3, <2>1, SubSeqProperties
<1>5. Len(SubSeq(w, 1, k)) = k
  BY <1>2, <1>4
<1>6. \A i \in 1..k : i \in 1..(k - 1 + 1) /\ 1 + i - 1 = i
  BY <1>2
<1> QED BY <1>3, <1>4, <1>5, <1>6

\* What is left of a wire when the connection breaks.
LEMMA BreakWire ==
  ASSUME Typed, Break, NEW e \in End
  PROVE  \E k \in 0..Len(wire[e]) :
           wire'[e] = IF receiving[Peer(e)] THEN Append(SubSeq(wire[e], 1, k), Eof) ELSE <<>>
<1> DEFINE M == Max({Len(wire[d]) : d \in End})
<1>1. PICK cut \in [End -> 0..M] :
        /\ \A d \in End : cut[d] <= Len(wire[d])
        /\ wire' = [d \in End |->
                      IF receiving[Peer(d)] THEN Append(SubSeq(wire[d], 1, cut[d]), Eof) ELSE <<>>]
  BY DEF Break
<1> HIDE DEF M
<1>2. cut[e] \in 0..Len(wire[e])
  <2>1. Len(wire[e]) \in Nat
    BY DEF Typed, Bounded
  <2>2. cut[e] \in 0..M /\ cut[e] <= Len(wire[e])
    BY <1>1
  <2> QED BY <2>1, <2>2
<1>3. wire'[e] = IF receiving[Peer(e)] THEN Append(SubSeq(wire[e], 1, cut[e]), Eof) ELSE <<>>
  BY <1>1
<1> QED BY <1>2, <1>3

LEMMA BreakShape ==
  ASSUME Break
  PROVE  wire' = [e \in End |-> wire'[e]]
BY DEF Break

LEMMA BreakFacts ==
  ASSUME Break
  PROVE  /\ broken' = TRUE
         /\ UNCHANGED <<participant, held, checked, sent, opens, outbox, sending, store, closing,
                        delivered, receiving, streams, closed, notify, close_send, panicked,
                        shutdown>>
<1>1. broken' = TRUE /\ UNCHANGED <<appVars, sendVars, recvVars, bothVars, shutdown>>
  BY DEF Break
<1> QED BY ONLY <1>1 DEF appVars, sendVars, recvVars, bothVars

LEMMA TypedBreak ==
  ASSUME Typed, Break
  PROVE  Typed'
<1>1. Shape'
  <2>1. broken' \in BOOLEAN
    BY BreakFacts
  <2>2. wire' = [e \in End |-> wire'[e]]
    BY BreakShape
  <2>3. /\ Shape
        /\ UNCHANGED <<participant, held, checked, sent, opens, outbox, sending, store, closing,
                       delivered, receiving, streams, closed, notify, close_send, shutdown>>
        /\ panicked' = panicked
    BY BreakFacts DEF Typed
  <2> QED BY ONLY <2>1, <2>2, <2>3 DEF Shape
<1>2. ASSUME NEW e \in End PROVE Bounded(e)'
  <2> DEFINE X == Frame(e)
             w == wire[e]
  <2>1. PICK k \in 0..Len(w) :
          wire'[e] = IF receiving[Peer(e)] THEN Append(SubSeq(w, 1, k), Eof) ELSE <<>>
    BY BreakWire
  <2>2. w \in Seq(X) /\ Eof \in X
    BY DEF Typed, Bounded, Frame
  <2> HIDE DEF w, X
  <2>3. SubSeq(w, 1, k) \in Seq(X)
    BY <2>2, PrefixFacts
  <2>4. Append(SubSeq(w, 1, k), Eof) \in Seq(X) /\ <<>> \in Seq(X)
    BY <2>2, <2>3, SequenceFacts, EmptySeq
  <2>5. wire'[e] \in Seq(X)
    BY <2>1, <2>4
  <2> QED BY <2>5, BreakFacts DEF Typed, Bounded, IsStore, X
<1> QED BY <1>1, <1>2 DEF Typed

-----------------------------------------------------------------------------
(* A turn of send_mgr *)

Opening(pick) == IF pick.type = "open" THEN {pick.sid} ELSE {}
Closing(pick) == IF pick.type = "close" THEN {pick.sid} ELSE {}
Told(e)       == Announces(notify[e])

\* The streams that are open when messages are taken from the channel.
LEMMA PreparedFacts ==
  ASSUME Typed, NEW e \in End, NEW pick \in Picks(e)
  PROVE  /\ Prepared(e, pick) \in Situation(e)
         /\ Prepared(e, pick).closing = closing[e]
         /\ Prepared(e, pick).out = IF pick.type = "open" THEN <<Open(pick.sid)>> ELSE <<>>
         /\ DOMAIN Prepared(e, pick).store = DOMAIN store[e] \cup Told(e) \cup Opening(pick)
         /\ \A s \in DOMAIN Prepared(e, pick).store :
              Prepared(e, pick).store[s] =
                IF s \in Told(e) \cup Opening(pick) THEN Empty ELSE store[e][s]
<1> DEFINE p0 == [store |-> store[e], closing |-> closing[e], out |-> <<>>]
           p1 == IF pick.type = "open" THEN SendOpen(p0, pick.sid) ELSE p0
           w == notify[e]
<1>1. Prepared(e, pick) = Notified(p1, w)
  BY DEF Prepared
<1>2. store[e] \in Stores(e) /\ closing[e] \in Seq(Sid) /\ w \in Seq(Notices)
  BY StoreSets DEF Typed, Shape, Bounded, Notices
<1>3. /\ p1 \in Situation(e) /\ p1.closing = closing[e]
      /\ p1.out = IF pick.type = "open" THEN <<Open(pick.sid)>> ELSE <<>>
      /\ DOMAIN p1.store = DOMAIN store[e] \cup Opening(pick)
      /\ \A s \in DOMAIN p1.store :
           p1.store[s] = IF s \in Opening(pick) THEN Empty ELSE store[e][s]
  <2>1. CASE pick.type = "open"
    <3> DEFINE st == open_stream(store[e], pick.sid)
               f == Event("Open", pick.sid)
    <3>1. pick.sid \in Sid
      BY <2>1, PickFacts
    <3>2. /\ st \in Stores(e) /\ DOMAIN st = DOMAIN store[e] \cup {pick.sid}
          /\ st[pick.sid] = Empty
          /\ \A r \in DOMAIN store[e] : r # pick.sid => st[r] = store[e][r]
      <4> DEFINE old == store[e]
                 s == pick.sid
      <4>1. old \in Stores(e) /\ s \in Sid
        BY <1>2, <3>1
      <4> HIDE DEF old, s
      <4>2. /\ open_stream(old, s) \in Stores(e)
            /\ DOMAIN open_stream(old, s) = DOMAIN old \cup {s}
            /\ open_stream(old, s)[s] = Empty
            /\ \A r \in DOMAIN old : r # s => open_stream(old, s)[r] = old[r]
        BY <4>1, OpenStreamFacts
      <4> QED BY <4>2 DEF old, s
    <3>3. f \in Frame(e) /\ f = Open(pick.sid)
      BY <3>1 DEF Frame, Event, Open
    <3>4. p1 = [store |-> st, closing |-> closing[e], out |-> Append(<<>>, f)]
      BY <2>1 DEF SendOpen
    <3> HIDE DEF st, f, p1
    <3>5. Append(<<>>, f) = <<f>> /\ <<f>> \in Seq(Frame(e))
      BY <3>3
    <3>6. p1 \in Situation(e)
      BY <1>2, <3>2, <3>4, <3>5 DEF Situation
    <3> QED BY <2>1, <3>2, <3>3, <3>4, <3>5, <3>6 DEF Opening
  <2>2. CASE pick.type # "open"
    <3>1. <<>> \in Seq(Frame(e))
      BY EmptySeq
    <3> QED BY <1>2, <2>2, <3>1 DEF Situation, Opening
  <2> QED BY <2>1, <2>2
<1> HIDE DEF p1, w
<1>4. PICK st \in Stores(e) : Heeds(p1, w, st)
  <2>1. p1.store \in Stores(e)
    BY <1>3, SituationFacts
  <2>2. w \in Seq(Notices)
    BY <1>2
  <2> QED BY <2>1, <2>2, NotifiedFacts
<1>5. /\ Notified(p1, w) = [p1 EXCEPT !.store = st]
      /\ DOMAIN st = DOMAIN p1.store \cup Announces(w)
      /\ \A s \in DOMAIN st : st[s] = IF s \in Announces(w) THEN Empty ELSE p1.store[s]
  BY <1>4 DEF Heeds
<1>6. /\ [p1 EXCEPT !.store = st] \in Situation(e)
      /\ [p1 EXCEPT !.store = st].store = st /\ [p1 EXCEPT !.store = st].closing = p1.closing
      /\ [p1 EXCEPT !.store = st].out = p1.out
  BY <1>3 DEF Situation
<1>7. Announces(w) = Told(e)
  BY DEF Told, w
<1>8. DOMAIN st = DOMAIN store[e] \cup Told(e) \cup Opening(pick)
  BY <1>3, <1>5, <1>7
<1>9. \A s \in DOMAIN st : st[s] = IF s \in Told(e) \cup Opening(pick) THEN Empty ELSE store[e][s]
  BY <1>3, <1>5, <1>7
<1> QED BY <1>1, <1>3, <1>5, <1>6, <1>8, <1>9

\* The streams send_mgr may close in a turn.
Ceding(e, pick) == ToSet(closing[e]) \cup Closing(pick)

\* From the store st, the messages of the channel ahead, to the queues of new.
Loads(st, messages, new) ==
  \A s \in Sid, t, q, r \in Nat :
    t <= q /\ q <= r /\ Queues(st, s, t, q) /\ Carries(AsData(messages), s, q, r) =>
      Queues(new, s, t, r)

\* What a turn does: it opens streams and takes all messages, which is p, and
\* writes x, which leaves q; then perhaps Shutdown and Eof, which are z.
Turning(e, pick, p, q, x, z, ends) ==
  /\ p \in Situation(e) /\ q \in Situation(e) /\ x \in Seq(Frame(e))
  /\ z \in Seq({Shutdown, Eof}) /\ ends \in BOOLEAN
  /\ DOMAIN p.store = DOMAIN store[e] \cup Told(e) \cup Opening(pick)
  /\ p.out = IF pick.type = "open" THEN <<Open(pick.sid)>> ELSE <<>>
  /\ p.closing = closing[e]
  /\ Loads(store[e], outbox[e], p.store)
  /\ Shrinks(e, p, q, Ceding(e, pick)) /\ Tells(p, q, x, Ceding(e, pick))

Turned(e, pick, p, q, x, z, ends) ==
  /\ Deaf(e) \/ pick.type = "remove" \/ ~ends
  /\ store' = [store EXCEPT ![e] = IF ends THEN <<>> ELSE q.store]
  /\ closing' = [closing EXCEPT ![e] = IF ends THEN <<>> ELSE q.closing]
  /\ wire' = [wire EXCEPT ![e] = IF Deaf(e) THEN @ ELSE @ \o (p.out \o x \o z)]
  /\ sending' = [sending EXCEPT ![e] = ~ends]
  /\ close_send' = [close_send EXCEPT ![e] = @ /\ ~ends]
  /\ held' = [held EXCEPT ![e] = IF ends THEN {} ELSE Streams(@, pick)]
  /\ closed' = [closed EXCEPT ![e] = IF ends THEN {} ELSE @ \ {pick.sid}]
  /\ checked' = [checked EXCEPT ![e] = IF ends THEN NoSid ELSE @]
  /\ notify' = [notify EXCEPT ![e] = <<>>]
  /\ outbox' = [outbox EXCEPT ![e] = <<>>]
  /\ opens' = [opens EXCEPT ![e] = IF pick.type = "open" THEN @ + 1 ELSE @]
  /\ streams' = [streams EXCEPT ![e] = Streams(@, pick)]
  /\ delivered' = Delivered(e, Streams(streams[e], pick))
  /\ UNCHANGED <<participant, sent, receiving, panicked, shutdown, broken>>

\* send_mgr knows the streams it is asked about.
LEMMA KnownFacts ==
  ASSUME Typed, Acquainted, NEW e \in End, sending[e], NEW pick \in Picks(e)
  PROVE  /\ Ready(e)
         /\ held[e] \subseteq DOMAIN store[e] \cup Told(e)
         /\ \A i \in DOMAIN outbox[e] : outbox[e][i][1] \in DOMAIN store[e] \cup Told(e)
         /\ DOMAIN store[e] \cap (Told(e) \cup Opening(pick)) = {}
         /\ pick.type = "close" =>
              pick.sid \in DOMAIN store[e] \cup Told(e) /\ pick.sid \notin ToSet(closing[e])
<1>1. Ready(e)
  BY DEF Acquainted, Serves
<1>2. held[e] \subseteq Sid /\ IsStore(e, store[e]) /\ DOMAIN store[e] \subseteq Sid
  BY DEF Typed, Shape, Bounded, IsStore
<1>3. held[e] \subseteq DOMAIN store[e] \cup Told(e)
  BY <1>1, <1>2 DEF Ready, Told, Announces
<1>4. \A i \in DOMAIN outbox[e] : outbox[e][i][1] \in DOMAIN store[e] \cup Told(e)
  BY <1>1, <1>3 DEF Ready
<1>5. DOMAIN store[e] \cap Told(e) = {}
  BY <1>1 DEF Ready, Told, Announces
<1>6. DOMAIN store[e] \cap Opening(pick) = {}
  <2> SUFFICES ASSUME pick.type = "open" PROVE pick.sid \notin DOMAIN store[e]
    BY DEF Opening
  <2> DEFINE s == <<e, opens[e] + 1>>
  <2>1. pick.sid = s /\ s \in Sid
    BY PickFacts
  <2>2. s[1] = e /\ s[2] > opens[e]
    <3>1. opens[e] \in Nat
      BY DEF Typed, Shape
    <3> QED BY <3>1
  <2> HIDE DEF s
  <2>3. Unborn(s) /\ Life(s)
    BY <2>1, <2>2 DEF Unborn, Acquainted
  <2>4. ~Knows(e, s)
    BY <2>2, <2>3 DEF Life
  <2> QED BY <2>1, <2>4 DEF Knows
<1>7. ASSUME pick.type = "close"
      PROVE  pick.sid \in DOMAIN store[e] \cup Told(e) /\ pick.sid \notin ToSet(closing[e])
  <2>1. pick.sid \in held[e]
    BY <1>7, PickFacts
  <2> QED BY <1>1, <1>3, <2>1 DEF Ready
<1> QED BY <1>1, <1>3, <1>4, <1>5, <1>6, <1>7

\* Opened streams are empty: nothing of them was queued before either.
LEMMA LoadsFacts ==
  ASSUME Typed, Acquainted, NEW e \in End, sending[e], NEW pick \in Picks(e)
  PROVE  /\ Messaged(e, pick) \in Situation(e)
         /\ Messaged(e, pick).closing = closing[e]
         /\ Messaged(e, pick).out = IF pick.type = "open" THEN <<Open(pick.sid)>> ELSE <<>>
         /\ DOMAIN Messaged(e, pick).store = DOMAIN store[e] \cup Told(e) \cup Opening(pick)
         /\ Loads(store[e], outbox[e], Messaged(e, pick).store)
<1> DEFINE p == Prepared(e, pick)
           w == outbox[e]
           old == store[e]
           new == Told(e) \cup Opening(pick)
<1>1. /\ p \in Situation(e) /\ p.closing = closing[e]
      /\ p.out = IF pick.type = "open" THEN <<Open(pick.sid)>> ELSE <<>>
      /\ DOMAIN p.store = DOMAIN old \cup new
      /\ \A s \in DOMAIN p.store : p.store[s] = IF s \in new THEN Empty ELSE old[s]
  BY PreparedFacts
<1>2. DOMAIN old \cap new = {} /\ \A i \in DOMAIN w : w[i][1] \in DOMAIN old \cup Told(e)
  BY KnownFacts
<1>3. w \in Seq(Sid \X (1..MaxSent[e])) /\ \A i \in DOMAIN w : w[i][1] \in DOMAIN p.store
  BY <1>1, <1>2 DEF Typed, Bounded
<1>4. Messaged(e, pick) = SendMessages(p, w)
  BY DEF Messaged
<1> HIDE DEF p, w, old, new
<1>5. p.store \in Stores(e)
  BY <1>1, SituationFacts
<1>6. PICK st \in Stores(e) :
        /\ SendMessages(p, w) = [p EXCEPT !.store = st]
        /\ DOMAIN st = DOMAIN p.store
        /\ \A s \in Sid, t, q, r \in Nat :
             t <= q /\ q <= r /\ Queues(p.store, s, t, q) /\ Carries(AsData(w), s, q, r) =>
               Queues(st, s, t, r)
  BY <1>3, <1>5, MessagesFlow
<1>7. \A s \in Sid, t, q \in Nat : Queues(old, s, t, q) => Queues(p.store, s, t, q)
  <2> SUFFICES ASSUME NEW s \in Sid, NEW t \in Nat, NEW q \in Nat, Queues(old, s, t, q)
               PROVE  Queues(p.store, s, t, q)
    OBVIOUS
  <2> DEFINE ps == p.store
  <2>0. /\ DOMAIN ps = DOMAIN old \cup new
        /\ \A r \in DOMAIN ps : ps[r] = IF r \in new THEN Empty ELSE old[r]
    BY <1>1
  <2> HIDE DEF ps
  <2>1. CASE s \in new
    <3>1. s \notin DOMAIN old /\ q = t
      BY <1>2, <2>1 DEF Queues
    <3>2. s \in DOMAIN ps /\ ps[s] = Empty
      BY <2>0, <2>1
    <3>3. Queues(ps, s, t, q)
      BY <3>1, <3>2, EmptyFacts
    <3> QED BY <3>3 DEF ps
  <2>2. CASE s \notin new /\ s \in DOMAIN old
    <3>1. s \in DOMAIN ps /\ ps[s] = old[s]
      BY <2>0, <2>2
    <3>2. Queues(ps, s, t, q)
      BY <2>2, <3>1 DEF Queues
    <3> QED BY <3>2 DEF ps
  <2>3. CASE s \notin new /\ s \notin DOMAIN old
    <3>1. s \notin DOMAIN ps /\ q = t
      BY <2>0, <2>3 DEF Queues
    <3>2. Queues(ps, s, t, q)
      BY <3>1 DEF Queues
    <3> QED BY <3>2 DEF ps
  <2> QED BY <2>1, <2>2, <2>3
<1>8. Loads(old, w, st)
  BY <1>6, <1>7 DEF Loads
<1>9. /\ [p EXCEPT !.store = st] \in Situation(e) /\ [p EXCEPT !.store = st].store = st
      /\ [p EXCEPT !.store = st].closing = p.closing /\ [p EXCEPT !.store = st].out = p.out
  BY <1>1 DEF Situation
<1> QED BY <1>1, <1>4, <1>6, <1>8, <1>9 DEF old, w, new

LEMMA ShutdownFacts ==
  ASSUME NEW e \in End, NEW m \in Situation(e), NEW q, q = m \/ q = SendShutdown(m)
  PROVE  /\ q.store = m.store /\ q.closing = m.closing
         /\ \E y \in Seq({Shutdown, Eof}) : q.out = m.out \o y
<1>1. m.out \in Seq(Frame(e))
  BY SituationFacts
<1>2. <<>> \in Seq({Shutdown, Eof}) /\ <<Shutdown>> \in Seq({Shutdown, Eof})
  <2> DEFINE X == {Shutdown, Eof}
             f == Shutdown
  <2>1. f \in X
    OBVIOUS
  <2> HIDE DEF X, f
  <2>2. <<>> \in Seq(X) /\ <<f>> \in Seq(X)
    BY <2>1
  <2> QED BY <2>2 DEF X, f
<1>3. m.out \o <<>> = m.out /\ Append(m.out, Shutdown) = m.out \o <<Shutdown>>
  <2> DEFINE X == Frame(e)
             f == Shutdown
             w == m.out
  <2>1. f \in X /\ w \in Seq(X)
    BY <1>1 DEF Frame
  <2> HIDE DEF X, f, w
  <2>2. w \o <<>> = w /\ Append(w, f) = w \o <<f>>
    BY <2>1
  <2> QED BY <2>2 DEF f, w
<1>4. CASE q = m
  BY <1>2, <1>3, <1>4
<1>5. CASE q = SendShutdown(m) /\ q # m
  <2>1. q = [m EXCEPT !.out = Append(@, Shutdown)]
    BY <1>5 DEF SendShutdown
  <2>2. q.store = m.store /\ q.closing = m.closing /\ q.out = Append(m.out, Shutdown)
    BY <2>1 DEF Situation
  <2> QED BY <1>2, <1>3, <2>2
<1> QED BY <1>4, <1>5

LEMMA TurnResult ==
  ASSUME Typed, Acquainted, NEW e \in End, NEW pick \in Picks(e), SendTurn(e, pick)
  PROVE  \E p, q, x, z, ends : /\ Turning(e, pick, p, q, x, z, ends)
                               /\ Turned(e, pick, p, q, x, z, ends)
<1> DEFINE p == Messaged(e, pick)
           C == Ceding(e, pick)
<1>1. sending[e]
  BY DEF SendTurn
<1>2. /\ p \in Situation(e) /\ p.closing = closing[e]
      /\ p.out = IF pick.type = "open" THEN <<Open(pick.sid)>> ELSE <<>>
      /\ DOMAIN p.store = DOMAIN store[e] \cup Told(e) \cup Opening(pick)
      /\ Loads(store[e], outbox[e], p.store)
  BY <1>1, LoadsFacts
<1>3. EndTurn(e, pick)
  <2>1. ~UnknownStream(e, pick)
    <3>1. \A i \in DOMAIN outbox[e] : outbox[e][i][1] \in DOMAIN store[e] \cup Told(e)
      BY <1>1, KnownFacts
    <3>2. DOMAIN Prepared(e, pick).store = DOMAIN store[e] \cup Told(e) \cup Opening(pick)
      BY PreparedFacts
    <3> QED BY <3>1, <3>2 DEF UnknownStream, ToSet
  <2> QED BY <2>1 DEF SendTurn
<1>4. /\ ToSet(p.closing) \subseteq C
      /\ pick.type = "close" => /\ pick.sid \in DOMAIN p.store \cap C
                                /\ pick.sid \notin ToSet(p.closing)
  BY <1>1, <1>2, KnownFacts DEF Ceding, Closing
<1>5. PICK q0 \in Turn(e, pick),
           ends \in {pick.type = "remove"} \cup (IF Deaf(e) THEN {TRUE} ELSE {}) :
       /\ store' = [store EXCEPT ![e] = IF ends THEN <<>> ELSE q0.store]
       /\ closing' = [closing EXCEPT ![e] = IF ends THEN <<>> ELSE q0.closing]
       /\ wire' = [wire EXCEPT ![e] =
                     IF Deaf(e) THEN @ ELSE @ \o q0.out \o (IF ends THEN <<Eof>> ELSE <<>>)]
       /\ sending' = [sending EXCEPT ![e] = ~ends]
       /\ close_send' = [close_send EXCEPT ![e] = @ /\ ~ends]
       /\ held' = [held EXCEPT ![e] = IF ends THEN {} ELSE Streams(@, pick)]
       /\ closed' = [closed EXCEPT ![e] = IF ends THEN {} ELSE @ \ {pick.sid}]
       /\ checked' = [checked EXCEPT ![e] = IF ends THEN NoSid ELSE @]
  BY <1>3 DEF EndTurn
<1>6. /\ notify' = [notify EXCEPT ![e] = <<>>]
      /\ outbox' = [outbox EXCEPT ![e] = <<>>]
      /\ opens' = [opens EXCEPT ![e] = IF pick.type = "open" THEN @ + 1 ELSE @]
      /\ streams' = [streams EXCEPT ![e] = Streams(@, pick)]
      /\ delivered' = Delivered(e, Streams(streams[e], pick))
      /\ UNCHANGED <<participant, sent, receiving, panicked, shutdown, broken>>
  BY <1>3 DEF EndTurn
<1>7. ends \in BOOLEAN /\ (Deaf(e) \/ pick.type = "remove" \/ ~ends)
  OBVIOUS
<1>8. PICK q : /\ Writes(e, p, q, C)
               /\ q0 = q \/ (pick.type = "remove" /\ q0 = SendShutdown(q))
  <2> HIDE DEF C
  <2> QED BY <1>2, <1>4, TurnFacts DEF p
<1> HIDE DEF p, C
<1>9. Shrinks(e, p, q, C) /\ q \in Situation(e)
  BY <1>8 DEF Writes, Shrinks
<1>10. PICK x \in Seq(Frame(e)) : q.out = p.out \o x /\ Tells(p, q, x, C)
  BY <1>8 DEF Writes
<1>11. PICK y \in Seq({Shutdown, Eof}) :
         q0.store = q.store /\ q0.closing = q.closing /\ q0.out = q.out \o y
  <2>1. q0 = q \/ q0 = SendShutdown(q)
    BY <1>8
  <2> QED BY ZenonT(60), <1>9, <2>1, ShutdownFacts
<1>12. PICK z \in Seq({Shutdown, Eof}) :
         wire[e] \o q0.out \o (IF ends THEN <<Eof>> ELSE <<>>) = wire[e] \o (p.out \o x \o z)
  <2> DEFINE X == Frame(e)
             Y == {Shutdown, Eof}
             w == wire[e]
             u == IF ends THEN <<Eof>> ELSE <<>>
             o == p.out
  <2>1. Y \subseteq X /\ w \in Seq(X) /\ o \in Seq(X) /\ x \in Seq(X) /\ y \in Seq(Y)
    BY <1>2, SituationFacts DEF Frame, Typed, Bounded
  <2>2. u \in Seq(Y)
    <3> DEFINE f == Eof
    <3>1. f \in Y
      OBVIOUS
    <3> HIDE DEF f, Y
    <3> QED BY <3>1 DEF f
  <2> HIDE DEF X, Y, w, u, o
  <2>3. y \in Seq(X) /\ u \in Seq(X) /\ y \o u \in Seq(Y)
    <3>1. \A v \in Seq(Y) : v \in Seq(X)
      BY <2>1
    <3> QED BY <2>1, <2>2, <3>1
  <2> DEFINE a == o \o x
             b == a \o y
             z == y \o u
  <2>4. a \in Seq(X)
    BY <2>1
  <2> HIDE DEF a
  <2>5. b \in Seq(X) /\ b \o u = a \o z
    BY <2>3, <2>4, ConcatAssociates
  <2>6. q0.out = b
    BY <1>10, <1>11 DEF a, o
  <2>7. z \in Seq(Y)
    BY <2>3
  <2> HIDE DEF b, z
  <2>8. (w \o b) \o u = w \o (b \o u)
    <3>1. w \in Seq(X) /\ b \in Seq(X) /\ u \in Seq(X)
      BY <2>1, <2>3, <2>5
    <3> QED BY SMTT(60), <3>1, ConcatAssociative
  <2>9. w \o q0.out \o u = w \o (a \o z)
    BY <2>5, <2>6, <2>8
  <2> QED BY <2>7, <2>9 DEF Y, w, u, a, o
<1>13. wire' = [wire EXCEPT ![e] = IF Deaf(e) THEN @ ELSE @ \o (p.out \o x \o z)]
  BY <1>5, <1>12
<1>14. Turning(e, pick, p, q, x, z, ends)
  BY <1>2, <1>7, <1>9, <1>10, <1>12 DEF Turning, p, C
<1>15. Turned(e, pick, p, q, x, z, ends)
  BY <1>5, <1>6, <1>7, <1>11, <1>13 DEF Turned
<1> QED BY <1>14, <1>15

LEMMA StreamsFacts ==
  ASSUME Typed, NEW e \in End, NEW pick \in Picks(e), NEW set
  PROVE  /\ Streams(set, pick) = (set \cup Opening(pick)) \ Closing(pick)
         /\ Opening(pick) \subseteq Sid /\ Closing(pick) \subseteq Sid
         /\ Closing(pick) \subseteq held[e] \ {checked[e]}
         /\ \A s \in Opening(pick) : s = <<e, opens[e] + 1>> /\ s[1] = e /\ opens[e] < MaxOpen[e]
<1> DEFINE s == <<e, opens[e] + 1>>
<1>1. s[1] = e
  OBVIOUS
<1> HIDE DEF s
<1>3. \/ pick.type = "tick" \/ pick.type = "remove"
      \/ pick.type = "open" /\ pick.sid = s /\ pick.sid \in Sid /\ opens[e] < MaxOpen[e]
      \/ pick.type = "close" /\ pick.sid \in held[e] /\ pick.sid # checked[e] /\ pick.sid \in Sid
  BY PickFacts DEF s
<1>4. CASE pick.type = "tick" \/ pick.type = "remove"
  BY <1>4 DEF Streams, Opening, Closing
<1>5. CASE pick.type = "open"
  BY <1>1, <1>3, <1>5 DEF Streams, Opening, Closing, s
<1>6. CASE pick.type = "close"
  BY <1>3, <1>6 DEF Streams, Opening, Closing
<1> QED BY <1>3, <1>4, <1>5, <1>6

\* The wire after a turn.
LEMMA TurnWire ==
  ASSUME Typed, NEW e \in End, NEW pick \in Picks(e), NEW p, NEW q, NEW x, NEW z, NEW ends,
         Turning(e, pick, p, q, x, z, ends)
  PROVE  /\ p.out \in Seq(Frame(e)) /\ x \in Seq(Frame(e)) /\ z \in Seq(Frame(e))
         /\ p.out \o x \in Seq(Frame(e)) /\ p.out \o x \o z \in Seq(Frame(e))
         /\ wire[e] \o (p.out \o x \o z) \in Seq(Frame(e))
<1> DEFINE X == Frame(e)
           Y == {Shutdown, Eof}
           o == p.out
           w == wire[e]
<1>1. o \in Seq(X) /\ x \in Seq(X) /\ z \in Seq(Y) /\ w \in Seq(X) /\ Y \subseteq X
  BY SituationFacts DEF Turning, Typed, Bounded, Frame
<1> HIDE DEF X, Y, o, w
<1>2. z \in Seq(X)
  <2>1. \A v \in Seq(Y) : v \in Seq(X)
    BY <1>1
  <2> QED BY <1>1, <2>1
<1>3. o \o x \in Seq(X) /\ o \o x \o z \in Seq(X)
  BY <1>1, <1>2
<1> DEFINE b == o \o x \o z
<1>4. b \in Seq(X)
  BY <1>3
<1> HIDE DEF b
<1>5. w \o b \in Seq(X)
  BY <1>1, <1>4
<1> QED BY <1>1, <1>2, <1>3, <1>5 DEF X, o, w, b

LEMMA TypedTurn ==
  ASSUME Typed, NEW e \in End, NEW pick \in Picks(e), NEW p, NEW q, NEW x, NEW z, NEW ends,
         Turning(e, pick, p, q, x, z, ends), Turned(e, pick, p, q, x, z, ends)
  PROVE  Typed'
<1> DEFINE left == Streams(streams[e], pick)
<1>1. /\ Streams(held[e], pick) \subseteq Sid /\ left \subseteq Sid /\ ends \in BOOLEAN
  <2>1. held[e] \subseteq Sid /\ streams[e] \subseteq Sid
    BY DEF Typed, Shape
  <2>2. \A set : Streams(set, pick) = (set \cup Opening(pick)) \ Closing(pick)
    BY StreamsFacts
  <2>3. Opening(pick) \subseteq Sid
    BY StreamsFacts
  <2> QED BY <2>1, <2>2, <2>3 DEF Turning
<1>2. /\ delivered' = Delivered(e, left)
      /\ delivered' = [d \in End |-> delivered'[d]]
      /\ \A d \in End : d # e => delivered'[d] = delivered[d]
      /\ delivered'[e] \in [Sid -> Seq(1..MaxSent[Peer(e)])]
  <2>1. delivered' = Delivered(e, left)
    BY DEF Turned
  <2> HIDE DEF left
  <2> QED BY <2>1, DeliveredFacts
<1> HIDE DEF left
<1>3. q.store \in Stores(e) /\ q.closing \in Seq(Sid) /\ <<>> \in Stores(e)
  <2>1. q \in Situation(e)
    BY DEF Turning
  <2>2. IsStore(e, <<>>)
    BY DEF IsStore
  <2> QED BY <2>1, <2>2, SituationFacts, StoreSets
<1>4. Shape'
  <2>1. /\ participant' \in [End -> {"held", "leaving", "dropped"}]
        /\ shutdown' \in [End -> {"idle", "asked", "waiting", "forced", "done"}]
        /\ panicked' \in [End -> {"no", "unknown stream", "nobody to open"}]
        /\ broken' \in BOOLEAN /\ receiving' \in [End -> BOOLEAN]
        /\ sent' = [d \in End |-> sent'[d]]
    BY DEF Typed, Shape, Turned
  <2>2. held' \in [End -> SUBSET Sid] /\ closed' \in [End -> SUBSET Sid]
    BY <1>1 DEF Typed, Shape, Turned
  <2>3. streams' \in [End -> SUBSET Sid]
    BY <1>1 DEF Typed, Shape, Turned, left
  <2>4. checked' \in [End -> Sid \cup {NoSid}] /\ sending' \in [End -> BOOLEAN]
    BY <1>1 DEF Typed, Shape, Turned
  <2>5. opens' \in [End -> Nat]
    <3>1. opens' = [opens EXCEPT ![e] = IF pick.type = "open" THEN @ + 1 ELSE @]
      BY DEF Turned
    <3> DEFINE k == IF pick.type = "open" THEN opens[e] + 1 ELSE opens[e]
    <3>2. opens \in [End -> Nat] /\ opens[e] \in Nat
      BY DEF Typed, Shape
    <3>3. k \in Nat /\ opens' = [opens EXCEPT ![e] = k]
      BY <3>1, <3>2
    <3> HIDE DEF k
    <3> QED BY <3>2, <3>3
  <2>6. notify' \in [End -> Seq([type : {"Open", "Close"}, sid : Sid])]
    <3> DEFINE N == Seq([type : {"Open", "Close"}, sid : Sid])
    <3>1. <<>> \in N /\ notify \in [End -> N] /\ notify' = [notify EXCEPT ![e] = <<>>]
      BY EmptySeq DEF Typed, Shape, Turned
    <3> HIDE DEF N
    <3>2. notify' \in [End -> N]
      BY <3>1
    <3> QED BY <3>2 DEF N
  <2>7. close_send' \in [End -> BOOLEAN]
    <3>1. close_send' = [close_send EXCEPT ![e] = @ /\ ~ends]
      BY DEF Turned
    <3>2. (close_send[e] /\ ~ends) \in BOOLEAN
      OBVIOUS
    <3> QED BY <3>1, <3>2 DEF Typed, Shape
  <2>8. closing' \in [End -> Seq(Sid)]
    <3> DEFINE N == Seq(Sid)
    <3>1. <<>> \in N /\ q.closing \in N /\ closing \in [End -> N]
      BY <1>3, EmptySeq DEF Typed, Shape
    <3>2. closing' = [closing EXCEPT ![e] = IF ends THEN <<>> ELSE q.closing]
      BY DEF Turned
    <3> HIDE DEF N
    <3>3. closing' \in [End -> N]
      BY <3>1, <3>2
    <3> QED BY <3>3 DEF N
  <2>9. outbox' = [d \in End |-> outbox'[d]] /\ store' = [d \in End |-> store'[d]]
        /\ wire' = [d \in End |-> wire'[d]]
    BY DEF Typed, Shape, Turned
  <2> QED BY <1>2, <2>1, <2>2, <2>3, <2>4, <2>5, <2>6, <2>7, <2>8, <2>9 DEF Shape
<1>5. ASSUME NEW d \in End, d # e PROVE Bounded(d)'
  <2>1. /\ opens'[d] = opens[d] /\ outbox'[d] = outbox[d] /\ store'[d] = store[d]
        /\ wire'[d] = wire[d] /\ sent'[d] = sent[d] /\ checked'[d] = checked[d]
    BY <1>5 DEF Typed, Shape, Turned
  <2> QED BY <1>2, <1>5, <2>1, BoundedKept DEF Typed
<1>6. Bounded(e)'
  <2>1. opens'[e] <= MaxOpen[e]
    <3>1. opens[e] <= MaxOpen[e] /\ opens[e] \in Nat /\ MaxOpen[e] \in Nat
      BY ConstantFacts DEF Typed, Shape, Bounded
    <3>2. opens'[e] = IF pick.type = "open" THEN opens[e] + 1 ELSE opens[e]
      BY DEF Turned, Typed, Shape
    <3>3. pick.type = "open" => opens[e] < MaxOpen[e]
      BY PickFacts
    <3> QED BY <3>1, <3>2, <3>3
  <2>2. sent'[e] \in [Sid -> 0..MaxSent[e]]
    BY DEF Typed, Bounded, Turned
  <2>3. outbox'[e] \in Seq(Sid \X (1..MaxSent[e]))
    <3>1. outbox'[e] = <<>>
      BY DEF Turned, Typed, Shape
    <3> QED BY <3>1, EmptySeq
  <2>4. IsStore(e, store'[e])
    <3>1. store'[e] \in Stores(e)
      BY <1>1, <1>3 DEF Turned, Typed, Shape
    <3> QED BY <3>1, StoreSets
  <2>5. wire'[e] \in Seq(Frame(e))
    <3>1. wire'[e] = IF Deaf(e) THEN wire[e] ELSE wire[e] \o (p.out \o x \o z)
      BY DEF Turned, Typed, Shape
    <3>2. wire[e] \in Seq(Frame(e)) /\ wire[e] \o (p.out \o x \o z) \in Seq(Frame(e))
      BY TurnWire DEF Typed, Bounded
    <3> QED BY <3>1, <3>2
  <2>6. checked'[e] # NoSid => sent'[e][checked'[e]] < MaxSent[e]
    BY <1>1 DEF Typed, Shape, Bounded, Turned
  <2>7. IsStore(e, store[e])'
    BY <2>4 DEF IsStore
  <2> QED BY <1>2, <2>1, <2>2, <2>3, <2>5, <2>6, <2>7 DEF Bounded
<1> QED BY <1>4, <1>5, <1>6 DEF Typed

\* send_mgr panics in no state of the invariant.
LEMMA TypedNext ==
  ASSUME Typed, Acquainted, [Next]_vars
  PROVE  Typed'
<1>1. ASSUME UNCHANGED vars PROVE Typed'
  <2>1. Shape'
    BY <1>1 DEF Typed, Shape, vars, appVars, sendVars, recvVars, bothVars, wireVars
  <2>2. \A d \in End : Bounded(d)'
    BY <1>1, BoundedKept DEF Typed, vars, appVars, sendVars, recvVars, bothVars, wireVars
  <2> QED BY <2>1, <2>2 DEF Typed
<1>2. ASSUME NEW e \in End, NEW pick \in Picks(e), SendTurn(e, pick) PROVE Typed'
  <2>1. PICK p, q, x, z, ends : /\ Turning(e, pick, p, q, x, z, ends)
                                /\ Turned(e, pick, p, q, x, z, ends)
    BY <1>2, TurnResult
  <2> QED BY <2>1, TypedTurn
<1>3. ASSUME NEW e \in End, Receive(e) PROVE Typed'
  <2>1. CASE ReceiveOpen(e)
    BY <2>1, TypedReceiveOpen
  <2>2. CASE ReceivePanic(e)
    <3>1. Panic(e, "nobody to open")
      BY <2>2 DEF ReceivePanic
    <3> QED BY <3>1, TypedPanic
  <2>3. CASE ReceiveClose(e)
    BY <2>3, TypedReceiveClose
  <2>4. CASE ReceiveData(e)
    BY <2>4, TypedReceiveData
  <2>5. CASE ReceiveEnd(e)
    BY <2>5, TypedStop
  <2> QED BY <1>3, <2>1, <2>2, <2>3, <2>4, <2>5 DEF Receive
<1>4. ASSUME NEW e \in End,
             \/ \E how \in {"leaving", "dropped"} : Leave(e, how)
             \/ CloseChannel(e) \/ Timeout(e) \/ Finish(e)
      PROVE  Typed'
  BY <1>4, TypedQuiet
<1>5. ASSUME NEW e \in End, Send(e) PROVE Typed'
  BY <1>5, TypedSend
<1>6. ASSUME NEW e \in End, NEW s \in Sid, Check(e, s) PROVE Typed'
  BY <1>6, TypedCheck
<1>7. ASSUME NEW e \in End, ForcedEnd(e) PROVE Typed'
  BY <1>7, TypedStop
<1>8. ASSUME Break PROVE Typed'
  BY <1>8, TypedBreak
<1> QED BY <1>1, <1>2, <1>3, <1>4, <1>5, <1>6, <1>7, <1>8 DEF Next

-----------------------------------------------------------------------------
(* The life of a stream *)

\* What a wire keeps of another one: frames of streams that follow each other
\* there as they do here.
Rest(w, new) ==
  \E k \in Nat : \A j \in DOMAIN new :
    new[j].sid \in Sid => j + k \in DOMAIN w /\ w[j + k] = new[j]

First(w, s) == \A i, j \in DOMAIN w : w[i] = Open(s) /\ w[j].sid = s => i <= j

LEMMA EventFacts ==
  ASSUME NEW s \in Sid
  PROVE  /\ Open(s).sid = s /\ Open(s).type = "Open" /\ Close(s).sid = s
         /\ Close(s).type = "Close" /\ Open(s) # Close(s)
         /\ Shutdown.sid = NoSid /\ Eof.sid = NoSid /\ NoSid # s
         /\ Shutdown.type = "Shutdown" /\ Eof.type = "Eof"
         /\ \A r : (Open(r) = Open(s) <=> r = s) /\ (Close(r) = Close(s) <=> r = s)
         /\ \A r : Open(r) # Close(s)
<1>1. NoSid # s
  BY SidFacts
<1> QED BY <1>1 DEF Open, Close, Shutdown, Eof, Event

LEMMA RestFacts ==
  ASSUME NEW s \in Sid, NEW w, NEW new, DOMAIN new \subseteq Nat, Rest(w, new)
  PROVE  /\ \A j \in DOMAIN new : new[j].sid = s => \E i \in DOMAIN w : w[i] = new[j]
         /\ Open(s) \in ToSet(new) => Open(s) \in ToSet(w)
         /\ Close(s) \in ToSet(new) => Close(s) \in ToSet(w)
         /\ First(w, s) => First(new, s)
<1>1. PICK k \in Nat : \A j \in DOMAIN new :
        new[j].sid \in Sid => j + k \in DOMAIN w /\ w[j + k] = new[j]
  BY DEF Rest
<1>2. \A j \in DOMAIN new : new[j].sid = s => \E i \in DOMAIN w : w[i] = new[j]
  BY <1>1
<1>3. Open(s) \in ToSet(new) => Open(s) \in ToSet(w)
  BY <1>2, EventFacts DEF ToSet
<1>4. Close(s) \in ToSet(new) => Close(s) \in ToSet(w)
  BY <1>2, EventFacts DEF ToSet
<1>5. ASSUME First(w, s), NEW i \in DOMAIN new, NEW j \in DOMAIN new,
             new[i] = Open(s), new[j].sid = s
      PROVE  i <= j
  <2>1. new[i].sid = s
    BY <1>5, EventFacts
  <2>2. /\ i + k \in DOMAIN w /\ w[i + k] = new[i] /\ j + k \in DOMAIN w /\ w[j + k] = new[j]
    BY <1>1, <1>5, <2>1
  <2>3. i + k <= j + k
    BY <1>5, <2>2 DEF First
  <2>4. i \in Nat /\ j \in Nat
    OBVIOUS
  <2> QED BY <2>3, <2>4
<1> QED BY <1>2, <1>3, <1>4, <1>5 DEF First

\* What a participant makes of a stream it does not know, and of one it does.
LEMMA LifeKept ==
  ASSUME NEW s \in Sid, Life(s), Unborn(s)' <=> Unborn(s),
         \A e \in End : /\ Knows(e, s)' => Knows(e, s)
                        /\ Speaks(e, s)' => Speaks(e, s) \/ Knows(e, s)
                        /\ Open(s) \in ToSet(wire'[e]) => Open(s) \in ToSet(wire[e])
                        /\ Open(s) \in ToSet(notify'[e]) => Open(s) \in ToSet(notify[e])
                        /\ First(wire[e], s) => First(wire'[e], s)
  PROVE  Life(s)'
<1> DEFINE o == s[1]
           a == Peer(o)
<1>1. o \in End /\ a \in End
  BY SidFacts, PeerFacts
<1>2. /\ Unborn(s) => ~Knows(o, s) /\ ~Speaks(o, s) /\ ~Announced(s)
      /\ Unborn(s) \/ Announced(s) => ~Knows(a, s) /\ ~Speaks(a, s)
      /\ Open(s) \notin ToSet(wire[a]) /\ Open(s) \notin ToSet(notify[o])
      /\ First(wire[o], s)
  BY DEF Life, First
<1>3. Announced(s)' => Announced(s)
  BY <1>1 DEF Announced
<1>4. /\ Unborn(s)' => ~Knows(o, s)' /\ ~Speaks(o, s)' /\ ~Announced(s)'
      /\ Unborn(s)' \/ Announced(s)' => ~Knows(a, s)' /\ ~Speaks(a, s)'
      /\ Open(s) \notin ToSet(wire'[a]) /\ Open(s) \notin ToSet(notify'[o])
      /\ First(wire'[o], s)
  <2> HIDE DEF o, a
  <2> QED BY <1>1, <1>2, <1>3
<1> QED BY <1>4 DEF Life, First

LEMMA Remaining ==
  ASSUME NEW X, NEW w \in Seq(X)
  PROVE  /\ Rest(w, w) /\ Rest(w, <<>>)
         /\ \A f : f.sid = NoSid => Rest(w, Append(w, f)) /\ Rest(w, <<f>>)
         /\ w # <<>> => Rest(w, Tail(w))
         /\ \A f : f.sid = NoSid =>
              \A k \in 0..Len(w) : Rest(w, Append(SubSeq(w, 1, k), f))
<1>0. Len(w) \in Nat /\ DOMAIN w = 1..Len(w)
  OBVIOUS
<1>1. \A j \in DOMAIN w : j + 0 \in DOMAIN w /\ w[j + 0] = w[j]
  BY <1>0
<1>2. Rest(w, w) /\ Rest(w, <<>>)
  <2>1. 0 \in Nat /\ DOMAIN <<>> = {}
    OBVIOUS
  <2>2. Rest(w, w)
    BY <1>1, <2>1 DEF Rest
  <2>3. \A j \in DOMAIN <<>> : FALSE
    OBVIOUS
  <2>4. Rest(w, <<>>)
    BY <2>1, <2>3, Zenon DEF Rest
  <2> QED BY <2>2, <2>4
<1>3. ASSUME NEW v \in Seq(X), Len(v) <= Len(w), \A i \in DOMAIN v : v[i] = w[i],
             NEW f, f.sid = NoSid
      PROVE  Rest(w, Append(v, f))
  <2> DEFINE new == Append(v, f)
  <2>1. Len(v) \in Nat /\ DOMAIN v = 1..Len(v)
    OBVIOUS
  <2>2. DOMAIN new = 1..(Len(v) + 1) /\ new[Len(v) + 1] = f
        /\ \A i \in 1..Len(v) : new[i] = v[i]
    <3> DEFINE Y == X \cup {f}
    <3>1. v \in Seq(Y) /\ f \in Y
      OBVIOUS
    <3> HIDE DEF Y
    <3> QED BY <3>1
  <2>3. ASSUME NEW j \in DOMAIN new, new[j].sid \in Sid
        PROVE  j + 0 \in DOMAIN w /\ w[j + 0] = new[j]
    <3>1. j # Len(v) + 1
      BY <1>3, <2>2, <2>3, SidFacts
    <3>2. j \in 1..Len(v) /\ j + 0 = j
      BY <2>1, <2>2, <3>1
    <3> HIDE DEF new
    <3> QED BY <1>0, <1>3, <2>1, <2>2, <3>2
  <2> QED BY <2>3 DEF Rest
<1>4. ASSUME NEW f, f.sid = NoSid PROVE Rest(w, Append(w, f)) /\ Rest(w, <<f>>)
  <2>1. Rest(w, Append(w, f))
    BY <1>3, <1>4
  <2>2. Rest(w, <<f>>)
    <3>1. \A j \in DOMAIN <<f>> : <<f>>[j] = f
      OBVIOUS
    <3> QED BY <1>4, <3>1, SidFacts DEF Rest
  <2> QED BY <2>1, <2>2
<1>5. ASSUME w # <<>> PROVE Rest(w, Tail(w))
  <2>1. /\ DOMAIN Tail(w) = 1..(Len(w) - 1)
        /\ \A i \in 1..(Len(w) - 1) : Tail(w)[i] = w[i + 1]
    BY <1>5
  <2>2. \A i \in 1..(Len(w) - 1) : i + 1 \in DOMAIN w
    BY <1>0
  <2> QED BY <2>1, <2>2 DEF Rest
<1>6. ASSUME NEW f, f.sid = NoSid, NEW k \in 0..Len(w)
      PROVE  Rest(w, Append(SubSeq(w, 1, k), f))
  <2> DEFINE v == SubSeq(w, 1, k)
  <2>1. v \in Seq(X) /\ DOMAIN v = 1..k /\ \A i \in DOMAIN v : v[i] = w[i]
    BY PrefixFacts
  <2> HIDE DEF v
  <2>2. Len(v) <= Len(w)
    BY <1>0, <2>1
  <2>3. Rest(w, Append(v, f))
    BY <1>3, <1>6, <2>1, <2>2
  <2> QED BY <2>3 DEF v
<1> QED BY <1>2, <1>4, <1>5, <1>6

\* A step in which e learns of no stream and sends nothing of one.
Kept(e) ==
  /\ streams'[e] \subseteq streams[e] /\ held'[e] \subseteq held[e]
  /\ closing'[e] = closing[e] /\ store'[e] = store[e]
  /\ \A s \in Sid : /\ Open(s) \in ToSet(notify'[e]) => Open(s) \in ToSet(notify[e])
                    /\ sent'[e][s] # 0 => Knows(e, s)
                    /\ delivered'[e][s] # <<>> => Knows(e, s)
  /\ Rest(wire[e], wire'[e])

LEMMA KeptFacts ==
  ASSUME Typed, Typed', NEW e \in End, Kept(e), NEW s \in Sid
  PROVE  /\ Knows(e, s)' => Knows(e, s)
         /\ Speaks(e, s)' => Speaks(e, s)
         /\ Open(s) \in ToSet(wire'[e]) => Open(s) \in ToSet(wire[e])
         /\ Close(s) \in ToSet(wire'[e]) => Close(s) \in ToSet(wire[e])
         /\ First(wire[e], s) => First(wire'[e], s)
         /\ Over(e, s) => Over(e, s)'
<1>1. Knows(e, s)' => Knows(e, s)
  BY DEF Kept, Knows
<1>2. DOMAIN wire'[e] \subseteq Nat /\ Rest(wire[e], wire'[e])
  <2>1. wire'[e] \in Seq(Frame(e))
    BY DEF Typed, Bounded, Frame, Datum
  <2>2. DOMAIN wire'[e] = 1..Len(wire'[e]) /\ Len(wire'[e]) \in Nat
    BY <2>1
  <2> QED BY <2>2 DEF Kept
<1>3. /\ \A j \in DOMAIN wire'[e] :
           wire'[e][j].sid = s => \E i \in DOMAIN wire[e] : wire[e][i] = wire'[e][j]
      /\ Open(s) \in ToSet(wire'[e]) => Open(s) \in ToSet(wire[e])
      /\ Close(s) \in ToSet(wire'[e]) => Close(s) \in ToSet(wire[e])
      /\ First(wire[e], s) => First(wire'[e], s)
  <2> DEFINE w == wire[e]
             new == wire'[e]
  <2>1. DOMAIN new \subseteq Nat /\ Rest(w, new)
    BY <1>2
  <2> HIDE DEF w, new
  <2>2. /\ \A j \in DOMAIN new : new[j].sid = s => \E i \in DOMAIN w : w[i] = new[j]
        /\ Open(s) \in ToSet(new) => Open(s) \in ToSet(w)
        /\ Close(s) \in ToSet(new) => Close(s) \in ToSet(w)
        /\ First(w, s) => First(new, s)
    BY <2>1, RestFacts
  <2> QED BY <2>2 DEF w, new
<1>4. Speaks(e, s)' => Speaks(e, s)
  BY <1>3 DEF Speaks
<1>5. ASSUME Over(e, s) PROVE Over(e, s)'
  <2>1. ASSUME NEW i \in DOMAIN wire'[e], NEW j \in DOMAIN wire'[e],
               wire'[e][i] = Close(s), IsData(wire'[e][j], s)
        PROVE  j < i
    <3>1. PICK k \in Nat : \A h \in DOMAIN wire'[e] :
            wire'[e][h].sid \in Sid => h + k \in DOMAIN wire[e] /\ wire[e][h + k] = wire'[e][h]
      BY <1>2 DEF Rest
    <3>2. wire'[e][i].sid = s /\ wire'[e][j].sid = s
      BY <2>1, EventFacts DEF IsData
    <3>3. /\ i + k \in DOMAIN wire[e] /\ wire[e][i + k] = Close(s)
          /\ j + k \in DOMAIN wire[e] /\ IsData(wire[e][j + k], s)
      BY <2>1, <3>1, <3>2 DEF IsData
    <3>4. j + k < i + k
      BY <1>5, <3>3 DEF Over
    <3> QED BY <1>2, <3>4
  <2>2. Close(s) \in ToSet(wire'[e]) =>
          /\ s \notin held'[e] \cup ToSet(closing'[e]) \cup DOMAIN store'[e]
          /\ Open(s) \notin ToSet(notify'[e])
    BY <1>3, <1>5 DEF Over, Kept
  <2>3. \A i, j \in DOMAIN wire'[e] : wire'[e][i] = Close(s) /\ IsData(wire'[e][j], s) => j < i
    BY <2>1
  <2> QED BY <2>2, <2>3 DEF Over, IsData
<1> QED BY <1>1, <1>3, <1>4, <1>5

\* Where all know and send less than before.
Fading == opens' = opens /\ \A e \in End : Kept(e)

LEMMA FadingFacts ==
  ASSUME Typed, Typed', Fading
  PROVE  /\ (\A s \in Sid : Life(s)) => (\A s \in Sid : Life(s)')
         /\ (\A p \in End, s \in Sid : Over(p, s)) => (\A p \in End, s \in Sid : Over(p, s)')
<1>1. ASSUME NEW s \in Sid, Life(s) PROVE Life(s)'
  <2>1. Unborn(s)' <=> Unborn(s)
    BY DEF Unborn, Fading
  <2>2. ASSUME NEW e \in End
        PROVE  /\ Knows(e, s)' => Knows(e, s)
               /\ Speaks(e, s)' => Speaks(e, s) \/ Knows(e, s)
               /\ Open(s) \in ToSet(wire'[e]) => Open(s) \in ToSet(wire[e])
               /\ Open(s) \in ToSet(notify'[e]) => Open(s) \in ToSet(notify[e])
               /\ First(wire[e], s) => First(wire'[e], s)
    <3>1. Kept(e)
      BY DEF Fading
    <3> QED BY <3>1, KeptFacts DEF Kept
  <2> QED BY <1>1, <2>1, <2>2, LifeKept
<1>2. ASSUME NEW p \in End, NEW s \in Sid, Over(p, s) PROVE Over(p, s)'
  BY <1>2, KeptFacts DEF Fading
<1> QED BY <1>1, <1>2

\* The steps that are nothing to the streams.
Idle ==
  /\ UNCHANGED <<held, sent, opens, outbox, sending, store, closing, delivered, receiving,
                 notify, panicked, wire, broken>>
  /\ \A d \in End : streams'[d] \subseteq streams[d]

LEMMA IdleActions ==
  ASSUME Typed, NEW e \in End,
         \/ \E s \in Sid : Check(e, s)
         \/ \E how \in {"leaving", "dropped"} : Leave(e, how)
         \/ CloseChannel(e) \/ Timeout(e) \/ Finish(e) \/ UNCHANGED vars
  PROVE  Idle
<1> USE DEF Idle, appVars, sendVars, recvVars, bothVars, wireVars
<1>1. CASE \E s \in Sid : Check(e, s)
  BY <1>1 DEF Check
<1>2. CASE \E how \in {"leaving", "dropped"} : Leave(e, how)
  BY <1>2 DEF Leave
<1>3. CASE CloseChannel(e)
  BY <1>3 DEF CloseChannel
<1>4. CASE Timeout(e)
  BY <1>4 DEF Timeout
<1>5. CASE Finish(e)
  <2>1. streams' = [streams EXCEPT ![e] = {}]
    BY <1>5 DEF Finish
  <2>2. streams \in [End -> SUBSET Sid]
    BY DEF Typed, Shape
  <2>3. \A d \in End : streams'[d] \subseteq streams[d]
    BY <2>1, <2>2
  <2> QED BY <1>5, <2>3 DEF Finish
<1>6. CASE UNCHANGED vars
  BY <1>6 DEF vars
<1> QED BY <1>1, <1>2, <1>3, <1>4, <1>5, <1>6

LEMMA WireFacts ==
  ASSUME Typed, NEW e \in End
  PROVE  /\ wire[e] \in Seq(Frame(e)) /\ Rest(wire[e], wire[e]) /\ Rest(wire[e], <<>>)
         /\ Rest(wire[e], Append(wire[e], Eof)) /\ Rest(wire[e], <<Eof>>)
         /\ wire[e] # <<>> => Rest(wire[e], Tail(wire[e]))
         /\ \A k \in 0..Len(wire[e]) : Rest(wire[e], Append(SubSeq(wire[e], 1, k), Eof))
<1> DEFINE X == Frame(e)
           w == wire[e]
           f == Eof
<1>1. w \in Seq(X) /\ f.sid = NoSid
  BY DEF Typed, Bounded, Eof, Event
<1> HIDE DEF X, w, f
<1>2. /\ Rest(w, w) /\ Rest(w, <<>>) /\ Rest(w, Append(w, f)) /\ Rest(w, <<f>>)
      /\ w # <<>> => Rest(w, Tail(w))
      /\ \A k \in 0..Len(w) : Rest(w, Append(SubSeq(w, 1, k), f))
  BY <1>1, Remaining
<1> QED BY <1>1, <1>2 DEF X, w, f

LEMMA FadingIdle ==
  ASSUME Typed, Idle
  PROVE  Fading
<1> SUFFICES ASSUME NEW e \in End PROVE Kept(e)
  BY DEF Fading, Idle
<1>1. Rest(wire[e], wire'[e])
  BY WireFacts DEF Idle
<1> QED BY <1>1 DEF Idle, Kept, Knows

LEMMA FadingSend ==
  ASSUME Typed, Acquainted, NEW e \in End, Send(e)
  PROVE  Fading
<1> DEFINE c == checked[e]
<1>1. /\ c # NoSid /\ c \in Sid /\ sent' = [sent EXCEPT ![e][c] = sent[e][c] + 1]
      /\ UNCHANGED <<held, streams, closing, store, opens, notify, delivered, wire>>
  BY ZenonT(60) DEF Typed, Shape, Send, recvVars, bothVars, wireVars
<1>2. c \in held[e]
  BY <1>1 DEF Acquainted, Serves, Ready
<1>3. ASSUME NEW d \in End, NEW s \in Sid, sent'[d][s] # 0 PROVE Knows(d, s)
  <2>1. sent[d] \in [Sid -> 0..MaxSent[d]]
    BY DEF Typed, Bounded
  <2>2. CASE d = e /\ s = c
    BY <1>2, <2>2 DEF Knows
  <2>3. CASE ~ (d = e /\ s = c)
    <3>1. sent = [b \in End |-> sent[b]]
      BY DEF Typed, Shape
    <3>2. sent'[d] = IF d = e THEN [sent[e] EXCEPT ![c] = sent[e][c] + 1] ELSE sent[d]
      BY <1>1, <3>1
    <3>3. sent'[d][s] = sent[d][s]
      BY <2>1, <2>3, <3>2
    <3> QED BY <1>3, <3>3 DEF Knows
  <2> QED BY <2>2, <2>3
<1> HIDE DEF c
<1> SUFFICES ASSUME NEW d \in End PROVE Kept(d)
  BY <1>1 DEF Fading
<1>4. Rest(wire[d], wire'[d])
  BY <1>1, WireFacts
<1> QED BY <1>1, <1>3, <1>4 DEF Kept, Knows

LEMMA DeliveredLess ==
  ASSUME Typed, NEW e \in End, NEW left, delivered' = Delivered(e, left)
  PROVE  \A d \in End, s \in Sid : delivered'[d][s] # <<>> => delivered[d][s] # <<>>
<1>1. /\ \A d \in End : d # e => delivered'[d] = delivered[d]
      /\ \A s \in Sid : delivered'[e][s] = IF s \in left THEN delivered[e][s] ELSE <<>>
  BY DeliveredFacts
<1> QED BY <1>1

LEMMA ConsumeRest ==
  ASSUME Typed, NEW e \in End,
         \/ wire[Peer(e)] # <<>> /\ wire' = [wire EXCEPT ![Peer(e)] = Tail(@)]
         \/ wire' = [wire EXCEPT ![Peer(e)] = <<>>]
  PROVE  \A d \in End : Rest(wire[d], wire'[d])
<1> SUFFICES ASSUME NEW d \in End PROVE Rest(wire[d], wire'[d])
  OBVIOUS
<1>1. Peer(e) \in End /\ wire = [b \in End |-> wire[b]]
  BY PeerFacts DEF Typed, Shape
<1>2. CASE d = Peer(e)
  <2>1. (wire[d] # <<>> /\ wire'[d] = Tail(wire[d])) \/ wire'[d] = <<>>
    BY <1>1, <1>2
  <2> QED BY <1>2, <2>1, WireFacts
<1>3. CASE d # Peer(e)
  <2>1. wire'[d] = wire[d]
    BY <1>1, <1>3
  <2> QED BY <2>1, WireFacts
<1> QED BY <1>2, <1>3

LEMMA FadingClose ==
  ASSUME Typed, NEW e \in End, ReceiveClose(e)
  PROVE  Fading
<1> DEFINE f == Arrived(e)
<1>1. /\ wire[Peer(e)] # <<>> /\ wire' = [wire EXCEPT ![Peer(e)] = Tail(@)]
      /\ f.type = "Close" /\ streams' = [streams EXCEPT ![e] = @ \ {f.sid}]
      /\ notify' = [notify EXCEPT ![e] = IF sending[e] THEN Append(@, f) ELSE @]
      /\ delivered' = Delivered(e, streams[e] \ {f.sid})
      /\ UNCHANGED <<held, sent, opens, closing, store>>
  BY DEF ReceiveClose, Consume, Notify, appVars, sendVars
<1>2. f \in Frame(Peer(e)) /\ f \in Notices
  <2>1. f \in Frame(Peer(e))
    BY <1>1, ArrivedFacts
  <2>2. f.sid \in Sid /\ f = Close(f.sid)
    BY <1>1, <2>1, PeerFacts, FrameFacts
  <2> QED BY <2>1, <2>2 DEF Notices, Close, Event
<1> HIDE DEF f
<1>3. ASSUME NEW d \in End, NEW s \in Sid, Open(s) \in ToSet(notify'[d])
      PROVE  Open(s) \in ToSet(notify[d])
  <2> DEFINE w == notify[d]
  <2>1. w \in Seq(Notices)
    BY DEF Typed, Shape, Notices
  <2>2. notify'[d] = w \/ notify'[d] = Append(w, f)
    BY <1>1 DEF Typed, Shape
  <2> HIDE DEF w
  <2>3. ToSet(Append(w, f)) = ToSet(w) \cup {f}
    BY <1>2, <2>1, SequenceFacts
  <2>4. Open(s) # f
    BY <1>1, EventFacts
  <2> QED BY <1>3, <2>2, <2>3, <2>4 DEF w
<1> SUFFICES ASSUME NEW d \in End PROVE Kept(d)
  BY <1>1 DEF Fading
<1>4. Rest(wire[d], wire'[d])
  BY <1>1, ConsumeRest
<1>5. streams'[d] \subseteq streams[d]
  BY <1>1 DEF Typed, Shape
<1>6. \A s \in Sid : delivered'[d][s] # <<>> => Knows(d, s)
  BY <1>1, DeliveredLess DEF Knows
<1> QED BY <1>1, <1>3, <1>4, <1>5, <1>6 DEF Kept, Knows

LEMMA FadingData ==
  ASSUME Typed, NEW e \in End, ReceiveData(e)
  PROVE  Fading
<1> DEFINE f == Arrived(e)
<1>1. /\ wire[Peer(e)] # <<>> /\ wire' = [wire EXCEPT ![Peer(e)] = Tail(@)]
      /\ delivered' = IF f.sid \in streams[e]
                        THEN [delivered EXCEPT ![e][f.sid] = Append(@, f.n)]
                        ELSE delivered
      /\ UNCHANGED <<held, sent, opens, closing, store, streams, notify>>
  BY DEF ReceiveData, Consume, appVars, sendVars, bothVars
<1> HIDE DEF f
<1>2. ASSUME NEW d \in End, NEW s \in Sid, delivered'[d][s] # <<>> PROVE Knows(d, s)
  <2>1. CASE d = e /\ s = f.sid /\ f.sid \in streams[e]
    BY <2>1 DEF Knows
  <2>2. CASE ~ (d = e /\ s = f.sid /\ f.sid \in streams[e])
    <3>1. /\ delivered = [b \in End |-> delivered[b]]
          /\ delivered[e] \in [Sid -> Seq(1..MaxSent[Peer(e)])]
      BY DEF Typed, Shape, Bounded
    <3> DEFINE old == delivered[e]
               new == [old EXCEPT ![f.sid] = Append(@, f.n)]
    <3>2. delivered'[d] = IF d = e /\ f.sid \in streams[e] THEN new ELSE delivered[d]
      BY <1>1, <3>1
    <3>3. \A r \in Sid : r # f.sid => new[r] = old[r]
      BY <3>1
    <3> HIDE DEF new, old
    <3>4. delivered'[d][s] = delivered[d][s]
      BY <2>2, <3>2, <3>3 DEF old
    <3> QED BY <1>2, <3>4 DEF Knows
  <2> QED BY <2>1, <2>2
<1> SUFFICES ASSUME NEW d \in End PROVE Kept(d)
  BY <1>1 DEF Fading
<1>3. Rest(wire[d], wire'[d])
  BY <1>1, ConsumeRest
<1> QED BY <1>1, <1>2, <1>3 DEF Kept, Knows

LEMMA StopFacts ==
  ASSUME Typed, NEW e \in End, ReceiveEnd(e) \/ ForcedEnd(e)
  PROVE  /\ receiving' = [receiving EXCEPT ![e] = FALSE]
         /\ streams' = [streams EXCEPT ![e] = {}]
         /\ wire' = [wire EXCEPT ![Peer(e)] = <<>>]
         /\ delivered' = Delivered(e, {})
         /\ UNCHANGED <<held, checked, sent, opens, outbox, sending, store, closing, notify,
                        panicked, broken>>
<1>1. StopReceiving(e)
  BY DEF ReceiveEnd, ForcedEnd
<1> QED BY <1>1 DEF StopReceiving, appVars, sendVars

LEMMA FadingStop ==
  ASSUME Typed, NEW e \in End, ReceiveEnd(e) \/ ForcedEnd(e)
  PROVE  Fading
<1> SUFFICES ASSUME NEW d \in End PROVE Kept(d)
  BY StopFacts DEF Fading
<1>1. Rest(wire[d], wire'[d])
  BY StopFacts, ConsumeRest
<1>2. streams'[d] \subseteq streams[d]
  BY StopFacts DEF Typed, Shape
<1>3. \A s \in Sid : delivered'[d][s] # <<>> => Knows(d, s)
  BY StopFacts, DeliveredLess DEF Knows
<1> QED BY <1>1, <1>2, <1>3, StopFacts DEF Kept, Knows

LEMMA FadingPanic ==
  ASSUME Typed, NEW e \in End, NEW why, Panic(e, why)
  PROVE  Fading
<1>1. /\ streams' = [streams EXCEPT ![e] = {}] /\ held' = [held EXCEPT ![e] = {}]
      /\ wire' = [wire EXCEPT ![e] = IF Deaf(e) \/ ~sending[e] THEN @ ELSE Append(@, Eof),
                              ![Peer(e)] = <<>>]
      /\ UNCHANGED <<sent, opens, notify, delivered, store, closing>>
  BY DEF Panic
<1> SUFFICES ASSUME NEW d \in End PROVE Kept(d)
  BY <1>1 DEF Fading
<1>2. streams'[d] \subseteq streams[d] /\ held'[d] \subseteq held[d]
  BY <1>1 DEF Typed, Shape
<1>3. Rest(wire[d], wire'[d])
  <2>1. wire = [b \in End |-> wire[b]] /\ Peer(e) # e /\ Peer(e) \in End
    BY PeerFacts DEF Typed, Shape
  <2>2. \/ wire'[d] = <<>> \/ wire'[d] = wire[d] \/ wire'[d] = Append(wire[d], Eof)
    BY <1>1, <2>1
  <2> QED BY <2>2, WireFacts
<1> QED BY <1>1, <1>2, <1>3 DEF Kept, Knows

LEMMA FadingBreak ==
  ASSUME Typed, Break
  PROVE  Fading
<1> SUFFICES ASSUME NEW d \in End PROVE Kept(d)
  BY BreakFacts DEF Fading
<1>1. \E k \in 0..Len(wire[d]) :
        wire'[d] = IF receiving[Peer(d)] THEN Append(SubSeq(wire[d], 1, k), Eof) ELSE <<>>
  BY BreakWire
<1>2. Rest(wire[d], wire'[d])
  BY <1>1, WireFacts
<1> QED BY <1>2, BreakFacts DEF Kept, Knows

-----------------------------------------------------------------------------
(* What send_mgr is asked to do *)

ServesSame(e) ==
  /\ sending'[e] = sending[e] /\ held'[e] = held[e] /\ checked'[e] = checked[e]
  /\ outbox'[e] = outbox[e] /\ store'[e] = store[e] /\ closing'[e] = closing[e]
  /\ notify'[e] = notify[e]

LEMMA ServesKept ==
  ASSUME NEW e \in End, Serves(e), ServesSame(e)
  PROVE  Serves(e)'
BY DEF Serves, ServesSame, Ready

LEMMA ServesIdle ==
  ASSUME Typed, Acquainted, NEW e \in End,
         \/ \E s \in Sid : Check(e, s)
         \/ \E how \in {"leaving", "dropped"} : Leave(e, how)
         \/ CloseChannel(e) \/ Timeout(e) \/ Finish(e) \/ UNCHANGED vars
  PROVE  \A d \in End : Serves(d)'
<1> SUFFICES ASSUME NEW d \in End PROVE Serves(d)'
  OBVIOUS
<1>0. Idle /\ Serves(d)
  BY IdleActions DEF Acquainted
<1>1. CASE \E s \in Sid : Check(e, s)
  <2>1. PICK s \in Sid : Check(e, s)
    BY <1>1
  <2>2. s \in held[e] /\ checked' = [checked EXCEPT ![e] = s]
    BY <2>1 DEF Check
  <2>3. CASE d = e
    <3>1. checked'[d] \in held[d]
      BY <2>2, <2>3 DEF Typed, Shape
    <3> QED BY <1>0, <2>2, <2>3, <3>1 DEF Serves, Ready, Idle
  <2>4. CASE d # e
    BY <1>0, <2>2, <2>4, ServesKept DEF ServesSame, Idle, Typed, Shape
  <2> QED BY <2>3, <2>4
<1>2. CASE \/ \E how \in {"leaving", "dropped"} : Leave(e, how)
           \/ CloseChannel(e) \/ Timeout(e) \/ Finish(e) \/ UNCHANGED vars
  <2>1. checked' = checked
    BY <1>2 DEF Leave, CloseChannel, Timeout, Finish, vars, appVars
  <2> QED BY <1>0, <2>1, ServesKept DEF ServesSame, Idle
<1> QED BY <1>1, <1>2

LEMMA ServesSend ==
  ASSUME Typed, Acquainted, NEW e \in End, Send(e)
  PROVE  \A d \in End : Serves(d)'
<1> DEFINE c == checked[e]
<1>1. /\ c # NoSid /\ checked' = [checked EXCEPT ![e] = NoSid]
      /\ outbox' = [outbox EXCEPT ![e] = Append(@, <<c, sent[e][c] + 1>>)]
      /\ UNCHANGED <<held, closing, store, sending, notify>>
  BY DEF Send, recvVars, bothVars, wireVars
<1> SUFFICES ASSUME NEW d \in End PROVE Serves(d)'
  OBVIOUS
<1>2. Serves(d)
  BY DEF Acquainted
<1>3. CASE d = e
  <2>1. c \in held[e] /\ Ready(e) /\ sending[e]
    BY <1>1, <1>2, <1>3 DEF Serves, Ready
  <2> DEFINE w == outbox[e]
             x == <<c, sent[e][c] + 1>>
  <2>2. outbox'[e] = Append(w, x) /\ checked'[e] = NoSid
    BY <1>1 DEF Typed, Shape
  <2>3. w \in Seq(Sid \X (1..MaxSent[e])) /\ x[1] = c
    BY DEF Typed, Bounded
  <2>4. \A i \in DOMAIN w : w[i][1] \in held[e]
    BY <2>1 DEF Ready
  <2> HIDE DEF w, x
  <2>5. \A i \in DOMAIN Append(w, x) :
          \/ i \in DOMAIN w /\ Append(w, x)[i] = w[i]
          \/ Append(w, x)[i] = x
    <3> DEFINE Y == (Sid \X (1..MaxSent[e])) \cup {x}
    <3>1. w \in Seq(Y) /\ x \in Y
      BY <2>3
    <3> HIDE DEF Y
    <3> QED BY <3>1
  <2>6. \A i \in DOMAIN outbox'[e] : outbox'[e][i][1] \in held[e]
    BY <2>1, <2>2, <2>3, <2>4, <2>5
  <2> QED BY <1>1, <1>3, <2>1, <2>2, <2>6 DEF Serves, Ready
<1>4. CASE d # e
  BY <1>1, <1>2, <1>4, ServesKept DEF ServesSame, Typed, Shape
<1> QED BY <1>3, <1>4

LEMMA ServesStop ==
  ASSUME Typed, Acquainted, NEW e \in End, ReceiveEnd(e) \/ ForcedEnd(e) \/ ReceiveData(e) \/ Break
  PROVE  \A d \in End : Serves(d)'
<1>1. UNCHANGED <<sending, held, checked, outbox, store, closing, notify>>
  <2>1. CASE ReceiveEnd(e) \/ ForcedEnd(e)
    BY <2>1, StopFacts
  <2>2. CASE ReceiveData(e)
    BY <2>2 DEF ReceiveData, appVars, sendVars, bothVars
  <2>3. CASE Break
    BY <2>3, BreakFacts
  <2> QED BY <2>1, <2>2, <2>3
<1>2. \A d \in End : ServesSame(d)
  BY <1>1 DEF ServesSame
<1> QED BY <1>2, ServesKept DEF Acquainted

LEMMA ServesPanic ==
  ASSUME Typed, Acquainted, NEW e \in End, NEW why, Panic(e, why)
  PROVE  \A d \in End : Serves(d)'
<1>1. /\ sending' = [sending EXCEPT ![e] = FALSE] /\ held' = [held EXCEPT ![e] = {}]
      /\ checked' = [checked EXCEPT ![e] = NoSid]
      /\ UNCHANGED <<outbox, store, closing, notify>>
  BY DEF Panic
<1>2. Serves(e)'
  BY <1>1 DEF Serves, Typed, Shape
<1>3. \A d \in End : d # e => ServesSame(d)
  BY <1>1 DEF ServesSame, Typed, Shape
<1>4. \A d \in End : d # e => Serves(d)'
  BY <1>3, ServesKept DEF Acquainted
<1> QED BY <1>2, <1>4

LEMMA ServesClose ==
  ASSUME Typed, Acquainted, NEW e \in End, ReceiveClose(e)
  PROVE  \A d \in End : Serves(d)'
<1> DEFINE f == Arrived(e)
<1>1. /\ f.type = "Close" /\ wire[Peer(e)] # <<>>
      /\ notify' = [notify EXCEPT ![e] = IF sending[e] THEN Append(@, f) ELSE @]
      /\ UNCHANGED <<sending, held, checked, outbox, store, closing>>
  BY DEF ReceiveClose, Consume, Notify, appVars, sendVars
<1>2. f \in Notices
  <2>1. f \in Frame(Peer(e))
    BY <1>1, ArrivedFacts
  <2>2. f.sid \in Sid /\ f = Close(f.sid)
    BY <1>1, <2>1, PeerFacts, FrameFacts
  <2> QED BY <2>2 DEF Notices, Close, Event
<1> HIDE DEF f
<1>3. ASSUME NEW d \in End, d # e \/ ~sending[e] PROVE Serves(d)'
  <2>1. ServesSame(d)
    BY <1>1, <1>3 DEF ServesSame, Typed, Shape
  <2> QED BY <2>1, ServesKept DEF Acquainted
<1>4. ASSUME sending[e] PROVE Serves(e)'
  <2> DEFINE w == notify[e]
             v == Append(w, f)
  <2>1. w \in Seq(Notices) /\ notify'[e] = v
    BY <1>1, <1>4 DEF Typed, Shape, Notices
  <2>2. /\ Len(w) \in Nat /\ DOMAIN w = 1..Len(w) /\ DOMAIN v = 1..(Len(w) + 1)
        /\ v[Len(w) + 1] = f /\ \A i \in DOMAIN w : v[i] = w[i]
    BY <1>2, <2>1
  <2>3. Ready(e)
    BY <1>4 DEF Acquainted, Serves
  <2>4. ToSet(v) = ToSet(w) \cup {f} /\ \A s \in Sid : Open(s) # f
    BY <1>1, <1>2, <2>1, SequenceFacts, EventFacts
  <2>5. \A s \in Sid : Open(s) \in ToSet(v) <=> Open(s) \in ToSet(w)
    BY <2>4
  <2>6. \A i, j \in DOMAIN v : v[i].type = "Open" /\ v[j] = v[i] => i = j
    <3>1. \A i \in DOMAIN v : v[i].type = "Open" => i \in DOMAIN w /\ v[i] = w[i]
      BY <1>1, <2>2
    <3>2. \A i, j \in DOMAIN w : w[i].type = "Open" /\ w[j] = w[i] => i = j
      BY <2>3 DEF Ready
    <3> HIDE DEF v, w
    <3> QED BY <3>1, <3>2
  <2>7. held[e] \subseteq Sid /\ DOMAIN store[e] \subseteq Sid
    BY DEF Typed, Shape, Bounded, IsStore
  <2> HIDE DEF v
  <2>8. Ready(e)'
    <3>1. /\ checked'[e] \in held'[e] \cup {NoSid}
          /\ \A i \in DOMAIN outbox'[e] : outbox'[e][i][1] \in held'[e]
          /\ ToSet(closing'[e]) \cap held'[e] = {}
      BY <1>1, <2>3 DEF Ready
    <3>2. \A s \in held'[e] : s \in DOMAIN store'[e] \/ Open(s) \in ToSet(notify'[e])
      BY <1>1, <2>1, <2>3, <2>5, <2>7 DEF Ready, w
    <3>3. \A i, j \in DOMAIN notify'[e] :
            notify'[e][i].type = "Open" /\ notify'[e][j] = notify'[e][i] => i = j
      BY <2>1, <2>6
    <3>4. \A s \in DOMAIN store'[e] : Open(s) \notin ToSet(notify'[e])
      BY <1>1, <2>1, <2>3, <2>5, <2>7 DEF Ready, w
    <3> QED BY <3>1, <3>2, <3>3, <3>4 DEF Ready
  <2> QED BY <1>1, <1>4, <2>8 DEF Serves
<1> QED BY <1>3, <1>4

\* Tail of a wire whose head is the Open of a stream.
LEMMA OpenedOnce ==
  ASSUME Typed, Acquainted, NEW e \in End, wire[Peer(e)] # <<>>, NEW s \in Sid,
         Arrived(e).sid = s
  PROVE  Open(s) \notin ToSet(Tail(wire[Peer(e)]))
<1> DEFINE w == wire[Peer(e)]
<1>0. Peer(e) \in End
  BY PeerFacts
<1>1. w \in Seq(Frame(Peer(e)))
  BY <1>0 DEF Typed, Bounded
<1>2. Life(s)
  BY DEF Acquainted
<1> SUFFICES ASSUME Open(s) \in ToSet(Tail(w)) PROVE FALSE
  OBVIOUS
<1>3. /\ Len(w) \in Nat /\ DOMAIN w = 1..Len(w) /\ w[1].sid = s /\ 1 \in DOMAIN w
      /\ DOMAIN Tail(w) = 1..(Len(w) - 1)
      /\ \A i \in 1..(Len(w) - 1) : Tail(w)[i] = w[i + 1] /\ i + 1 \in DOMAIN w
  <2>1. w # <<>> /\ Head(w).sid = s
    BY DEF Arrived
  <2> DEFINE X == Frame(Peer(e))
  <2> HIDE DEF w, X
  <2>2. w \in Seq(X)
    BY <1>1 DEF X
  <2> QED BY <2>1, <2>2
<1>4. PICK i \in 1..(Len(w) - 1) : w[i + 1] = Open(s)
  BY <1>3 DEF ToSet
<1>5. Open(s) \in ToSet(w)
  BY <1>3, <1>4 DEF ToSet
<1>6. s[1] = Peer(e)
  <2>1. s[1] \in End /\ Open(s) \notin ToSet(wire[Peer(s[1])])
    BY <1>2, SidFacts DEF Life
  <2>2. s[1] = e \/ s[1] = Peer(e)
    BY <2>1, PeerFacts
  <2> QED BY <1>5, <2>1, <2>2
<1>7. i + 1 <= 1
  BY <1>2, <1>3, <1>4, <1>6 DEF Life
<1> QED BY <1>3, <1>7

LEMMA OpenFacts ==
  ASSUME Typed, Acquainted, NEW e \in End, ReceiveOpen(e)
  PROVE  LET s == Arrived(e).sid
         IN  /\ s \in Sid /\ Arrived(e) = Open(s) /\ s[1] = Peer(e) /\ Announced(s)
             /\ ~Unborn(s) /\ ~Knows(e, s) /\ ~Speaks(e, s)
             /\ Open(s) \notin ToSet(wire'[Peer(e)])
             /\ wire[Peer(e)] # <<>> /\ wire' = [wire EXCEPT ![Peer(e)] = Tail(@)]
             /\ notify' = [notify EXCEPT ![e] = IF sending[e] THEN Append(@, Open(s)) ELSE @]
             /\ streams' = [streams EXCEPT ![e] = @ \cup {s}]
             /\ held' \in {[held EXCEPT ![e] = @ \cup {s}], held}
             /\ ~sending[e] => held' = held
             /\ UNCHANGED <<checked, sent, opens, outbox, sending, store, closing, delivered,
                            receiving, panicked, broken>>
<1> DEFINE f == Arrived(e)
           s == f.sid
<1>1. /\ receiving[e] /\ wire[Peer(e)] # <<>> /\ wire' = [wire EXCEPT ![Peer(e)] = Tail(@)]
      /\ f.type = "Open"
      /\ notify' = [notify EXCEPT ![e] = IF sending[e] THEN Append(@, f) ELSE @]
      /\ streams' = [streams EXCEPT ![e] = @ \cup {s}]
      /\ held' \in {[held EXCEPT ![e] = @ \cup {s}], held}
      /\ ~sending[e] => held' = held
      /\ UNCHANGED <<checked, sent, opens, outbox, sending, store, closing, delivered,
                     receiving, panicked, broken>>
  BY DEF ReceiveOpen, Consume, Notify, sendVars, recvVars
<1>2. s \in Sid /\ f = Open(s)
  <2>1. f \in Frame(Peer(e))
    BY <1>1, ArrivedFacts
  <2> QED BY <1>1, <2>1, PeerFacts, FrameFacts
<1>3. f \in ToSet(wire[Peer(e)])
  BY <1>1, ArrivedFacts
<1>4. Open(s) \notin ToSet(Tail(wire[Peer(e)]))
  BY <1>1, <1>2, OpenedOnce
<1>5. Open(s) \notin ToSet(wire'[Peer(e)])
  BY <1>1, <1>4, PeerFacts DEF Typed, Shape
<1> HIDE DEF f, s
<1>6. Life(s) /\ s[1] \in End
  BY <1>2, SidFacts DEF Acquainted
<1>7. s[1] = Peer(e) /\ e = Peer(s[1])
  <2>1. s[1] = e \/ s[1] = Peer(e)
    BY <1>6, PeerFacts
  <2> QED BY <1>2, <1>3, <1>6, <2>1, PeerFacts DEF Life
<1>8. Announced(s)
  BY <1>2, <1>3, <1>7 DEF Announced
<1>9. ~Unborn(s) /\ ~Knows(e, s) /\ ~Speaks(e, s)
  BY <1>6, <1>7, <1>8 DEF Life
<1> QED BY <1>1, <1>2, <1>5, <1>7, <1>8, <1>9 DEF f, s

LEMMA LifeOpen ==
  ASSUME Typed, Typed', Acquainted, NEW e \in End, ReceiveOpen(e)
  PROVE  /\ \A s \in Sid : Life(s)'
         /\ (\A p \in End, s \in Sid : Over(p, s)) => (\A p \in End, s \in Sid : Over(p, s)')
<1> DEFINE s0 == Arrived(e).sid
           p0 == Peer(e)
<1>1. /\ s0 \in Sid /\ s0[1] = p0 /\ Announced(s0)
      /\ ~Unborn(s0) /\ ~Knows(e, s0) /\ ~Speaks(e, s0)
      /\ Open(s0) \notin ToSet(wire'[p0])
      /\ wire[p0] # <<>> /\ wire' = [wire EXCEPT ![p0] = Tail(@)]
      /\ notify' = [notify EXCEPT ![e] = IF sending[e] THEN Append(@, Open(s0)) ELSE @]
      /\ streams' = [streams EXCEPT ![e] = @ \cup {s0}]
      /\ held' \in {[held EXCEPT ![e] = @ \cup {s0}], held}
      /\ UNCHANGED <<sent, opens, store, closing, delivered>>
  BY OpenFacts
<1>2. p0 \in End /\ p0 # e /\ Peer(p0) = e
  BY PeerFacts
<1> HIDE DEF s0, p0
<1>3. \A d \in End : Rest(wire[d], wire'[d])
  BY <1>1, ConsumeRest DEF p0
<1>4. \A d \in End : DOMAIN wire'[d] \subseteq Nat
  <2> SUFFICES ASSUME NEW d \in End PROVE DOMAIN wire'[d] \subseteq Nat
    OBVIOUS
  <2>1. wire'[d] \in Seq(Frame(d))
    BY DEF Typed, Bounded, Frame, Datum
  <2> QED BY <2>1
<1>5. ASSUME NEW d \in End, NEW s \in Sid
      PROVE  /\ \A j \in DOMAIN wire'[d] :
                  wire'[d][j].sid = s => \E i \in DOMAIN wire[d] : wire[d][i] = wire'[d][j]
             /\ Open(s) \in ToSet(wire'[d]) => Open(s) \in ToSet(wire[d])
             /\ Close(s) \in ToSet(wire'[d]) => Close(s) \in ToSet(wire[d])
             /\ First(wire[d], s) => First(wire'[d], s)
  <2> DEFINE w == wire[d]
             new == wire'[d]
  <2>1. DOMAIN new \subseteq Nat /\ Rest(w, new)
    BY <1>3, <1>4
  <2> HIDE DEF w, new
  <2>2. /\ \A j \in DOMAIN new : new[j].sid = s => \E i \in DOMAIN w : w[i] = new[j]
        /\ Open(s) \in ToSet(new) => Open(s) \in ToSet(w)
        /\ Close(s) \in ToSet(new) => Close(s) \in ToSet(w)
        /\ First(w, s) => First(new, s)
    BY <2>1, RestFacts
  <2> QED BY <2>2 DEF w, new
<1>6. ASSUME NEW d \in End, NEW s \in Sid
      PROVE  Open(s) \in ToSet(notify'[d]) =>
               Open(s) \in ToSet(notify[d]) \/ (d = e /\ s = s0)
  <2> DEFINE w == notify[d]
             f == Open(s0)
  <2>1. w \in Seq(Notices) /\ f \in Notices
    BY <1>1 DEF Typed, Shape, Notices, Open, Event
  <2>2. notify'[d] = w \/ (d = e /\ notify'[d] = Append(w, f))
    BY <1>1 DEF Typed, Shape
  <2>3. Open(s) = f <=> s = s0
    BY EventFacts
  <2> HIDE DEF w, f
  <2>4. ToSet(Append(w, f)) = ToSet(w) \cup {f}
    BY <2>1, SequenceFacts
  <2> QED BY <2>2, <2>3, <2>4 DEF w
<1>7. ASSUME NEW d \in End
      PROVE  /\ streams'[d] \subseteq streams[d] \cup (IF d = e THEN {s0} ELSE {})
             /\ held'[d] \subseteq held[d] \cup (IF d = e THEN {s0} ELSE {})
  <2>1. streams'[d] \subseteq streams[d] \cup (IF d = e THEN {s0} ELSE {})
    BY <1>1 DEF Typed, Shape
  <2>2. CASE held' = [held EXCEPT ![e] = @ \cup {s0}]
    <3>1. held \in [End -> SUBSET Sid]
      BY DEF Typed, Shape
    <3> HIDE DEF s0
    <3>2. held'[d] = IF d = e THEN held[d] \cup {s0} ELSE held[d]
      BY <2>2, <3>1
    <3> QED BY <2>1, <3>2
  <2>3. CASE held' = held
    BY <2>1, <2>3
  <2> QED BY <1>1, <2>2, <2>3
<1>8. ASSUME NEW d \in End, NEW s \in Sid, ~ (d = e /\ s = s0)
      PROVE  Knows(d, s)' => Knows(d, s)
  BY <1>1, <1>6, <1>7, <1>8 DEF Knows
<1>9. \A d \in End, s \in Sid : Speaks(d, s)' => Speaks(d, s)
  BY <1>5 DEF Speaks
<1>10. ASSUME NEW s \in Sid PROVE Life(s)'
  <2>1. Life(s) /\ (Unborn(s)' <=> Unborn(s))
    BY <1>1 DEF Acquainted, Unborn
  <2>2. CASE s # s0
    BY <1>5, <1>6, <1>8, <1>9, <2>1, <2>2, LifeKept
  <2>3. CASE s = s0
    <3>1. s[1] = p0 /\ Peer(p0) = e
      BY <1>1, <1>2, <2>3
    <3>2. ~Unborn(s)' /\ ~Announced(s)'
      BY <1>1, <2>1, <2>3, <3>1 DEF Announced
    <3>3. Open(s) \notin ToSet(wire'[e]) /\ Open(s) \notin ToSet(notify'[p0])
      BY <1>2, <1>5, <1>6, <2>1, <3>1 DEF Life
    <3>4. First(wire'[p0], s)
      BY <1>2, <1>5, <2>1, <3>1 DEF Life, First
    <3> QED BY <3>1, <3>2, <3>3, <3>4 DEF Life, First
  <2> QED BY <2>2, <2>3
<1>11. ASSUME NEW p \in End, NEW s \in Sid, Over(p, s) PROVE Over(p, s)'
  <2>1. ASSUME NEW i \in DOMAIN wire'[p], NEW j \in DOMAIN wire'[p],
               wire'[p][i] = Close(s), IsData(wire'[p][j], s)
        PROVE  j < i
    <3>1. PICK k \in Nat : \A h \in DOMAIN wire'[p] :
            wire'[p][h].sid \in Sid => h + k \in DOMAIN wire[p] /\ wire[p][h + k] = wire'[p][h]
      BY <1>3 DEF Rest
    <3>2. wire'[p][i].sid = s /\ wire'[p][j].sid = s
      BY <2>1, EventFacts DEF IsData
    <3>3. /\ i + k \in DOMAIN wire[p] /\ wire[p][i + k] = Close(s)
          /\ j + k \in DOMAIN wire[p] /\ IsData(wire[p][j + k], s)
      BY <2>1, <3>1, <3>2 DEF IsData
    <3>4. j + k < i + k
      BY <1>11, <3>3 DEF Over
    <3> QED BY <1>4, <3>4
  <2>2. ASSUME Close(s) \in ToSet(wire'[p])
        PROVE  /\ s \notin held'[p] \cup ToSet(closing'[p]) \cup DOMAIN store'[p]
               /\ Open(s) \notin ToSet(notify'[p])
    <3>1. Close(s) \in ToSet(wire[p])
      BY <1>5, <2>2
    <3>2. Speaks(p, s)
      BY <3>1, EventFacts DEF Speaks, ToSet
    <3>3. ~ (p = e /\ s = s0)
      BY <1>1, <3>2
    <3> QED BY <1>1, <1>6, <1>7, <1>11, <3>1, <3>3 DEF Over
  <2>3. \A i, j \in DOMAIN wire'[p] : wire'[p][i] = Close(s) /\ IsData(wire'[p][j], s) => j < i
    BY <2>1
  <2> QED BY <2>2, <2>3 DEF Over, IsData
<1> QED BY <1>10, <1>11

LEMMA ServesOpen ==
  ASSUME Typed, Acquainted, NEW e \in End, ReceiveOpen(e)
  PROVE  \A d \in End : Serves(d)'
<1> DEFINE s0 == Arrived(e).sid
<1>1. /\ s0 \in Sid /\ ~Knows(e, s0)
      /\ notify' = [notify EXCEPT ![e] = IF sending[e] THEN Append(@, Open(s0)) ELSE @]
      /\ held' \in {[held EXCEPT ![e] = @ \cup {s0}], held}
      /\ ~sending[e] => held' = held
      /\ UNCHANGED <<checked, outbox, sending, store, closing>>
  BY OpenFacts
<1> HIDE DEF s0
<1>2. ASSUME NEW d \in End, d # e \/ ~sending[e] PROVE Serves(d)'
  <2>1. ServesSame(d)
    BY <1>1, <1>2 DEF ServesSame, Typed, Shape
  <2> QED BY <2>1, ServesKept DEF Acquainted
<1>3. ASSUME sending[e] PROVE Serves(e)'
  <2> DEFINE w == notify[e]
             f == Open(s0)
             v == Append(w, f)
  <2>1. w \in Seq(Notices) /\ notify'[e] = v /\ f \in Notices
    BY <1>1, <1>3 DEF Typed, Shape, Notices, Open, Event
  <2>2. Ready(e) /\ f \notin ToSet(w) /\ s0 \notin held[e] \cup ToSet(closing[e]) \cup DOMAIN store[e]
    BY <1>1, <1>3 DEF Acquainted, Serves, Knows
  <2>3. \A s \in Sid : Open(s) = f <=> s = s0
    BY EventFacts
  <2>4. held'[e] \subseteq held[e] \cup {s0} /\ held[e] \subseteq held'[e] /\ held[e] \subseteq Sid
    <3>1. CASE held' = [held EXCEPT ![e] = @ \cup {s0}]
      BY <3>1 DEF Typed, Shape
    <3>2. CASE held' = held
      BY <3>2 DEF Typed, Shape
    <3> QED BY <1>1, <3>1, <3>2
  <2>5. DOMAIN store[e] \subseteq Sid
    BY DEF Typed, Bounded, IsStore
  <2> HIDE DEF f
  <2>6. /\ Len(w) \in Nat /\ DOMAIN w = 1..Len(w) /\ DOMAIN v = 1..(Len(w) + 1)
        /\ v[Len(w) + 1] = f /\ \A i \in DOMAIN w : v[i] = w[i]
    BY <2>1
  <2>7. ToSet(v) = ToSet(w) \cup {f}
    BY <2>1, SequenceFacts
  <2>8. \A i, j \in DOMAIN v : v[i].type = "Open" /\ v[j] = v[i] => i = j
    <3>1. \A i \in DOMAIN v : (i \in DOMAIN w /\ v[i] = w[i] /\ v[i] # f) \/ (i = Len(w) + 1 /\ v[i] = f)
      BY <2>2, <2>6 DEF ToSet
    <3>2. \A i, j \in DOMAIN w : w[i].type = "Open" /\ w[j] = w[i] => i = j
      BY <2>2 DEF Ready
    <3> HIDE DEF v, w
    <3> QED BY <3>1, <3>2
  <2> HIDE DEF v
  <2>9. Ready(e)'
    <3>1. /\ checked'[e] \in held'[e] \cup {NoSid}
          /\ \A i \in DOMAIN outbox'[e] : outbox'[e][i][1] \in held'[e]
      BY <1>1, <2>2, <2>4 DEF Ready
    <3>2. \A s \in held'[e] : s \in DOMAIN store'[e] \/ Open(s) \in ToSet(notify'[e])
      <4> SUFFICES ASSUME NEW s \in held'[e]
                   PROVE  s \in DOMAIN store'[e] \/ Open(s) \in ToSet(notify'[e])
        OBVIOUS
      <4>1. s = s0 \/ s \in held[e]
        BY <2>4
      <4>2. CASE s = s0
        BY <1>1, <2>1, <2>3, <2>7, <4>2
      <4>3. CASE s \in held[e]
        BY <1>1, <2>1, <2>2, <2>7, <4>3 DEF Ready, w
      <4> QED BY <4>1, <4>2, <4>3
    <3>3. \A i, j \in DOMAIN notify'[e] :
            notify'[e][i].type = "Open" /\ notify'[e][j] = notify'[e][i] => i = j
      BY <2>1, <2>8
    <3>4. \A s \in DOMAIN store'[e] : Open(s) \notin ToSet(notify'[e])
      BY <1>1, <2>1, <2>2, <2>3, <2>5, <2>7 DEF Ready, w
    <3>5. ToSet(closing'[e]) \cap held'[e] = {}
      BY <1>1, <2>2, <2>4 DEF Ready
    <3> QED BY <3>1, <3>2, <3>3, <3>4, <3>5 DEF Ready
  <2> QED BY <1>1, <1>3, <2>9 DEF Serves
<1> QED BY <1>2, <1>3

\* Where a turn's frames are: those that were there, Open, and those of x behind b.
Laid(w, x, pick, new, b) ==
  /\ b \in Nat /\ Len(w) \in Nat /\ Len(w) <= b /\ DOMAIN w = 1..Len(w)
  /\ DOMAIN new \subseteq Nat \ {0}
  /\ \A i \in DOMAIN new :
       \/ i \in DOMAIN w /\ new[i] = w[i] /\ i <= b
       \/ i = Len(w) + 1 /\ i <= b /\ pick.type = "open" /\ new[i] = Open(pick.sid)
       \/ i > b /\ i - b \in DOMAIN x /\ new[i] = x[i - b]
       \/ new[i].sid = NoSid /\ new[i].type \in {"Shutdown", "Eof"}

LEMMA TurnFrames ==
  ASSUME Typed, NEW e \in End, NEW pick \in Picks(e), NEW p, NEW q, NEW x, NEW z, NEW ends,
         Turning(e, pick, p, q, x, z, ends), Turned(e, pick, p, q, x, z, ends)
  PROVE  \E b : Laid(wire[e], x, pick, wire'[e], b)
<1> DEFINE X == Frame(e)
           w == wire[e]
           o == p.out
           u == o \o x
           n == u \o z
           new == wire'[e]
           last(f) == f.sid = NoSid /\ f.type \in {"Shutdown", "Eof"}
<1>1. w \in Seq(X) /\ o \in Seq(X) /\ x \in Seq(X) /\ z \in Seq(X) /\ u \in Seq(X) /\ n \in Seq(X)
  BY TurnWire DEF Typed, Bounded
<1>2. new = IF Deaf(e) THEN w ELSE w \o n
  BY DEF Turned, Typed, Shape
<1>3. /\ pick.type = "open" => DOMAIN o = {1} /\ Len(o) = 1 /\ o[1] = Open(pick.sid)
      /\ pick.type # "open" => DOMAIN o = {} /\ Len(o) = 0
  <2>1. o = IF pick.type = "open" THEN <<Open(pick.sid)>> ELSE <<>>
    BY DEF Turning
  <2> HIDE DEF o
  <2> QED BY <2>1
<1>4. \A i \in DOMAIN z : last(z[i])
  <2> DEFINE Y == {Shutdown, Eof}
  <2>1. z \in Seq(Y) /\ \A f \in Y : last(f)
    BY DEF Turning, Shutdown, Eof, Event
  <2> HIDE DEF Y, last
  <2> QED BY <2>1
<1> HIDE DEF X, w, o, u, n, new, last
<1>5. /\ Len(w) \in Nat /\ Len(o) \in Nat /\ Len(x) \in Nat /\ Len(z) \in Nat
      /\ DOMAIN w = 1..Len(w) /\ DOMAIN o = 1..Len(o) /\ DOMAIN x = 1..Len(x)
      /\ DOMAIN z = 1..Len(z)
  BY <1>1
<1>6. /\ DOMAIN u = 1..(Len(o) + Len(x)) /\ Len(u) = Len(o) + Len(x)
      /\ \A i \in DOMAIN u : \/ i \in 1..Len(o) /\ u[i] = o[i]
                             \/ i > Len(o) /\ i - Len(o) \in 1..Len(x) /\ u[i] = x[i - Len(o)]
  <2>1. Len(u) = Len(o) + Len(x)
    BY <1>1 DEF u
  <2> QED BY <1>1, <2>1, ConcatPositions DEF u
<1>7. \A i \in DOMAIN n : \/ i \in 1..Len(u) /\ n[i] = u[i]
                          \/ i - Len(u) \in 1..Len(z) /\ n[i] = z[i - Len(u)]
  BY SMTT(60), <1>1, ConcatPositions DEF n
<1>8. DOMAIN n \subseteq Nat
  BY <1>1
<1> DEFINE b == Len(w) + Len(o)
<1>9. b \in Nat /\ Len(w) <= b /\ \A i \in DOMAIN w : i <= b /\ i \in Nat \ {0}
  BY <1>5
<1>10. CASE Deaf(e)
  <2>1. Laid(w, x, pick, new, b)
    <3> HIDE DEF b
    <3> QED BY <1>2, <1>5, <1>9, <1>10 DEF Laid
  <2> QED BY <2>1 DEF w, new
<1>11. CASE ~Deaf(e)
  <2>1. new = w \o n
    BY <1>2, <1>11
  <2>2. /\ DOMAIN new = 1..(Len(w) + Len(n)) /\ Len(n) \in Nat
        /\ \A i \in DOMAIN new : \/ i \in 1..Len(w) /\ new[i] = w[i]
                                 \/ i > Len(w) /\ i - Len(w) \in DOMAIN n /\ new[i] = n[i - Len(w)]
    BY <1>1, <2>1, ConcatPositions
  <2>3. DOMAIN new \subseteq Nat \ {0}
    BY <1>5, <2>2
  <2>4. ASSUME NEW i \in DOMAIN new, i \notin DOMAIN w
        PROVE  \/ i = Len(w) + 1 /\ i <= b /\ pick.type = "open" /\ new[i] = Open(pick.sid)
               \/ i > b /\ i - b \in DOMAIN x /\ new[i] = x[i - b]
               \/ new[i].sid = NoSid /\ new[i].type \in {"Shutdown", "Eof"}
    <3> DEFINE h == i - Len(w)
    <3>1. i > Len(w) /\ h \in DOMAIN n /\ new[i] = n[h] /\ i \in Nat /\ h \in Nat
      BY <1>5, <1>8, <2>2, <2>3, <2>4
    <3>2. CASE h \in 1..Len(u) /\ n[h] = u[h]
      <4>1. CASE h \in 1..Len(o) /\ u[h] = o[h]
        <5>1. pick.type = "open" /\ h = 1
          BY <1>3, <4>1
        <5>2. i = Len(w) + 1 /\ i <= b
          BY <1>3, <1>5, <3>1, <5>1
        <5> HIDE DEF h
        <5> QED BY <1>3, <3>1, <3>2, <4>1, <5>1, <5>2
      <4>2. CASE h > Len(o) /\ h - Len(o) \in 1..Len(x) /\ u[h] = x[h - Len(o)]
        <5>1. i > b /\ i - b = h - Len(o)
          BY <1>5, <3>1, <4>2
        <5> HIDE DEF h, b
        <5> QED BY <1>5, <3>1, <3>2, <4>2, <5>1
      <4>3. h \in DOMAIN u
        BY <1>6, <3>2
      <4> HIDE DEF h
      <4> QED BY <1>6, <4>1, <4>2, <4>3
    <3>3. CASE h - Len(u) \in 1..Len(z) /\ n[h] = z[h - Len(u)]
      BY <1>4, <1>5, <3>1, <3>3 DEF last
    <3> HIDE DEF h
    <3> QED BY <1>7, <3>1, <3>2, <3>3
  <2>5. Laid(w, x, pick, new, b)
    <3>1. \A i \in DOMAIN new : i \in DOMAIN w => new[i] = w[i]
      BY <1>5, <2>2
    <3> HIDE DEF b
    <3> QED BY <1>5, <1>9, <2>3, <2>4, <3>1 DEF Laid
  <2> QED BY <2>5 DEF w, new
<1> QED BY <1>10, <1>11

LEMMA TurnKept ==
  ASSUME Typed, NEW e \in End, NEW pick \in Picks(e), NEW p, NEW q, NEW x, NEW z, NEW ends,
         Turning(e, pick, p, q, x, z, ends), Turned(e, pick, p, q, x, z, ends)
  PROVE  \A d \in End : d # e => Kept(d) /\ ServesSame(d) /\ wire'[d] = wire[d]
                                 /\ delivered'[d] = delivered[d]
<1> SUFFICES ASSUME NEW d \in End, d # e
             PROVE  Kept(d) /\ ServesSame(d) /\ wire'[d] = wire[d] /\ delivered'[d] = delivered[d]
  OBVIOUS
<1>1. /\ streams'[d] = streams[d] /\ held'[d] = held[d] /\ closing'[d] = closing[d]
      /\ store'[d] = store[d] /\ notify'[d] = notify[d] /\ sent'[d] = sent[d]
      /\ wire'[d] = wire[d] /\ checked'[d] = checked[d] /\ sending'[d] = sending[d]
      /\ outbox'[d] = outbox[d]
  BY DEF Turned, Typed, Shape
<1>2. delivered'[d] = delivered[d]
  BY DeliveredFacts DEF Turned
<1>3. Rest(wire[d], wire'[d])
  BY <1>1, WireFacts
<1> QED BY <1>1, <1>2, <1>3 DEF Kept, Knows, ServesSame

LEMMA TurnKnows ==
  ASSUME Typed, Acquainted, NEW e \in End, sending[e], NEW pick \in Picks(e),
         NEW p, NEW q, NEW x, NEW z, NEW ends,
         Turning(e, pick, p, q, x, z, ends), Turned(e, pick, p, q, x, z, ends)
  PROVE  /\ \A s \in Opening(pick) : /\ s \in Sid /\ s[1] = e /\ Unborn(s) /\ ~Knows(e, s)
                                     /\ ~Speaks(e, s) /\ ~Announced(s)
         /\ \A s \in Sid : /\ s \in DOMAIN p.store => Knows(e, s) \/ s \in Opening(pick)
                           /\ Knows(e, s)' => Knows(e, s) \/ s \in Opening(pick)
                           /\ Unborn(s)' <=> Unborn(s) /\ s \notin Opening(pick)
         /\ ToSet(notify'[e]) = {} /\ outbox'[e] = <<>>
         /\ held'[e] \subseteq (held[e] \cup Opening(pick)) \ Closing(pick)
         /\ ToSet(closing'[e]) \subseteq Ceding(e, pick)
         /\ Ceding(e, pick) \subseteq ToSet(closing[e]) \cup held[e]
         /\ DOMAIN store'[e] \subseteq DOMAIN p.store
<1>1. /\ Opening(pick) \subseteq Sid /\ Closing(pick) \subseteq held[e]
      /\ \A s \in Opening(pick) : s = <<e, opens[e] + 1>> /\ s[1] = e
      /\ \A set : Streams(set, pick) = (set \cup Opening(pick)) \ Closing(pick)
  BY StreamsFacts
<1>2. opens[e] \in Nat
  BY DEF Typed, Shape
<1>3. ASSUME NEW s \in Opening(pick)
      PROVE  s \in Sid /\ s[1] = e /\ Unborn(s) /\ ~Knows(e, s) /\ ~Speaks(e, s) /\ ~Announced(s)
  <2>1. s \in Sid /\ s[1] = e /\ s[2] = opens[e] + 1
    BY <1>1
  <2>2. Unborn(s) /\ Life(s)
    BY <1>2, <2>1 DEF Unborn, Acquainted
  <2> QED BY <2>1, <2>2 DEF Life
<1>4. /\ streams'[e] = (streams[e] \cup Opening(pick)) \ Closing(pick)
      /\ held'[e] \subseteq (held[e] \cup Opening(pick)) \ Closing(pick)
      /\ notify'[e] = <<>> /\ outbox'[e] = <<>> /\ sent' = sent
  <2>1. /\ streams'[e] = Streams(streams[e], pick)
        /\ held'[e] = IF ends THEN {} ELSE Streams(held[e], pick)
        /\ notify'[e] = <<>> /\ outbox'[e] = <<>> /\ sent' = sent
    BY DEF Turned, Typed, Shape
  <2> QED BY <1>1, <2>1
<1>5. /\ ToSet(q.closing) \subseteq Ceding(e, pick) /\ DOMAIN q.store \subseteq DOMAIN p.store
      /\ DOMAIN p.store = DOMAIN store[e] \cup Told(e) \cup Opening(pick)
      /\ closing'[e] = (IF ends THEN <<>> ELSE q.closing)
      /\ store'[e] = (IF ends THEN <<>> ELSE q.store) /\ ends \in BOOLEAN
  BY DEF Turning, Turned, Shrinks, Typed, Shape
<1>6. ToSet(<<>>) = {} /\ DOMAIN <<>> = {}
  BY DEF ToSet
<1>7. ToSet(closing'[e]) \subseteq Ceding(e, pick) /\ DOMAIN store'[e] \subseteq DOMAIN p.store
  BY <1>5, <1>6
<1>8. Ceding(e, pick) \subseteq ToSet(closing[e]) \cup held[e]
  BY <1>1 DEF Ceding
<1>9. ASSUME NEW s \in Sid, s \in DOMAIN p.store PROVE Knows(e, s) \/ s \in Opening(pick)
  BY <1>5, <1>9 DEF Knows, Told, Announces
<1>10. \A s \in Sid : delivered'[e][s] # <<>> => Knows(e, s)
  <2>1. delivered' = Delivered(e, Streams(streams[e], pick))
    BY DEF Turned
  <2> QED BY <2>1, DeliveredLess DEF Knows
<1>11. ASSUME NEW s \in Sid, Knows(e, s)' PROVE Knows(e, s) \/ s \in Opening(pick)
  <2>1. CASE s \in streams'[e] \cup held'[e]
    BY <1>4, <2>1 DEF Knows
  <2>2. CASE s \in ToSet(closing'[e])
    BY <1>7, <1>8, <2>2 DEF Knows
  <2>3. CASE s \in DOMAIN store'[e]
    BY <1>7, <1>9, <2>3
  <2>4. CASE Open(s) \in ToSet(notify'[e])
    BY <1>4, <1>6, <2>4
  <2>5. CASE sent'[e][s] # 0
    BY <1>4, <2>5 DEF Knows
  <2>6. CASE delivered'[e][s] # <<>>
    BY <1>10, <2>6
  <2> QED BY <1>11, <2>1, <2>2, <2>3, <2>4, <2>5, <2>6 DEF Knows
<1>12. ASSUME NEW s \in Sid PROVE Unborn(s)' <=> Unborn(s) /\ s \notin Opening(pick)
  <2>1. s[1] \in End /\ s[2] \in Nat /\ s = <<s[1], s[2]>> /\ opens[s[1]] \in Nat
    BY SidFacts DEF Typed, Shape
  <2>2. /\ s[1] # e => opens'[s[1]] = opens[s[1]]
        /\ opens'[e] = IF pick.type = "open" THEN opens[e] + 1 ELSE opens[e]
    BY <2>1 DEF Turned, Typed, Shape
  <2>3. pick.type = "open" => Opening(pick) = {<<e, opens[e] + 1>>}
    BY <1>1 DEF Opening
  <2>4. pick.type # "open" => Opening(pick) = {}
    BY DEF Opening
  <2>5. CASE s[1] # e
    BY <1>1, <2>2, <2>5 DEF Unborn
  <2>6. CASE s[1] = e /\ pick.type # "open"
    BY <2>2, <2>4, <2>6 DEF Unborn
  <2>7. CASE s[1] = e /\ pick.type = "open"
    <3>1. s \in Opening(pick) <=> s[2] = opens[e] + 1
      BY <2>1, <2>3, <2>7
    <3>2. Unborn(s)' <=> s[2] > opens[e] + 1
      BY <2>2, <2>7 DEF Unborn
    <3>3. Unborn(s) <=> s[2] > opens[e]
      BY <2>7 DEF Unborn
    <3> QED BY <1>2, <2>1, <3>1, <3>2, <3>3
  <2> QED BY <2>5, <2>6, <2>7
<1> QED BY <1>3, <1>4, <1>6, <1>7, <1>8, <1>9, <1>11, <1>12

LEMMA ServesTurn ==
  ASSUME Typed, Acquainted, NEW e \in End, sending[e], NEW pick \in Picks(e),
         NEW p, NEW q, NEW x, NEW z, NEW ends,
         Turning(e, pick, p, q, x, z, ends), Turned(e, pick, p, q, x, z, ends)
  PROVE  \A d \in End : Serves(d)'
<1>1. \A d \in End : d # e => Serves(d)'
  BY TurnKept, ServesKept DEF Acquainted
<1>2. /\ sending'[e] = ~ends /\ ends \in BOOLEAN
      /\ held'[e] = (IF ends THEN {} ELSE Streams(held[e], pick))
      /\ checked'[e] = (IF ends THEN NoSid ELSE checked[e])
      /\ store'[e] = (IF ends THEN <<>> ELSE q.store)
      /\ closing'[e] = (IF ends THEN <<>> ELSE q.closing)
      /\ notify'[e] = <<>> /\ outbox'[e] = <<>>
  BY DEF Turning, Turned, Typed, Shape
<1>3. CASE ends
  <2>1. ~sending'[e] /\ held'[e] = {} /\ checked'[e] = NoSid
    BY <1>2, <1>3
  <2>2. Serves(e)'
    BY <2>1 DEF Serves
  <2> QED BY <1>1, <2>2
<1>4. CASE ~ends
  <2>1. Ready(e)
    BY KnownFacts
  <2>2. /\ Streams(held[e], pick) = (held[e] \cup Opening(pick)) \ Closing(pick)
        /\ Closing(pick) \subseteq held[e] \ {checked[e]}
    BY StreamsFacts
  <2>3. held'[e] = (held[e] \cup Opening(pick)) \ Closing(pick)
    BY <1>2, <1>4, <2>2
  <2>4. \A s \in Opening(pick) : ~Knows(e, s)
    BY TurnKnows
  <2>5. /\ ToSet(closing[e]) \cap held[e] = {} /\ checked[e] \in held[e] \cup {NoSid}
        /\ ToSet(closing[e]) \cap Opening(pick) = {}
    BY <2>1, <2>4 DEF Ready, Knows
  <2>6. /\ ToSet(q.closing) \subseteq Ceding(e, pick)
        /\ DOMAIN p.store \ DOMAIN q.store \subseteq Ceding(e, pick)
        /\ DOMAIN p.store = DOMAIN store[e] \cup Told(e) \cup Opening(pick)
    BY DEF Turning, Shrinks
  <2>7. held[e] \subseteq DOMAIN store[e] \cup Told(e)
    BY KnownFacts
  <2>8. Ceding(e, pick) \cap held'[e] = {}
    BY <2>3, <2>5 DEF Ceding
  <2>9. checked'[e] \in held'[e] \cup {NoSid}
    BY <1>2, <1>4, <2>2, <2>3, <2>5
  <2>10. held'[e] \subseteq DOMAIN store'[e]
    BY <1>2, <1>4, <2>3, <2>6, <2>7, <2>8
  <2>11. ToSet(closing'[e]) \cap held'[e] = {}
    BY <1>2, <1>4, <2>6, <2>8
  <2>12. /\ DOMAIN outbox'[e] = {} /\ DOMAIN notify'[e] = {} /\ ToSet(notify'[e]) = {}
    BY <1>2 DEF ToSet
  <2>13. Ready(e)'
    BY <2>9, <2>10, <2>11, <2>12 DEF Ready
  <2>14. Serves(e)'
    BY <1>2, <1>4, <2>13 DEF Serves
  <2> QED BY <1>1, <2>14
<1> QED BY <1>2, <1>3, <1>4

LEMMA LifeTurn ==
  ASSUME Typed, Typed', Acquainted, NEW e \in End, sending[e], NEW pick \in Picks(e),
         NEW p, NEW q, NEW x, NEW z, NEW ends,
         Turning(e, pick, p, q, x, z, ends), Turned(e, pick, p, q, x, z, ends)
  PROVE  \A s \in Sid : Life(s)'
<1> SUFFICES ASSUME NEW s \in Sid PROVE Life(s)'
  OBVIOUS
<1> DEFINE w == wire[e]
           new == wire'[e]
           opened == Opening(pick)
<1>1. /\ s \in opened => /\ s[1] = e /\ Unborn(s) /\ ~Speaks(e, s) /\ ~Announced(s)
      /\ s \in DOMAIN p.store => Knows(e, s) \/ s \in opened
      /\ Knows(e, s)' => Knows(e, s) \/ s \in opened
      /\ Unborn(s)' <=> Unborn(s) /\ s \notin opened
      /\ ToSet(notify'[e]) = {}
  BY TurnKnows
<1>2. PICK b : Laid(w, x, pick, new, b)
  BY TurnFrames
<1>3. \A i \in DOMAIN x : x[i].type \in {"Data", "Close"} /\ x[i].sid \in DOMAIN p.store
  BY DEF Turning, Tells
<1>4. w \in Seq(Frame(e)) /\ \A i \in DOMAIN w : w[i] \in Frame(e)
  <2> DEFINE X == Frame(e)
  <2>1. w \in Seq(X)
    BY DEF Typed, Bounded
  <2> HIDE DEF X, w
  <2>2. \A i \in DOMAIN w : w[i] \in X
    BY <2>1
  <2> QED BY <2>1, <2>2 DEF X
<1>5. pick.type = "open" => (s \in opened <=> s = pick.sid)
  BY DEF Opening
<1>6. /\ Open(s).sid = s /\ Open(s).type = "Open" /\ NoSid # s
      /\ \A r : (Open(r) = Open(s) <=> r = s) /\ Open(r).sid = r /\ Open(r).type = "Open"
  <2>1. \A r : (Open(r) = Open(s) <=> r = s) /\ Open(r).sid = r /\ Open(r).type = "Open"
    BY DEF Open, Event
  <2> QED BY <2>1, EventFacts
\* Where an Open is, and what else there is of its stream.
<1>7. ASSUME NEW i \in DOMAIN new, new[i] = Open(s)
      PROVE  \/ i \in DOMAIN w /\ w[i] = Open(s)
             \/ i = Len(w) + 1 /\ s \in opened
  <2> HIDE DEF w, new, opened
  <2>1. CASE i \in DOMAIN w /\ new[i] = w[i]
    BY <1>7, <2>1
  <2>2. CASE i = Len(w) + 1 /\ pick.type = "open" /\ new[i] = Open(pick.sid)
    BY <1>5, <1>6, <1>7, <2>2
  <2>3. CASE i - b \in DOMAIN x /\ new[i] = x[i - b]
    BY <1>3, <1>6, <1>7, <2>3
  <2>4. CASE new[i].sid = NoSid
    BY <1>6, <1>7, <2>4
  <2> QED BY <1>2, <2>1, <2>2, <2>3, <2>4 DEF Laid
<1>8. ASSUME NEW j \in DOMAIN new, new[j].sid = s
      PROVE  \/ j \in DOMAIN w /\ w[j] = new[j]
             \/ j > Len(w) /\ j \in Nat /\ (new[j].type = "Open" \/ s \in DOMAIN p.store)
  <2> HIDE DEF w, new, opened
  <2>1. b \in Nat /\ Len(w) \in Nat /\ Len(w) <= b /\ j \in Nat
    BY <1>2 DEF Laid
  <2>2. CASE j \in DOMAIN w /\ new[j] = w[j]
    BY <2>2
  <2>3. CASE j = Len(w) + 1 /\ pick.type = "open" /\ new[j] = Open(pick.sid)
    BY <1>6, <2>1, <2>3
  <2>4. CASE j > b /\ j - b \in DOMAIN x /\ new[j] = x[j - b]
    BY <1>3, <1>8, <2>1, <2>4
  <2>5. CASE new[j].sid = NoSid
    BY <1>6, <1>8, <2>5
  <2> QED BY <1>2, <2>2, <2>3, <2>4, <2>5 DEF Laid
<1>9. Len(w) \in Nat /\ DOMAIN w = 1..Len(w)
  <2> HIDE DEF w, new
  <2> QED BY <1>2 DEF Laid
<1>10. Life(s) /\ s[1] \in End
  BY SidFacts DEF Acquainted
<1>11. CASE s \in opened
  <2> DEFINE a == Peer(e)
  <2>1. s[1] = e /\ a \in End /\ a # e
    BY <1>1, <1>11, PeerFacts
  <2>2. ~Unborn(s)'
    BY <1>1, <1>11
  <2>3. ~Knows(a, s) /\ ~Speaks(a, s) /\ Open(s) \notin ToSet(wire[a])
    BY <1>1, <1>10, <1>11, <2>1 DEF Life
  <2>4. Kept(a)
    BY <2>1, TurnKept
  <2>5. ~Knows(a, s)' /\ ~Speaks(a, s)' /\ Open(s) \notin ToSet(wire'[a])
    BY <2>1, <2>3, <2>4, KeptFacts
  <2>6. \A i \in DOMAIN w : w[i].sid # s
    <3>1. \A i \in DOMAIN w : w[i].type = "Open" => w[i] = Open(w[i].sid)
      BY <1>4, FrameFacts
    <3>2. \A i \in DOMAIN w : w[i] # Open(s)
      BY <1>1, <1>11, <2>1 DEF Announced, ToSet
    <3>3. \A i \in DOMAIN w : w[i].sid = s => w[i].type = "Open"
      BY <1>1, <1>11 DEF Speaks
    <3> QED BY <3>1, <3>2, <3>3
  <2>7. ASSUME NEW i \in DOMAIN new, NEW j \in DOMAIN new, new[i] = Open(s), new[j].sid = s
        PROVE  i <= j
    <3>1. i = Len(w) + 1
      BY <1>6, <1>7, <2>6, <2>7
    <3>2. j > Len(w) /\ j \in Nat
      BY <1>8, <2>6, <2>7
    <3> QED BY <1>9, <3>1, <3>2
  <2>8. Open(s) \notin ToSet(notify'[e])
    BY <1>1
  <2> QED BY <2>1, <2>2, <2>5, <2>7, <2>8 DEF Life
<1>12. CASE s \notin opened
  <2>1. Unborn(s)' <=> Unborn(s)
    BY <1>1, <1>12
  <2>2. ASSUME NEW d \in End, d # e
        PROVE  /\ Knows(d, s)' => Knows(d, s)
               /\ Speaks(d, s)' => Speaks(d, s) \/ Knows(d, s)
               /\ Open(s) \in ToSet(wire'[d]) => Open(s) \in ToSet(wire[d])
               /\ Open(s) \in ToSet(notify'[d]) => Open(s) \in ToSet(notify[d])
               /\ First(wire[d], s) => First(wire'[d], s)
    <3>1. Kept(d)
      BY <2>2, TurnKept
    <3> QED BY <3>1, KeptFacts DEF Kept
  <2>3. Speaks(e, s)' => Speaks(e, s) \/ Knows(e, s)
    <3> SUFFICES ASSUME NEW i \in DOMAIN new, new[i].sid = s, new[i].type # "Open"
                 PROVE  Speaks(e, s) \/ Knows(e, s)
      BY DEF Speaks
    <3> QED BY <1>1, <1>8, <1>12 DEF Speaks
  <2>4. Open(s) \in ToSet(new) => Open(s) \in ToSet(w)
    BY <1>7, <1>12 DEF ToSet
  <2>5. First(w, s) => First(new, s)
    <3> SUFFICES ASSUME First(w, s), NEW i \in DOMAIN new, NEW j \in DOMAIN new,
                        new[i] = Open(s), new[j].sid = s
                 PROVE  i <= j
      BY DEF First
    <3>1. i \in DOMAIN w /\ w[i] = Open(s)
      BY <1>7, <1>12
    <3>2. CASE j \in DOMAIN w /\ w[j] = new[j]
      BY <3>1, <3>2 DEF First
    <3>3. CASE j > Len(w) /\ j \in Nat
      BY <1>9, <3>1, <3>3
    <3> QED BY <1>8, <3>2, <3>3
  <2>6. \A d \in End : /\ Knows(d, s)' => Knows(d, s)
                       /\ Speaks(d, s)' => Speaks(d, s) \/ Knows(d, s)
                       /\ Open(s) \in ToSet(wire'[d]) => Open(s) \in ToSet(wire[d])
                       /\ Open(s) \in ToSet(notify'[d]) => Open(s) \in ToSet(notify[d])
                       /\ First(wire[d], s) => First(wire'[d], s)
    BY <1>1, <1>12, <2>2, <2>3, <2>4, <2>5
  <2> QED BY <1>10, <2>1, <2>6, LifeKept
<1> QED BY <1>11, <1>12

LEMMA OverTurn ==
  ASSUME Typed, Typed', Acquainted, NEW e \in End, sending[e], NEW pick \in Picks(e),
         NEW p, NEW q, NEW x, NEW z, NEW ends,
         Turning(e, pick, p, q, x, z, ends), Turned(e, pick, p, q, x, z, ends),
         NEW s \in Sid, \A d \in End : Over(d, s)
  PROVE  \A d \in End : Over(d, s)'
<1> DEFINE w == wire[e]
           new == wire'[e]
           opened == Opening(pick)
           C == Ceding(e, pick)
<1>1. \A d \in End : d # e => Over(d, s)'
  BY TurnKept, KeptFacts
<1>2. /\ s \in opened => ~Knows(e, s) /\ ~Speaks(e, s)
      /\ ToSet(notify'[e]) = {} /\ held'[e] \subseteq (held[e] \cup opened) \ Closing(pick)
      /\ ToSet(closing'[e]) \subseteq C /\ C \subseteq ToSet(closing[e]) \cup held[e]
      /\ DOMAIN store'[e] \subseteq DOMAIN p.store
  BY TurnKnows
<1>3. /\ DOMAIN p.store = DOMAIN store[e] \cup Told(e) \cup opened
      /\ \A i \in DOMAIN x : x[i].type \in {"Data", "Close"} /\ x[i].sid \in DOMAIN p.store
      /\ \A i \in DOMAIN x : x[i].type = "Close" =>
           x[i].sid \in C /\ x[i].sid \notin DOMAIN q.store \cup ToSet(q.closing)
      /\ \A i, j \in DOMAIN x : x[i].type = "Close" /\ IsData(x[j], x[i].sid) => j < i
  BY DEF Turning, Tells
<1>4. PICK b : Laid(w, x, pick, new, b)
  BY TurnFrames
<1>5. b \in Nat /\ Len(w) \in Nat /\ DOMAIN new \subseteq Nat
  <2> HIDE DEF w, new
  <2> QED BY <1>4 DEF Laid
<1>6. Over(e, s) /\ (Close(s) \in ToSet(w) => Speaks(e, s))
  BY EventFacts DEF Speaks, ToSet
<1>7. Close(s) \in ToSet(w) =>
        /\ s \notin DOMAIN p.store \cup ToSet(closing[e]) \cup held[e]
        /\ s \notin opened
  BY <1>2, <1>3, <1>6 DEF Over, Told, Announces
<1>8. ASSUME NEW i \in DOMAIN new, new[i] = Close(s)
      PROVE  \/ i \in DOMAIN w /\ w[i] = Close(s) /\ i <= b
             \/ i > b /\ i - b \in DOMAIN x /\ x[i - b] = Close(s)
  <2>1. \A r : Open(r) # Close(s) /\ Close(s).sid = s /\ s # NoSid
    BY EventFacts
  <2> HIDE DEF w, new
  <2> QED BY <1>4, <1>8, <2>1 DEF Laid
<1>9. ASSUME NEW j \in DOMAIN new, IsData(new[j], s)
      PROVE  \/ j \in DOMAIN w /\ IsData(w[j], s) /\ j <= b
             \/ j > b /\ j - b \in DOMAIN x /\ IsData(x[j - b], s)
  <2>1. \A r : Open(r).type = "Open"
    BY DEF Open, Event
  <2> HIDE DEF w, new
  <2> QED BY <1>4, <1>9, <2>1 DEF Laid, IsData
<1>10. \A i \in DOMAIN w : w[i] = Close(s) => Close(s) \in ToSet(w)
  BY DEF ToSet
<1>11. ASSUME NEW i \in DOMAIN new, NEW j \in DOMAIN new, new[i] = Close(s), IsData(new[j], s)
       PROVE  j < i
  <2>1. i \in Nat /\ j \in Nat
    BY <1>5
  <2>2. CASE i \in DOMAIN w /\ w[i] = Close(s)
    <3>1. s \notin DOMAIN p.store
      BY <1>7, <1>10, <2>2
    <3>2. j \in DOMAIN w /\ IsData(w[j], s)
      BY <1>3, <1>9, <1>11, <3>1 DEF IsData
    <3> QED BY <1>6, <2>2, <3>2 DEF Over
  <2>3. CASE i > b /\ i - b \in DOMAIN x /\ x[i - b] = Close(s)
    <3>1. CASE j <= b
      BY <1>5, <2>1, <2>3, <3>1
    <3>2. CASE j > b /\ j - b \in DOMAIN x /\ IsData(x[j - b], s)
      <4>1. x[i - b].type = "Close" /\ x[i - b].sid = s
        BY <2>3, EventFacts
      <4>2. j - b < i - b
        BY <1>3, <2>3, <3>2, <4>1
      <4> QED BY <1>5, <2>1, <4>2
    <3> QED BY <1>9, <1>11, <3>1, <3>2
  <2> QED BY <1>8, <1>11, <2>2, <2>3
<1>12. ASSUME Close(s) \in ToSet(new)
       PROVE  s \notin held'[e] \cup ToSet(closing'[e]) \cup DOMAIN store'[e]
  <2>1. PICK i \in DOMAIN new : new[i] = Close(s)
    BY <1>12 DEF ToSet
  <2>2. CASE i \in DOMAIN w /\ w[i] = Close(s)
    BY <1>2, <1>7, <1>10, <2>2
  <2>3. CASE i - b \in DOMAIN x /\ x[i - b] = Close(s)
    <3>1. x[i - b].type = "Close" /\ x[i - b].sid = s
      BY <2>3, EventFacts
    <3>2. s \in C /\ s \notin DOMAIN q.store \cup ToSet(q.closing)
      BY SMTT(60), <1>3, <2>3, <3>1
    <3>3. /\ closing'[e] = (IF ends THEN <<>> ELSE q.closing)
          /\ store'[e] = (IF ends THEN <<>> ELSE q.store) /\ ends \in BOOLEAN
      BY DEF Turning, Turned, Typed, Shape
    <3>4. ToSet(<<>>) = {} /\ DOMAIN <<>> = {}
      BY DEF ToSet
    <3>5. s \notin ToSet(closing'[e]) \cup DOMAIN store'[e]
      BY <3>2, <3>3, <3>4
    <3>6. ToSet(closing[e]) \cap held[e] = {}
      BY KnownFacts DEF Ready
    <3>7. s \in ToSet(closing[e]) => s \notin opened
      BY <1>2 DEF Knows
    <3>8. s \in held[e] => s \notin opened
      BY <1>2 DEF Knows
    <3>9. s \notin held'[e]
      BY <1>2, <3>2, <3>6, <3>7 DEF Ceding
    <3> QED BY <3>5, <3>9
  <2> QED BY <1>8, <2>1, <2>2, <2>3
<1>13. Over(e, s)'
  BY <1>2, <1>11, <1>12 DEF Over, IsData
<1> QED BY <1>1, <1>13

LEMMA AcquaintedInit == Init => Acquainted
<1> SUFFICES ASSUME Init PROVE Acquainted
  OBVIOUS
<1>1. DOMAIN <<>> = {} /\ ToSet(<<>>) = {}
  BY DEF ToSet
<1>2. \A e \in End, s \in Sid : ~Knows(e, s) /\ ~Speaks(e, s)
  BY <1>1 DEF Init, Knows, Speaks
<1>3. \A e \in End : wire[e] = <<>> /\ notify[e] = <<>> /\ store[e] = <<>> /\ held[e] = {}
  BY DEF Init
<1>4. \A s \in Sid : Life(s)
  <2> SUFFICES ASSUME NEW s \in Sid PROVE Life(s)
    OBVIOUS
  <2>1. s[1] \in End /\ Peer(s[1]) \in End
    BY SidFacts, PeerFacts
  <2> QED BY <1>1, <1>2, <1>3, <2>1 DEF Life, Announced
<1>5. ASSUME NEW e \in End PROVE Serves(e)
  <2>1. /\ sending[e] /\ checked[e] = NoSid /\ outbox[e] = <<>> /\ closing[e] = <<>>
    BY DEF Init
  <2> QED BY <1>1, <1>3, <2>1 DEF Serves, Ready
<1>6. NoPanic
  BY DEF Init, NoPanic
<1> QED BY <1>4, <1>5, <1>6 DEF Acquainted

LEMMA NoPanicKept ==
  ASSUME Typed, NoPanic,
         \/ panicked' = panicked
         \/ \E e \in End : panicked' = [panicked EXCEPT ![e] = "nobody to open"]
  PROVE  NoPanic'
<1>1. CASE panicked' = panicked
  BY <1>1 DEF NoPanic
<1>2. CASE \E e \in End : panicked' = [panicked EXCEPT ![e] = "nobody to open"]
  BY <1>2 DEF NoPanic, Typed, Shape
<1> QED BY <1>1, <1>2

\* Who knows of a stream, in every step; and that its Close stays the last.
LEMMA AcquaintedNext ==
  ASSUME Typed, Typed', Acquainted, [Next]_vars
  PROVE  Acquainted' /\ (Orderly => Orderly')
<1>0. NoPanic /\ \A s \in Sid : Life(s)
  BY DEF Acquainted
<1>1. ASSUME Fading, \A d \in End : Serves(d)', NoPanic'
      PROVE  Acquainted' /\ (Orderly => Orderly')
  BY <1>0, <1>1, FadingFacts DEF Acquainted, Orderly
<1>2. ASSUME NEW e \in End,
             \/ \E s \in Sid : Check(e, s)
             \/ \E how \in {"leaving", "dropped"} : Leave(e, how)
             \/ CloseChannel(e) \/ Timeout(e) \/ Finish(e) \/ UNCHANGED vars
      PROVE  Acquainted' /\ (Orderly => Orderly')
  <2>1. Idle
    BY <1>2, IdleActions
  <2>2. Fading /\ NoPanic'
    BY <1>0, <2>1, FadingIdle, NoPanicKept DEF Idle
  <2>3. \A d \in End : Serves(d)'
    BY <1>2, ServesIdle
  <2> QED BY <1>1, <2>2, <2>3
<1>3. ASSUME NEW e \in End, Send(e) PROVE Acquainted' /\ (Orderly => Orderly')
  <2>1. panicked' = panicked
    BY <1>3 DEF Send, bothVars
  <2> QED BY <1>0, <1>1, <1>3, <2>1, FadingSend, ServesSend, NoPanicKept
<1>4. ASSUME NEW e \in End, NEW pick \in Picks(e), SendTurn(e, pick)
      PROVE  Acquainted' /\ (Orderly => Orderly')
  <2>1. PICK p, q, x, z, ends : /\ Turning(e, pick, p, q, x, z, ends)
                                /\ Turned(e, pick, p, q, x, z, ends)
    BY <1>4, TurnResult
  <2>2. sending[e]
    BY <1>4 DEF SendTurn
  <2>3. \A s \in Sid : Life(s)'
    BY <2>1, <2>2, LifeTurn
  <2>4. \A d \in End : Serves(d)'
    BY <2>1, <2>2, ServesTurn
  <2>5. panicked' = panicked
    BY <2>1 DEF Turned
  <2>6. NoPanic'
    BY <1>0, <2>5, NoPanicKept
  <2>7. Orderly => Orderly'
    BY <2>1, <2>2, OverTurn DEF Orderly
  <2> QED BY <2>3, <2>4, <2>6, <2>7 DEF Acquainted
<1>5. ASSUME NEW e \in End, ReceiveOpen(e) PROVE Acquainted' /\ (Orderly => Orderly')
  <2>1. (\A s \in Sid : Life(s)') /\ (Orderly => Orderly')
    BY <1>5, LifeOpen DEF Orderly
  <2>2. \A d \in End : Serves(d)'
    BY <1>5, ServesOpen
  <2>3. panicked' = panicked
    BY <1>5, OpenFacts
  <2> QED BY <1>0, <2>1, <2>2, <2>3, NoPanicKept DEF Acquainted
<1>6. ASSUME NEW e \in End, ReceivePanic(e) PROVE Acquainted' /\ (Orderly => Orderly')
  <2>1. Panic(e, "nobody to open")
    BY <1>6 DEF ReceivePanic
  <2>2. panicked' = [panicked EXCEPT ![e] = "nobody to open"]
    BY <2>1 DEF Panic
  <2> QED BY <1>0, <1>1, <2>1, <2>2, FadingPanic, ServesPanic, NoPanicKept
<1>7. ASSUME NEW e \in End, ReceiveClose(e) PROVE Acquainted' /\ (Orderly => Orderly')
  <2>1. panicked' = panicked
    BY <1>7 DEF ReceiveClose
  <2> QED BY <1>0, <1>1, <1>7, <2>1, FadingClose, ServesClose, NoPanicKept
<1>8. ASSUME NEW e \in End, ReceiveData(e) PROVE Acquainted' /\ (Orderly => Orderly')
  <2>1. panicked' = panicked
    BY <1>8 DEF ReceiveData, bothVars
  <2> QED BY <1>0, <1>1, <1>8, <2>1, FadingData, ServesStop, NoPanicKept
<1>9. ASSUME NEW e \in End, ReceiveEnd(e) \/ ForcedEnd(e)
      PROVE  Acquainted' /\ (Orderly => Orderly')
  <2>1. panicked' = panicked
    BY <1>9, StopFacts
  <2> QED BY <1>0, <1>1, <1>9, <2>1, FadingStop, ServesStop, NoPanicKept
<1>10. ASSUME Break PROVE Acquainted' /\ (Orderly => Orderly')
  <2>1. PICK e \in End : TRUE
    <3>1. End # {}
      BY EndAssumption, FS_EmptySet
    <3> QED BY <3>1
  <2>2. panicked' = panicked
    BY <1>10, BreakFacts
  <2> QED BY <1>0, <1>1, <1>10, <2>1, <2>2, FadingBreak, ServesStop, NoPanicKept
<1>11. End # {}
  BY EndAssumption, FS_EmptySet
<1> QED BY <1>2, <1>3, <1>4, <1>5, <1>6, <1>7, <1>8, <1>9, <1>10, <1>11 DEF Next, Receive

-----------------------------------------------------------------------------
(* The messages of a stream *)

LEMMA FlowTyped ==
  ASSUME Typed, NEW e \in End, NEW s \in Sid
  PROVE  /\ sent[e][s] \in Nat /\ wire[e] \in Seq(Frame(e))
         /\ outbox[e] \in Seq(Sid \X (1..MaxSent[e]))
         /\ AsData(outbox[e]) \in Seq(Datum(e))
         /\ DOMAIN AsData(outbox[e]) = DOMAIN outbox[e]
         /\ \A i \in DOMAIN outbox[e] : /\ AsData(outbox[e])[i].sid = outbox[e][i][1]
                                        /\ AsData(outbox[e])[i].n = outbox[e][i][2]
                                        /\ AsData(outbox[e])[i].type = "Data"
<1>1. sent[e] \in [Sid -> 0..MaxSent[e]]
  BY DEF Typed, Bounded
<1>2. sent[e][s] \in Nat
  BY <1>1
<1> DEFINE w == outbox[e]
<1>3. w \in Seq(Sid \X (1..MaxSent[e]))
  BY DEF Typed, Bounded
<1> HIDE DEF w
<1>4. /\ DOMAIN w = 1..Len(w) /\ Len(w) \in Nat
      /\ \A i \in DOMAIN w : w[i][1] \in Sid /\ w[i][2] \in 1..MaxSent[e]
  <2> DEFINE X == Sid \X (1..MaxSent[e])
  <2>1. \A x \in X : x[1] \in Sid /\ x[2] \in 1..MaxSent[e]
    OBVIOUS
  <2>2. w \in Seq(X)
    BY <1>3
  <2> HIDE DEF X
  <2> QED BY <2>1, <2>2
<1>5. /\ DOMAIN AsData(w) = DOMAIN w
      /\ \A i \in DOMAIN w : /\ AsData(w)[i] \in Datum(e)
                             /\ AsData(w)[i].sid = w[i][1] /\ AsData(w)[i].n = w[i][2]
                             /\ AsData(w)[i].type = "Data"
  BY <1>4 DEF AsData, Datum
<1>6. AsData(w) \in Seq(Datum(e))
  <2>1. AsData(w) \in [1..Len(w) -> Datum(e)]
    BY <1>4, <1>5 DEF AsData
  <2> QED BY <1>4, <2>1
<1>7. wire[e] \in Seq(Frame(e))
  BY DEF Typed, Bounded
<1> QED BY <1>2, <1>3, <1>5, <1>6, <1>7 DEF w

\* On a stream that is not open yet, nothing has been sent.
LEMMA UnbornFlow ==
  ASSUME Typed, Acquainted, NEW e \in End, NEW s \in Sid, Unborn(s)
  PROVE  Flow(e, s)
<1> DEFINE p == Peer(e)
<1>1. p \in End /\ s[1] \in End /\ (s[1] = e \/ s[1] = p) /\ Peer(e) = p /\ Peer(p) = e
  BY PeerFacts, SidFacts
<1> HIDE DEF p
<1>2. /\ ~Knows(s[1], s) /\ ~Speaks(s[1], s)
      /\ ~Knows(Peer(s[1]), s) /\ ~Speaks(Peer(s[1]), s)
  BY DEF Acquainted, Life
<1>3. ~Knows(e, s) /\ ~Knows(p, s) /\ ~Speaks(p, s)
  BY <1>1, <1>2
<1>4. sent[p][s] = 0 /\ delivered[e][s] = <<>> /\ s \notin DOMAIN store[p] /\ s \notin held[p]
  BY <1>3 DEF Knows
<1>5. Carries(wire[p], s, 0, 0)
  <2>1. \A i \in DOMAIN wire[p] : ~ IsData(wire[p][i], s)
    BY <1>3 DEF Speaks, IsData
  <2> QED BY <2>1, CarriesNone
<1>6. ASSUME sending[p] PROVE Backlog(p, s, 0)
  <2>1. \A i \in DOMAIN outbox[p] : outbox[p][i][1] # s
    BY <1>1, <1>4, <1>6 DEF Acquainted, Serves, Ready
  <2>2. \A i \in DOMAIN AsData(outbox[p]) : ~ IsData(AsData(outbox[p])[i], s)
    <3>1. /\ DOMAIN AsData(outbox[p]) = DOMAIN outbox[p]
          /\ \A i \in DOMAIN outbox[p] : AsData(outbox[p])[i].sid = outbox[p][i][1]
      BY <1>1, FlowTyped
    <3> QED BY <2>1, <3>1 DEF IsData
  <2>3. Carries(AsData(outbox[p]), s, 0, 0)
    BY <2>2, CarriesNone
  <2>4. Queues(store[p], s, 0, 0)
    BY <1>4 DEF Queues
  <2>5. 0 \in 0..sent[p][s]
    BY <1>4
  <2> QED BY <1>4, <2>3, <2>4, <2>5 DEF Backlog
<1>7. <<>> = [n \in 1..0 |-> n]
  OBVIOUS
<1>8. 0 \in 0..sent[p][s]
  BY <1>4
<1> QED BY <1>1, <1>4, <1>5, <1>6, <1>7, <1>8 DEF Flow

SenderKept(p) ==
  /\ sent'[p] = sent[p]
  /\ sending'[p] /\ ~broken' => /\ sending[p] /\ ~broken
                                /\ store'[p] = store[p] /\ outbox'[p] = outbox[p]

FlowAt(e, s, d, t) ==
  LET p == Peer(e)
  IN  /\ d \in 0..sent[p][s] /\ t \in d..sent[p][s]
      /\ delivered[e][s] = [n \in 1..d |-> n]
      /\ Carries(wire[p], s, d, t)
      /\ sending[p] /\ ~broken => Backlog(p, s, t)
      /\ Close(s) \in ToSet(wire[p]) => t = sent[p][s]

LEMMA FlowParts ==
  ASSUME NEW e \in End, NEW s \in Sid
  PROVE  /\ Flow(e, s) => \E d, t : FlowAt(e, s, d, t)
         /\ \A d, t : FlowAt(e, s, d, t) => Flow(e, s)
         /\ (\E d, t : FlowAt(e, s, d, t)') => Flow(e, s)'
BY DEF Flow, FlowAt

LEMMA FlowSame ==
  ASSUME NEW e \in End, NEW s \in Sid, Flow(e, s), SenderKept(Peer(e)),
         wire'[Peer(e)] = wire[Peer(e)], delivered'[e][s] = delivered[e][s]
  PROVE  Flow(e, s)'
<1>1. PICK d, t : FlowAt(e, s, d, t)
  BY FlowParts
<1>2. FlowAt(e, s, d, t)'
  BY <1>1 DEF FlowAt, SenderKept, Backlog
<1> QED BY <1>2, FlowParts

\* The next frame arrives.
LEMMA FlowTail ==
  ASSUME Typed, NEW e \in End, NEW s \in Sid, Flow(e, s), SenderKept(Peer(e)),
         wire[Peer(e)] # <<>>, wire'[Peer(e)] = Tail(wire[Peer(e)]),
         delivered'[e][s] = IF IsData(Arrived(e), s) THEN Append(delivered[e][s], Arrived(e).n)
                            ELSE delivered[e][s]
  PROVE  Flow(e, s)'
<1> DEFINE p == Peer(e)
           w == wire[p]
           X == Frame(p)
<1>1. PICK d, t : FlowAt(e, s, d, t)
  BY FlowParts
<1>2. p \in End
  BY PeerFacts
<1>3. w \in Seq(X) /\ sent[p][s] \in Nat
  BY <1>2, FlowTyped
<1>4. d \in Nat /\ t \in Nat /\ d <= t /\ t <= sent[p][s] /\ Carries(w, s, d, t)
  BY <1>1, <1>3 DEF FlowAt
<1>5. Arrived(e) = Head(w) /\ w # <<>>
  BY DEF Arrived
<1>6. Close(s) \in ToSet(Tail(w)) => Close(s) \in ToSet(w)
  <2> HIDE DEF w, X
  <2>1. ToSet(w) = {Head(w)} \cup ToSet(Tail(w))
    BY <1>3, <1>5, SequenceFacts
  <2> QED BY <2>1
<1> HIDE DEF w, X, p
<1>7. IF IsData(Head(w), s)
      THEN Head(w).n = d + 1 /\ d < t /\ Carries(Tail(w), s, d + 1, t)
      ELSE Carries(Tail(w), s, d, t)
  BY <1>3, <1>4, <1>5, CarriesTail
<1>8. /\ delivered[e][s] = [n \in 1..d |-> n]
      /\ sending[p] /\ ~broken => Backlog(p, s, t)
      /\ Close(s) \in ToSet(w) => t = sent[p][s]
  BY <1>1 DEF FlowAt, p, w
<1>9. sending'[p] /\ ~broken' => Backlog(p, s, t)'
  BY <1>8 DEF SenderKept, Backlog, p
<1>10. sent'[p][s] = sent[p][s] /\ wire'[p] = Tail(w)
  BY DEF SenderKept, p, w
<1>11. CASE IsData(Head(w), s)
  <2>1. Append([n \in 1..d |-> n], d + 1) = [n \in 1..(d + 1) |-> n]
    BY <1>4
  <2>2. delivered'[e][s] = [n \in 1..(d + 1) |-> n]
    BY <1>5, <1>7, <1>8, <1>11, <2>1
  <2>3. d + 1 \in 0..sent[p][s] /\ t \in (d + 1)..sent[p][s]
    BY <1>3, <1>4, <1>7, <1>11
  <2>4. FlowAt(e, s, d + 1, t)'
    BY <1>6, <1>7, <1>8, <1>9, <1>10, <1>11, <2>2, <2>3 DEF FlowAt, p
  <2> QED BY <2>4, FlowParts
<1>12. CASE ~ IsData(Head(w), s)
  <2>1. d \in 0..sent[p][s] /\ t \in d..sent[p][s]
    BY <1>3, <1>4
  <2>2. delivered'[e][s] = [n \in 1..d |-> n]
    BY <1>5, <1>8, <1>12
  <2>3. FlowAt(e, s, d, t)'
    BY <1>6, <1>7, <1>8, <1>9, <1>10, <1>12, <2>1, <2>2 DEF FlowAt, p
  <2> QED BY <2>3, FlowParts
<1> QED BY <1>11, <1>12

LEMMA EofFacts ==
  ASSUME NEW e \in End, NEW w \in Seq(Frame(e)), NEW s \in Sid, NEW a \in Nat, NEW b \in Nat,
         a <= b, Carries(w, s, a, b)
  PROVE  /\ Carries(Append(w, Eof), s, a, b)
         /\ Close(s) \in ToSet(Append(w, Eof)) <=> Close(s) \in ToSet(w)
<1> DEFINE X == Frame(e)
           f == Eof
<1>1. f \in X /\ ~ IsData(f, s) /\ Close(s) # f
  BY EventFacts DEF Frame, IsData
<1>2. w \in Seq(X)
  OBVIOUS
<1> HIDE DEF X, f
<1>3. Carries(Append(w, f), s, a, b)
  BY <1>1, <1>2, CarriesAppend
<1>4. ToSet(Append(w, f)) = ToSet(w) \cup {f}
  BY <1>1, <1>2, SequenceFacts
<1> QED BY <1>1, <1>3, <1>4 DEF f

\* The sender's task dies.
LEMMA FlowEof ==
  ASSUME Typed, NEW e \in End, NEW s \in Sid, Flow(e, s), SenderKept(Peer(e)),
         wire'[Peer(e)] = Append(wire[Peer(e)], Eof), delivered'[e][s] = delivered[e][s]
  PROVE  Flow(e, s)'
<1> DEFINE p == Peer(e)
           w == wire[p]
<1>1. PICK d, t : FlowAt(e, s, d, t)
  BY FlowParts
<1>2. p \in End
  BY PeerFacts
<1>3. w \in Seq(Frame(p)) /\ sent[p][s] \in Nat
  BY <1>2, FlowTyped
<1>4. d \in Nat /\ t \in Nat /\ d <= t /\ Carries(w, s, d, t)
  BY <1>1, <1>3 DEF FlowAt
<1> HIDE DEF p, w
<1>5. /\ Carries(Append(w, Eof), s, d, t)
      /\ Close(s) \in ToSet(Append(w, Eof)) <=> Close(s) \in ToSet(w)
  BY <1>2, <1>3, <1>4, EofFacts
<1>6. wire'[p] = Append(w, Eof)
  BY DEF p, w
<1>7. FlowAt(e, s, d, t)'
  BY <1>1, <1>5, <1>6 DEF FlowAt, SenderKept, Backlog, p, w
<1> QED BY <1>7, FlowParts

LEMMA FlowBreak ==
  ASSUME Typed, NEW e \in End, NEW s \in Sid, Flow(e, s), Over(Peer(e), s), receiving[e], Break
  PROVE  Flow(e, s)'
<1> DEFINE p == Peer(e)
           w == wire[p]
<1>1. PICK d, t : FlowAt(e, s, d, t)
  BY FlowParts
<1>2. p \in End /\ Peer(p) = e
  BY PeerFacts
<1>3. w \in Seq(Frame(p)) /\ sent[p][s] \in Nat
  BY <1>2, FlowTyped
<1>4. d \in Nat /\ t \in Nat /\ d <= t /\ t <= sent[p][s] /\ Carries(w, s, d, t)
  BY <1>1, <1>3 DEF FlowAt
<1>5. PICK k \in 0..Len(w) : wire'[p] = Append(SubSeq(w, 1, k), Eof)
  BY <1>2, BreakWire
<1>6. broken' = TRUE /\ UNCHANGED <<sent, delivered>>
  BY BreakFacts
<1>7. delivered[e][s] = [n \in 1..d |-> n] /\ (Close(s) \in ToSet(w) => t = sent[p][s])
  BY <1>1 DEF FlowAt
<1>8. \A i, j \in DOMAIN w : w[i] = Close(s) /\ IsData(w[j], s) => j < i
  BY DEF Over
<1> DEFINE v == SubSeq(w, 1, k)
           X == Frame(p)
<1> HIDE DEF p, w
<1>9. v \in Seq(X) /\ DOMAIN v = 1..k /\ \A i \in 1..k : v[i] = w[i] /\ i \in DOMAIN w
  <2> HIDE DEF X, v
  <2>1. w \in Seq(X)
    BY <1>3 DEF X
  <2> QED BY <2>1, PrefixFacts DEF v
<1>10. k \in Nat /\ DOMAIN w = 1..Len(w)
  <2> HIDE DEF X, v
  <2>1. w \in Seq(X)
    BY <1>3 DEF X
  <2> QED BY <2>1
<1>11. /\ \E c \in d..t : Carries(v, s, d, c)
       /\ (\A i \in DOMAIN w : IsData(w[i], s) => i <= k) => Carries(v, s, d, t)
  <2> HIDE DEF X
  <2>1. w \in Seq(X)
    BY <1>3 DEF X
  <2> QED BY <1>4, <2>1, CarriesPrefix
<1> HIDE DEF v
<1>12. ASSUME NEW c \in d..t, Carries(v, s, d, c), Close(s) \in ToSet(v) => c = sent[p][s]
       PROVE  Flow(e, s)'
  <2>1. c \in Nat /\ d <= c /\ d \in 0..sent[p][s] /\ c \in d..sent[p][s]
    BY <1>3, <1>4
  <2>2. /\ Carries(Append(v, Eof), s, d, c)
        /\ Close(s) \in ToSet(Append(v, Eof)) <=> Close(s) \in ToSet(v)
    BY <1>2, <1>4, <1>9, <1>12, <2>1, EofFacts
  <2>3. wire'[p] = Append(v, Eof)
    BY <1>5 DEF v
  <2>4. FlowAt(e, s, d, c)'
    BY <1>6, <1>7, <1>12, <2>1, <2>2, <2>3 DEF FlowAt, p
  <2> QED BY <2>4, FlowParts
<1>13. CASE Close(s) \in ToSet(v)
  <2>1. PICK i \in 1..k : w[i] = Close(s)
    BY <1>9, <1>13 DEF ToSet
  <2>2. i \in DOMAIN w /\ Close(s) \in ToSet(w)
    BY <1>9, <2>1 DEF ToSet
  <2>3. \A j \in DOMAIN w : IsData(w[j], s) => j <= k
    <3> SUFFICES ASSUME NEW j \in DOMAIN w, IsData(w[j], s) PROVE j <= k
      OBVIOUS
    <3>1. j < i
      BY <1>8, <2>1, <2>2
    <3> QED BY <1>10, <3>1
  <2>4. Carries(v, s, d, t) /\ t \in d..t /\ t = sent[p][s]
    BY <1>4, <1>7, <1>11, <2>2, <2>3
  <2> QED BY <1>12, <2>4
<1>14. CASE Close(s) \notin ToSet(v)
  BY <1>11, <1>12, <1>14
<1> QED BY <1>13, <1>14

\* The application of the sender sends one message more.
LEMMA FlowSend ==
  ASSUME Typed, Acquainted, NEW e \in End, NEW s \in Sid, Flow(e, s), Over(Peer(e), s),
         Send(Peer(e))
  PROVE  Flow(e, s)'
<1> DEFINE p == Peer(e)
           c == checked[p]
           n == sent[p][c] + 1
           w == outbox[p]
           x == <<c, n>>
           f == [type |-> "Data", sid |-> c, n |-> n]
<1>1. PICK d, t : FlowAt(e, s, d, t)
  BY FlowParts
<1>2. p \in End
  BY PeerFacts
<1>3. /\ c # NoSid /\ sent' = [sent EXCEPT ![p][c] = n]
      /\ outbox' = [outbox EXCEPT ![p] = Append(@, x)]
      /\ UNCHANGED <<delivered, wire, sending, broken, store>>
  BY DEF Send, recvVars, wireVars
<1>4. c \in Sid /\ c \in held[p]
  BY <1>2, <1>3 DEF Typed, Shape, Acquainted, Serves, Ready
<1>5. /\ sent[p] \in [Sid -> 0..MaxSent[p]] /\ sent[p][c] < MaxSent[p]
      /\ MaxSent[p] \in Nat /\ sent = [b \in End |-> sent[b]]
  BY <1>2, <1>3, ConstantFacts DEF Typed, Shape, Bounded
<1>6. n \in 1..MaxSent[p] /\ \A r \in Sid : sent[p][r] \in Nat
  BY <1>4, <1>5
<1>7. sent'[p] = [sent[p] EXCEPT ![c] = n]
  BY <1>2, <1>3, <1>5
<1>8. outbox'[p] = Append(w, x)
  BY <1>2, <1>3 DEF Typed, Shape
<1>9. /\ d \in Nat /\ t \in Nat /\ d <= t /\ t <= sent[p][s] /\ delivered[e][s] = [m \in 1..d |-> m]
      /\ Carries(wire[p], s, d, t)
      /\ sending[p] /\ ~broken => Backlog(p, s, t)
      /\ Close(s) \in ToSet(wire[p]) => t = sent[p][s]
  <2>1. sent[p][s] \in Nat
    BY <1>6
  <2> QED BY <1>1, <2>1 DEF FlowAt
<1>10. /\ w \in Seq(Sid \X (1..MaxSent[p])) /\ AsData(w) \in Seq(Datum(p))
       /\ x \in Sid \X (1..MaxSent[p]) /\ f \in Datum(p)
  BY <1>2, <1>4, <1>6, FlowTyped DEF Datum
<1>11. AsData(Append(w, x)) = Append(AsData(w), f)
  <2> DEFINE X == Sid \X (1..MaxSent[p])
             Y == Datum(p)
             v == Append(w, x)
             a == AsData(w)
             g(y) == [type |-> "Data", sid |-> y[1], n |-> y[2]]
  <2>1. w \in Seq(X) /\ x \in X /\ a \in Seq(Y) /\ f \in Y /\ f = g(x)
    BY <1>10
  <2>2. /\ DOMAIN a = DOMAIN w /\ \A i \in DOMAIN w : a[i] = g(w[i])
        /\ DOMAIN AsData(v) = DOMAIN v /\ \A i \in DOMAIN v : AsData(v)[i] = g(v[i])
        /\ AsData(v) = [i \in DOMAIN v |-> AsData(v)[i]]
    BY DEF AsData
  <2> HIDE DEF X, Y, a, w, x, f, g
  <2>3. /\ Len(w) \in Nat /\ DOMAIN w = 1..Len(w) /\ DOMAIN v = 1..(Len(w) + 1)
        /\ v[Len(w) + 1] = x /\ \A i \in 1..Len(w) : v[i] = w[i]
    BY <2>1
  <2>4. /\ Len(a) \in Nat /\ DOMAIN a = 1..Len(a) /\ Len(a) = Len(w)
        /\ DOMAIN Append(a, f) = 1..(Len(a) + 1)
        /\ Append(a, f)[Len(a) + 1] = f /\ \A i \in 1..Len(a) : Append(a, f)[i] = a[i]
        /\ Append(a, f) = [i \in DOMAIN Append(a, f) |-> Append(a, f)[i]]
    <3>1. Len(a) \in Nat /\ DOMAIN a = 1..Len(a)
      BY <2>1
    <3>2. Len(a) = Len(w)
      BY <2>2, <2>3, <3>1
    <3>3. /\ DOMAIN Append(a, f) = 1..(Len(a) + 1)
          /\ Append(a, f)[Len(a) + 1] = f /\ \A i \in 1..Len(a) : Append(a, f)[i] = a[i]
      BY <2>1
    <3>4. Append(a, f) \in Seq(Y)
      BY <2>1
    <3>5. Append(a, f) = [i \in DOMAIN Append(a, f) |-> Append(a, f)[i]]
      <4> DEFINE u == Append(a, f)
      <4>1. u \in Seq(Y)
        BY <3>4
      <4> HIDE DEF u
      <4>2. u \in [1..Len(u) -> Y]
        BY <4>1
      <4>3. u = [i \in DOMAIN u |-> u[i]]
        BY <4>2
      <4> QED BY <4>3 DEF u
    <3> QED BY <3>1, <3>2, <3>3, <3>5
  <2> HIDE DEF v
  <2>5. \A i \in 1..(Len(w) + 1) : i \in 1..Len(w) \/ i = Len(w) + 1
    BY <2>3
  <2>6. \A i \in 1..(Len(w) + 1) : AsData(v)[i] = Append(a, f)[i]
    BY <2>1, <2>2, <2>3, <2>4, <2>5
  <2>7. AsData(v) = Append(a, f)
    BY <2>2, <2>3, <2>4, <2>6
  <2> QED BY <2>7 DEF v, a
<1> HIDE DEF p, c, n, w, x, f
<1>12. ASSUME sending'[p] /\ ~broken' PROVE Backlog(p, s, t)'
  <2>1. PICK q \in t..sent[p][s] :
          Queues(store[p], s, t, q) /\ Carries(AsData(w), s, q, sent[p][s])
    BY <1>3, <1>9, <1>12 DEF Backlog, w
  <2>2. q \in Nat /\ sent[p][s] \in Nat /\ q <= sent[p][s]
    BY <1>6, <1>9, <2>1
  <2>3. Carries(AsData(outbox'[p]), s, q, sent'[p][s]) /\ q \in t..sent'[p][s]
    <3> DEFINE a == AsData(w)
               b == sent[p][s]
               Y == Datum(p)
    <3>1. a \in Seq(Y) /\ f \in Y /\ AsData(outbox'[p]) = Append(a, f)
          /\ b \in Nat /\ q <= b /\ Carries(a, s, q, b)
      BY <1>8, <1>10, <1>11, <2>1, <2>2
    <3> HIDE DEF a, b, Y
    <3>2. CASE s = c
      <4>1. IsData(f, s) /\ f.n = b + 1 /\ sent'[p][s] = b + 1
        BY <1>4, <1>5, <1>7, <3>2 DEF IsData, f, n, b
      <4>2. Carries(Append(a, f), s, q, b + 1)
        BY <2>2, <3>1, <4>1, CarriesAppend
      <4> QED BY <1>9, <2>1, <2>2, <3>1, <4>1, <4>2 DEF b
    <3>3. CASE s # c
      <4>1. ~ IsData(f, s) /\ sent'[p][s] = b
        BY <1>4, <1>5, <1>7, <3>3 DEF IsData, f, b
      <4>2. Carries(Append(a, f), s, q, b)
        BY <2>2, <3>1, <4>1, CarriesAppend
      <4> QED BY <2>1, <3>1, <4>1, <4>2 DEF b
    <3> QED BY <3>2, <3>3
  <2>4. Queues(store'[p], s, t, q)
    BY <1>3, <2>1
  <2> QED BY <2>3, <2>4 DEF Backlog
<1>13. sent'[p][s] = (IF s = c THEN sent[p][s] + 1 ELSE sent[p][s]) /\ sent[p][s] \in Nat
  BY <1>4, <1>5, <1>6, <1>7 DEF n
<1>14. Close(s) \in ToSet(wire[p]) => s # c
  BY <1>4 DEF Over, p
<1>15. d \in 0..sent'[p][s] /\ t \in d..sent'[p][s]
  BY <1>9, <1>13
<1>16. FlowAt(e, s, d, t)'
  <2>1. Close(s) \in ToSet(wire'[p]) => t = sent'[p][s]
    BY <1>3, <1>9, <1>13, <1>14
  <2> QED BY <1>3, <1>9, <1>12, <1>15, <2>1 DEF FlowAt, p
<1> QED BY <1>16, FlowParts

\* A turn of the sender: messages move from the channel to the queues, and from
\* there to the wire.
LEMMA FlowWrites ==
  ASSUME Typed, NEW e \in End, sending[e], NEW pick \in Picks(e),
         NEW p, NEW q, NEW x, NEW z, NEW ends,
         Turning(e, pick, p, q, x, z, ends), Turned(e, pick, p, q, x, z, ends),
         NEW s \in Sid, Flow(Peer(e), s), ~Deaf(e)
  PROVE  Flow(Peer(e), s)'
<1> DEFINE a == Peer(e)
           X == Frame(e)
           w == wire[e]
           o == p.out
           n == sent[e][s]
<1>1. a \in End /\ Peer(a) = e /\ a # e
  BY PeerFacts
<1>2. PICK d, t : FlowAt(a, s, d, t)
  BY <1>1, FlowParts
<1>3. n \in Nat /\ AsData(outbox[e]) \in Seq(Datum(e))
  BY FlowTyped
<1>4. /\ d \in Nat /\ t \in Nat /\ d <= t /\ t <= n
      /\ delivered[a][s] = [m \in 1..d |-> m]
      /\ Carries(w, s, d, t)
      /\ Backlog(e, s, t)
      /\ Close(s) \in ToSet(w) => t = n
  BY <1>1, <1>2, <1>3 DEF FlowAt, Deaf
<1>5. PICK r \in t..n : Queues(store[e], s, t, r) /\ Carries(AsData(outbox[e]), s, r, n)
  BY <1>4 DEF Backlog
<1>6. Queues(p.store, s, t, n)
  <2>1. r \in Nat /\ t <= r /\ r <= n
    BY <1>3, <1>4, <1>5
  <2>2. Loads(store[e], outbox[e], p.store)
    BY DEF Turning
  <2> HIDE DEF n
  <2> QED BY <1>3, <1>4, <1>5, <2>1, <2>2 DEF Loads
<1>7. PICK b \in t..n : /\ Carries(x, s, t, b) /\ Queues(q.store, s, b, n)
                        /\ Close(s) \in ToSet(x) => b = n
  <2>1. Tells(p, q, x, Ceding(e, pick))
    BY DEF Turning
  <2> HIDE DEF n
  <2> QED BY <1>3, <1>4, <1>6, <2>1 DEF Tells
<1>8. b \in Nat /\ t <= b /\ b <= n /\ d <= b
  BY <1>3, <1>4, <1>7
<1>9. w \in Seq(X) /\ o \in Seq(X) /\ x \in Seq(X) /\ z \in Seq(X)
      /\ o \o x \in Seq(X) /\ (o \o x) \o z \in Seq(X)
  BY TurnWire DEF Typed, Bounded
<1>10. Carries(o, s, t, t) /\ Close(s) \notin ToSet(o)
  <2>1. o = IF pick.type = "open" THEN <<Open(pick.sid)>> ELSE <<>>
    BY DEF Turning
  <2> HIDE DEF o
  <2>2. \A i \in DOMAIN o : o[i] = Open(pick.sid)
    BY <2>1
  <2>3. Open(pick.sid) # Close(s) /\ ~ IsData(Open(pick.sid), s)
    BY EventFacts DEF IsData, Open, Event
  <2>4. \A i \in DOMAIN o : ~ IsData(o[i], s) /\ o[i] # Close(s)
    BY <2>2, <2>3
  <2> QED BY <1>4, <2>4, CarriesNone DEF ToSet
<1>11. Carries(z, s, b, b) /\ Close(s) \notin ToSet(z)
  <2> DEFINE Y == {Shutdown, Eof}
  <2>1. z \in Seq(Y)
    BY DEF Turning
  <2>2. \A f \in Y : f # Close(s) /\ ~ IsData(f, s)
    BY EventFacts DEF IsData
  <2> HIDE DEF Y
  <2>3. \A i \in DOMAIN z : z[i] \in Y
    BY <2>1
  <2>4. \A i \in DOMAIN z : ~ IsData(z[i], s) /\ z[i] # Close(s)
    BY SMTT(60), <2>2, <2>3
  <2> QED BY <1>8, <2>4, CarriesNone DEF ToSet
<1>12. /\ wire'[e] = w \o ((o \o x) \o z) /\ outbox'[e] = <<>> /\ sent' = sent
       /\ sending'[e] = ~ends /\ (~ends => store'[e] = q.store) /\ ends \in BOOLEAN
  BY DEF Turned, Turning, Typed, Shape
<1>13. delivered'[a] = delivered[a]
  BY <1>1, TurnKept
<1> HIDE DEF a, X, w, o, n
<1>14. Carries(w \o ((o \o x) \o z), s, d, b)
  <2>1. Carries(o \o x, s, t, b)
    BY <1>4, <1>7, <1>8, <1>9, <1>10, CarriesConcat
  <2>2. Carries((o \o x) \o z, s, t, b)
    <3> DEFINE u == o \o x
    <3>1. u \in Seq(X) /\ Carries(u, s, t, b)
      BY <1>9, <2>1
    <3> HIDE DEF u
    <3>2. Carries(u \o z, s, t, b)
      BY <1>4, <1>8, <1>9, <1>11, <3>1, CarriesConcat
    <3> QED BY <3>2 DEF u
  <2> DEFINE u == (o \o x) \o z
  <2>3. u \in Seq(X) /\ Carries(u, s, t, b)
    BY <1>9, <2>2
  <2> HIDE DEF u
  <2>4. Carries(w \o u, s, d, b)
    BY <1>4, <1>8, <1>9, <2>3, CarriesConcat
  <2> QED BY <2>4 DEF u
<1>15. Close(s) \in ToSet(w \o ((o \o x) \o z)) => Close(s) \in ToSet(w) \/ Close(s) \in ToSet(x)
  <2> DEFINE u == o \o x
             v == u \o z
  <2>1. ToSet(u) = ToSet(o) \cup ToSet(x) /\ u \in Seq(X)
    BY <1>9, SequenceFacts
  <2> HIDE DEF u
  <2>2. ToSet(v) = ToSet(u) \cup ToSet(z) /\ v \in Seq(X)
    BY <1>9, <2>1, SequenceFacts
  <2> HIDE DEF v
  <2>3. ToSet(w \o v) = ToSet(w) \cup ToSet(v)
    BY <1>9, <2>2, SequenceFacts
  <2> QED BY <1>10, <1>11, <2>1, <2>2, <2>3 DEF u, v
<1>16. ASSUME sending'[e] PROVE Backlog(e, s, b)'
  <2>1. ~ends /\ store'[e] = q.store
    BY <1>12, <1>16
  <2>2. Carries(AsData(outbox'[e]), s, n, n)
    <3>1. DOMAIN AsData(<<>>) = {}
      BY DEF AsData
    <3> QED BY <1>3, <1>12, <3>1, CarriesNone
  <2>3. n \in b..n /\ sent'[e][s] = n
    BY <1>3, <1>8, <1>12 DEF n
  <2>4. Queues(store'[e], s, b, n)
    BY <1>7, <2>1
  <2> QED BY <2>2, <2>3, <2>4 DEF Backlog
<1>17. d \in 0..n /\ b \in d..n
  BY <1>3, <1>4, <1>8
<1>18. Close(s) \in ToSet(wire'[e]) => b = n
  BY <1>3, <1>4, <1>7, <1>8, <1>12, <1>15
<1>19. sent'[e][s] = n
  BY <1>12 DEF n
<1>20. FlowAt(a, s, d, b)'
  BY <1>1, <1>4, <1>12, <1>13, <1>14, <1>16, <1>17, <1>18, <1>19 DEF FlowAt
<1> QED BY <1>1, <1>20, FlowParts DEF a

\* A turn of the receiver's send_mgr.
LEMMA FlowListens ==
  ASSUME Typed, Acquainted, NEW e \in End, sending[e], NEW pick \in Picks(e),
         NEW p, NEW q, NEW x, NEW z, NEW ends,
         Turning(e, pick, p, q, x, z, ends), Turned(e, pick, p, q, x, z, ends),
         NEW s \in Sid, Flow(e, s), Watched(e, s)'
  PROVE  Flow(e, s)'
<1> DEFINE a == Peer(e)
<1>1. a \in End /\ Peer(a) = e /\ a # e
  BY PeerFacts
<1>2. ServesSame(a) /\ wire'[a] = wire[a]
  BY <1>1, TurnKept
<1>3. sent' = sent /\ broken' = broken /\ streams'[e] = Streams(streams[e], pick)
      /\ delivered' = Delivered(e, Streams(streams[e], pick))
  BY DEF Turned, Typed, Shape
<1>4. SenderKept(a)
  BY <1>2, <1>3 DEF SenderKept, ServesSame
<1>5. delivered'[e][s] = delivered[e][s]
  <2>1. CASE s \in streams'[e]
    BY <1>3, <2>1, DeliveredFacts
  <2>2. CASE Open(s) \in ToSet(wire'[a])
    <3>1. s[1] # e
      <4>1. Life(s)
        BY DEF Acquainted
      <4> QED BY <1>1, <1>2, <2>2, <4>1 DEF Life
    <3>2. s[1] = a
      BY <3>1, SidFacts, PeerFacts
    <3>3. Announced(s)
      BY <1>2, <2>2, <3>2 DEF Announced
    <3>4. ~Knows(e, s)
      BY <1>1, <3>2, <3>3 DEF Acquainted, Life
    <3>5. delivered[e][s] = <<>>
      BY <3>4 DEF Knows
    <3>6. delivered'[e][s] = <<>>
      BY <1>3, <3>5, DeliveredFacts
    <3> QED BY <3>5, <3>6
  <2> QED BY <2>1, <2>2 DEF Watched
<1> QED BY <1>2, <1>4, <1>5, FlowSame

LEMMA FlowDeaf ==
  ASSUME Typed, NEW e \in End, NEW pick \in Picks(e), NEW p, NEW q, NEW x, NEW z, NEW ends,
         Turning(e, pick, p, q, x, z, ends), Turned(e, pick, p, q, x, z, ends),
         NEW s \in Sid, Flow(Peer(e), s), Deaf(e), receiving[Peer(e)]
  PROVE  Flow(Peer(e), s)'
<1>1. Peer(e) \in End /\ Peer(e) # e /\ Peer(Peer(e)) = e
  BY PeerFacts
<1>2. broken' /\ sent' = sent /\ wire'[e] = wire[e]
  BY DEF Deaf, Turned, Typed, Shape
<1>3. delivered'[Peer(e)] = delivered[Peer(e)]
  BY <1>1, TurnKept
<1>4. SenderKept(e)
  BY <1>2 DEF SenderKept
<1> QED BY <1>1, <1>2, <1>3, <1>4, FlowSame

LEMMA FlowTurn ==
  ASSUME Typed, Acquainted, Flows, NEW e \in End, NEW pick \in Picks(e), SendTurn(e, pick),
         NEW d \in End, NEW s \in Sid, Watched(d, s)'
  PROVE  Flow(d, s)'
<1>1. PICK p, q, x, z, ends : /\ Turning(e, pick, p, q, x, z, ends)
                              /\ Turned(e, pick, p, q, x, z, ends)
  BY TurnResult
<1>2. sending[e]
  BY DEF SendTurn
<1>3. Peer(e) \in End /\ Peer(Peer(e)) = e /\ Peer(e) # e /\ (d = e \/ d = Peer(e))
  BY PeerFacts
<1>4. receiving' = receiving /\ streams'[e] = Streams(streams[e], pick)
      /\ \A c \in End : c # e => streams'[c] = streams[c] /\ wire'[c] = wire[c]
  BY <1>1 DEF Turned, Typed, Shape
<1>5. streams'[e] = (streams[e] \cup Opening(pick)) \ Closing(pick)
  BY <1>4, StreamsFacts
<1>6. receiving[d]
  BY <1>4 DEF Watched
\* What a turn opens is new to both ends.
<1>7. s \in Opening(pick) => Unborn(s)
  BY <1>1, <1>2, TurnKnows
<1>8. s \notin Opening(pick) => Watched(d, s)
  <2> SUFFICES ASSUME s \notin Opening(pick), s \notin streams'[d], Open(s) \in ToSet(wire'[e]),
                      d = Peer(e)
               PROVE  Open(s) \in ToSet(wire[e])
    BY <1>3, <1>4, <1>5, <1>6 DEF Watched
  <2> DEFINE w == wire[e]
             new == wire'[e]
  <2>1. PICK b : Laid(w, x, pick, new, b)
    BY <1>1, TurnFrames
  <2>2. PICK i \in DOMAIN new : new[i] = Open(s)
    BY DEF ToSet
  <2>3. pick.type = "open" => Open(pick.sid) # Open(s)
    BY DEF Opening, Open, Event
  <2>4. \A j \in DOMAIN x : x[j].type \in {"Data", "Close"}
    BY <1>1 DEF Turning, Tells
  <2>5. Open(s).type = "Open"
    BY EventFacts
  <2> HIDE DEF w, new
  <2>6. i \in DOMAIN w /\ w[i] = Open(s)
    BY <2>1, <2>2, <2>3, <2>4, <2>5 DEF Laid
  <2> QED BY <2>6 DEF ToSet, w
<1>9. Flow(d, s)
  BY <1>7, <1>8, UnbornFlow DEF Flows
<1>10. CASE d = e
  BY <1>1, <1>2, <1>9, <1>10, FlowListens
<1>11. CASE d = Peer(e)
  <2>1. CASE ~Deaf(e)
    BY <1>1, <1>2, <1>9, <1>11, <2>1, FlowWrites
  <2>2. CASE Deaf(e)
    BY <1>1, <1>6, <1>9, <1>11, <2>2, FlowDeaf
  <2> QED BY <2>1, <2>2
<1> QED BY <1>3, <1>10, <1>11

\* Before its Open arrives, a stream is not served and has got nothing.
LEMMA Unheard ==
  ASSUME Typed, Acquainted, NEW e \in End, NEW s \in Sid, Open(s) \in ToSet(wire[Peer(e)])
  PROVE  delivered[e][s] = <<>> /\ s \notin streams[e]
<1>1. Peer(e) \in End /\ Peer(e) # e /\ Peer(Peer(e)) = e /\ (s[1] = e \/ s[1] = Peer(e))
  BY PeerFacts, SidFacts
<1>2. Life(s)
  BY DEF Acquainted
<1>3. s[1] # e
  BY <1>1, <1>2 DEF Life
<1>4. ~Knows(e, s)
  BY <1>1, <1>2, <1>3 DEF Life, Announced
<1> QED BY <1>4 DEF Knows

LEMMA WatchedFading ==
  ASSUME Typed, Typed', Fading, NEW e \in End, NEW s \in Sid, Watched(e, s)',
         receiving'[e] => receiving[e]
  PROVE  Watched(e, s)
<1>1. Peer(e) \in End
  BY PeerFacts
<1>2. Kept(e) /\ Kept(Peer(e))
  BY <1>1 DEF Fading
<1>3. Open(s) \in ToSet(wire'[Peer(e)]) => Open(s) \in ToSet(wire[Peer(e)])
  BY <1>1, <1>2, KeptFacts
<1>4. streams'[e] \subseteq streams[e]
  BY <1>2 DEF Kept
<1> QED BY <1>3, <1>4 DEF Watched

LEMMA FlowIdle ==
  ASSUME Typed, Typed', Flows, Idle, NEW e \in End, NEW s \in Sid, Watched(e, s)'
  PROVE  Flow(e, s)'
<1>1. Watched(e, s)
  BY FadingIdle, WatchedFading DEF Idle
<1>2. Flow(e, s) /\ SenderKept(Peer(e))
  BY <1>1 DEF Flows, SenderKept, Idle
<1> QED BY <1>2, FlowSame DEF Idle

LEMMA FlowSending ==
  ASSUME Typed, Typed', Acquainted, Flows, NEW d \in End, Send(d),
         NEW e \in End, NEW s \in Sid, Watched(e, s)'
  PROVE  Flow(e, s)'
<1>1. UNCHANGED <<wire, delivered, receiving, sending, store, broken>>
  BY DEF Send, recvVars, wireVars
<1>2. Watched(e, s)
  BY <1>1, FadingSend, WatchedFading
<1>3. Flow(e, s) /\ Over(Peer(e), s)
  BY <1>2, PeerFacts DEF Flows, Orderly
<1>4. CASE d = Peer(e)
  BY <1>3, <1>4, FlowSend
<1>5. CASE d # Peer(e)
  <2>1. sent'[Peer(e)] = sent[Peer(e)] /\ outbox'[Peer(e)] = outbox[Peer(e)]
    BY <1>5, PeerFacts DEF Send, Typed, Shape
  <2>2. SenderKept(Peer(e))
    BY <1>1, <2>1 DEF SenderKept
  <2> QED BY <1>1, <1>3, <2>2, FlowSame
<1> QED BY <1>4, <1>5

LEMMA FlowOpened ==
  ASSUME Typed, Acquainted, Flows, NEW d \in End, ReceiveOpen(d),
         NEW e \in End, NEW s \in Sid, Watched(e, s)'
  PROVE  Flow(e, s)'
<1> DEFINE r == Arrived(d).sid
           p == Peer(d)
<1>1. /\ r \in Sid /\ Arrived(d) = Open(r) /\ r[1] = p /\ Announced(r)
      /\ wire[p] # <<>> /\ wire' = [wire EXCEPT ![p] = Tail(@)]
      /\ streams' = [streams EXCEPT ![d] = @ \cup {r}]
      /\ UNCHANGED <<sent, outbox, sending, store, delivered, receiving, broken>>
  BY OpenFacts
<1>2. p \in End /\ p # d /\ Peer(p) = d /\ (e = d \/ e = p)
  BY PeerFacts
<1>3. /\ wire'[p] = Tail(wire[p]) /\ \A c \in End : c # p => wire'[c] = wire[c]
      /\ streams'[d] = streams[d] \cup {r} /\ \A c \in End : c # d => streams'[c] = streams[c]
  BY <1>1, <1>2 DEF Typed, Shape
<1>4. ToSet(wire[p]) = {Arrived(d)} \cup ToSet(Tail(wire[p]))
  BY <1>1, ArrivedFacts
<1>5. SenderKept(Peer(e))
  BY <1>1 DEF SenderKept
<1> HIDE DEF p
<1>6. CASE e = d
  <2>1. Watched(e, s)
    BY <1>1, <1>3, <1>4, <1>6 DEF Watched, Announced, p
  <2>2. ~ IsData(Arrived(e), s)
    BY <1>1, <1>6, EventFacts DEF IsData
  <2> QED BY <1>1, <1>3, <1>5, <1>6, <2>1, <2>2, FlowTail DEF Flows, p
<1>7. CASE e = p
  <2>1. Watched(e, s)
    BY <1>1, <1>2, <1>3, <1>7 DEF Watched
  <2> QED BY <1>1, <1>2, <1>3, <1>5, <1>7, <2>1, FlowSame DEF Flows
<1> QED BY <1>2, <1>6, <1>7

\* Another frame of the stream, or of another stream.
LEMMA FlowClosed ==
  ASSUME Typed, Typed', Acquainted, Flows, NEW d \in End, ReceiveClose(d),
         NEW e \in End, NEW s \in Sid, Watched(e, s)'
  PROVE  Flow(e, s)'
<1> DEFINE f == Arrived(d)
           p == Peer(d)
<1>1. /\ f.type = "Close" /\ wire[p] # <<>> /\ wire' = [wire EXCEPT ![p] = Tail(@)]
      /\ streams' = [streams EXCEPT ![d] = @ \ {f.sid}]
      /\ delivered' = Delivered(d, streams[d] \ {f.sid})
      /\ UNCHANGED <<sent, outbox, sending, store, receiving, broken>>
  BY DEF ReceiveClose, Consume, appVars, sendVars
<1>2. p \in End /\ p # d /\ Peer(p) = d /\ (e = d \/ e = p)
  BY PeerFacts
<1>3. /\ wire'[p] = Tail(wire[p]) /\ \A c \in End : c # p => wire'[c] = wire[c]
      /\ streams'[d] = streams[d] \ {f.sid}
  BY <1>1, <1>2 DEF Typed, Shape
<1>4. SenderKept(Peer(e)) /\ Watched(e, s)
  BY <1>1, FadingClose, WatchedFading DEF SenderKept
<1>5. Flow(e, s)
  BY <1>4 DEF Flows
<1> HIDE DEF p
<1>6. CASE e = d
  <2>1. ~ IsData(Arrived(e), s)
    BY <1>1, <1>6 DEF IsData
  <2>2. delivered'[e][s] = delivered[e][s]
    <3>1. CASE s \in streams'[e]
      BY <1>1, <1>3, <1>6, <3>1, DeliveredFacts
    <3>2. CASE Open(s) \in ToSet(wire'[Peer(e)])
      <4>1. ToSet(wire[p]) = {f} \cup ToSet(Tail(wire[p]))
        BY <1>1, ArrivedFacts DEF p
      <4>2. delivered[e][s] = <<>>
        BY <1>3, <1>6, <3>2, <4>1, Unheard DEF p
      <4>3. delivered'[e][s] \in {delivered[e][s], <<>>}
        BY <1>1, <1>6, DeliveredFacts
      <4> QED BY <4>2, <4>3
    <3> QED BY <3>1, <3>2 DEF Watched
  <2> QED BY <1>1, <1>3, <1>4, <1>5, <1>6, <2>1, <2>2, FlowTail DEF p
<1>7. CASE e = p
  <2>1. delivered'[e] = delivered[e]
    BY <1>1, <1>2, <1>7, DeliveredFacts
  <2> QED BY <1>2, <1>3, <1>4, <1>5, <1>7, <2>1, FlowSame
<1> QED BY <1>2, <1>6, <1>7

LEMMA FlowReceived ==
  ASSUME Typed, Typed', Acquainted, Flows, NEW d \in End, ReceiveData(d),
         NEW e \in End, NEW s \in Sid, Watched(e, s)'
  PROVE  Flow(e, s)'
<1> DEFINE f == Arrived(d)
           p == Peer(d)
<1>1. /\ f.type = "Data" /\ wire[p] # <<>> /\ wire' = [wire EXCEPT ![p] = Tail(@)]
      /\ delivered' = IF f.sid \in streams[d]
                        THEN [delivered EXCEPT ![d][f.sid] = Append(@, f.n)] ELSE delivered
      /\ UNCHANGED <<streams, sent, outbox, sending, store, receiving, broken>>
  BY DEF ReceiveData, Consume, appVars, sendVars, bothVars
<1>2. p \in End /\ p # d /\ Peer(p) = d /\ (e = d \/ e = p)
  BY PeerFacts
<1>3. wire'[p] = Tail(wire[p]) /\ \A c \in End : c # p => wire'[c] = wire[c]
  BY <1>1, <1>2 DEF Typed, Shape
<1>4. SenderKept(Peer(e)) /\ Watched(e, s)
  BY <1>1, FadingData, WatchedFading DEF SenderKept
<1>5. Flow(e, s)
  BY <1>4 DEF Flows
<1>6. /\ \A c \in End : c # d => delivered'[c] = delivered[c]
      /\ \A c \in Sid : c # f.sid => delivered'[d][c] = delivered[d][c]
      /\ f.sid \in streams[d] => delivered'[d][f.sid] = Append(delivered[d][f.sid], f.n)
  <2>1. f.sid \in Sid
    BY <1>1, <1>2, ArrivedFacts, FrameFacts
  <2>2. delivered[d] \in [Sid -> Seq(1..MaxSent[Peer(d)])]
        /\ delivered = [c \in End |-> delivered[c]]
    BY DEF Typed, Shape, Bounded
  <2> HIDE DEF f, p
  <2> QED BY <1>1, <2>1, <2>2
<1> HIDE DEF p
<1>7. CASE e = d
  <2>1. CASE IsData(f, s)
    <3>1. s = f.sid
      BY <2>1 DEF IsData
    <3>2. Open(s) \notin ToSet(wire'[Peer(e)])
      BY <1>1, <1>3, <1>7, <3>1, OpenedOnce DEF p
    <3>3. s \in streams[d]
      BY <1>1, <1>7, <3>2 DEF Watched
    <3> QED BY <1>1, <1>3, <1>4, <1>5, <1>6, <1>7, <2>1, <3>1, <3>3, FlowTail DEF p
  <2>2. CASE ~ IsData(f, s)
    <3>1. s # f.sid
      BY <1>1, <2>2 DEF IsData
    <3> QED BY <1>1, <1>3, <1>4, <1>5, <1>6, <1>7, <2>2, <3>1, FlowTail DEF p
  <2> QED BY <2>1, <2>2
<1>8. CASE e = p
  BY <1>2, <1>3, <1>4, <1>5, <1>6, <1>8, FlowSame
<1> QED BY <1>2, <1>7, <1>8

LEMMA FlowStopped ==
  ASSUME Typed, Typed', Flows, NEW d \in End, ReceiveEnd(d) \/ ForcedEnd(d),
         NEW e \in End, NEW s \in Sid, Watched(e, s)'
  PROVE  Flow(e, s)'
<1>1. /\ receiving' = [receiving EXCEPT ![d] = FALSE]
      /\ wire' = [wire EXCEPT ![Peer(d)] = <<>>] /\ delivered' = Delivered(d, {})
      /\ UNCHANGED <<sent, outbox, sending, store, broken>>
  BY StopFacts
<1>2. e # d /\ receiving[e]
  BY <1>1 DEF Watched, Typed, Shape
<1>3. Peer(e) \in End /\ Peer(e) # Peer(d)
  BY <1>2, PeerFacts
<1>4. wire'[Peer(e)] = wire[Peer(e)] /\ delivered'[e] = delivered[e] /\ SenderKept(Peer(e))
  <2>1. wire'[Peer(e)] = wire[Peer(e)]
    BY <1>1, <1>3 DEF Typed, Shape
  <2>2. delivered'[e] = delivered[e]
    BY <1>1, <1>2, DeliveredFacts
  <2> QED BY <1>1, <2>1, <2>2 DEF SenderKept
<1>5. Watched(e, s)
  BY <1>2, FadingStop, WatchedFading
<1> QED BY <1>4, <1>5, FlowSame DEF Flows

LEMMA FlowPanic ==
  ASSUME Typed, Typed', Flows, NEW d \in End, NEW why, Panic(d, why),
         NEW e \in End, NEW s \in Sid, Watched(e, s)'
  PROVE  Flow(e, s)'
<1>1. /\ receiving' = [receiving EXCEPT ![d] = FALSE]
      /\ sending' = [sending EXCEPT ![d] = FALSE]
      /\ wire' = [wire EXCEPT ![d] = IF Deaf(d) \/ ~sending[d] THEN @ ELSE Append(@, Eof),
                              ![Peer(d)] = <<>>]
      /\ UNCHANGED <<sent, delivered>>
  BY DEF Panic
<1>2. e # d /\ receiving[e]
  BY <1>1 DEF Watched, Typed, Shape
<1>3. Peer(e) = d /\ Peer(d) # d /\ Peer(d) \in End
  BY <1>2, PeerFacts
<1>4. wire'[d] = wire[d] \/ wire'[d] = Append(wire[d], Eof)
  BY <1>1, <1>3 DEF Typed, Shape
<1>5. SenderKept(d)
  BY <1>1 DEF SenderKept, Typed, Shape
<1>6. Watched(e, s)
  BY <1>2, FadingPanic, WatchedFading
<1>7. Flow(e, s) /\ delivered'[e][s] = delivered[e][s]
  BY <1>1, <1>6 DEF Flows
<1>8. CASE wire'[d] = wire[d]
  BY <1>3, <1>5, <1>7, <1>8, FlowSame
<1>9. CASE wire'[d] = Append(wire[d], Eof)
  BY <1>3, <1>5, <1>7, <1>9, FlowEof
<1> QED BY <1>4, <1>8, <1>9

LEMMA FlowLost ==
  ASSUME Typed, Typed', Flows, Break, NEW e \in End, NEW s \in Sid, Watched(e, s)'
  PROVE  Flow(e, s)'
<1>1. receiving' = receiving
  BY BreakFacts
<1>2. Watched(e, s)
  BY <1>1, FadingBreak, WatchedFading
<1>3. Flow(e, s) /\ Over(Peer(e), s) /\ receiving[e]
  BY <1>2, PeerFacts DEF Flows, Orderly, Watched
<1> QED BY <1>3, FlowBreak

-----------------------------------------------------------------------------
(* The invariant *)

StreamsInv == Typed /\ Acquainted /\ Flows

LEMMA StreamsInit == Init => StreamsInv
<1> SUFFICES ASSUME Init PROVE Flows
  BY TypedInit, AcquaintedInit DEF StreamsInv
<1>1. \A p \in End : wire[p] = <<>> /\ streams[p] = {}
  BY DEF Init
<1>2. DOMAIN <<>> = {} /\ ToSet(<<>>) = {}
  BY DEF ToSet
<1>3. Orderly
  BY <1>1, <1>2 DEF Orderly, Over
<1>4. \A e \in End, s \in Sid : ~Watched(e, s)
  BY <1>1, <1>2, PeerFacts DEF Watched
<1> QED BY <1>3, <1>4 DEF Flows

LEMMA FlowsNext ==
  ASSUME Typed, Typed', Acquainted, Acquainted', Flows, [Next]_vars
  PROVE  Flows'
<1>1. Orderly'
  BY AcquaintedNext DEF Flows
<1>2. ASSUME NEW e \in End, NEW s \in Sid, Watched(e, s)' PROVE Flow(e, s)'
  <2>1. CASE UNCHANGED vars
    BY <1>2, <2>1, FlowIdle, IdleActions
  <2>2. ASSUME NEW d \in End,
               \/ \E r \in Sid : Check(d, r)
               \/ \E how \in {"leaving", "dropped"} : Leave(d, how)
               \/ CloseChannel(d) \/ Timeout(d) \/ Finish(d)
        PROVE  Flow(e, s)'
    BY <1>2, <2>2, FlowIdle, IdleActions
  <2>3. ASSUME NEW d \in End, Send(d) PROVE Flow(e, s)'
    BY <1>2, <2>3, FlowSending
  <2>4. ASSUME NEW d \in End, NEW pick \in Picks(d), SendTurn(d, pick) PROVE Flow(e, s)'
    BY <1>2, <2>4, FlowTurn
  <2>5. ASSUME NEW d \in End, ReceiveOpen(d) PROVE Flow(e, s)'
    BY <1>2, <2>5, FlowOpened
  <2>6. ASSUME NEW d \in End, ReceivePanic(d) PROVE Flow(e, s)'
    BY <1>2, <2>6, FlowPanic DEF ReceivePanic
  <2>7. ASSUME NEW d \in End, ReceiveClose(d) PROVE Flow(e, s)'
    BY <1>2, <2>7, FlowClosed
  <2>8. ASSUME NEW d \in End, ReceiveData(d) PROVE Flow(e, s)'
    BY <1>2, <2>8, FlowReceived
  <2>9. ASSUME NEW d \in End, ReceiveEnd(d) \/ ForcedEnd(d) PROVE Flow(e, s)'
    BY <1>2, <2>9, FlowStopped
  <2>10. CASE Break
    BY <1>2, <2>10, FlowLost
  <2> QED
    BY <2>1, <2>2, <2>3, <2>4, <2>5, <2>6, <2>7, <2>8, <2>9, <2>10 DEF Next, Receive
<1> QED BY <1>1, <1>2 DEF Flows

LEMMA StreamsNext == StreamsInv /\ [Next]_vars => StreamsInv'
<1> SUFFICES ASSUME StreamsInv, [Next]_vars PROVE StreamsInv'
  OBVIOUS
<1>1. Typed'
  BY TypedNext DEF StreamsInv
<1>2. Acquainted'
  BY <1>1, AcquaintedNext DEF StreamsInv
<1>3. Flows'
  BY <1>1, <1>2, FlowsNext DEF StreamsInv
<1> QED BY <1>1, <1>2, <1>3 DEF StreamsInv

LEMMA StreamsInvariance == Spec => []StreamsInv
BY StreamsInit, StreamsNext, PTL DEF Spec

-----------------------------------------------------------------------------
(* What follows from it *)

LEMMA TypedSound == Typed => TypeOK
<1> SUFFICES ASSUME Typed PROVE TypeOK
  OBVIOUS
<1>1. ASSUME NEW e \in End
      PROVE  /\ sent[e] \in [Sid -> 0..MaxSent[e]]
             /\ opens[e] \in 0..MaxOpen[e]
             /\ outbox[e] \in Seq(Sid \X (1..MaxSent[e]))
             /\ closing[e] \in Seq(Sid)
             /\ notify[e] \in Seq([type : {"Open", "Close"}, sid : Sid])
             /\ \A s \in Sid : delivered[e][s] \in Seq(1..MaxSent[Peer(e)])
  <2>1. opens[e] \in Nat /\ opens[e] <= MaxOpen[e] /\ MaxOpen[e] \in Nat
    BY ConstantFacts DEF Typed, Shape, Bounded
  <2>2. opens[e] \in 0..MaxOpen[e]
    BY <2>1
  <2>3. delivered[e] \in [Sid -> Seq(1..MaxSent[Peer(e)])]
    BY DEF Typed, Bounded
  <2>4. /\ closing[e] \in Seq(Sid)
        /\ notify[e] \in Seq([type : {"Open", "Close"}, sid : Sid])
    BY DEF Typed, Shape
  <2>5. sent[e] \in [Sid -> 0..MaxSent[e]] /\ outbox[e] \in Seq(Sid \X (1..MaxSent[e]))
    BY DEF Typed, Bounded
  <2> QED BY <2>2, <2>3, <2>4, <2>5
<1>2. ASSUME NEW e \in End
      PROVE  /\ DOMAIN store[e] \subseteq Sid
             /\ \A s \in DOMAIN store[e] :
                  store[e][s].taken \in 0..FrameCount * Len(store[e][s].messages)
  <2> DEFINE st == store[e]
  <2>1. st \in Stores(e)
    BY StoreSets DEF Typed, Bounded
  <2> HIDE DEF st
  <2>2. /\ DOMAIN st \subseteq Sid
        /\ \A s \in DOMAIN st :
             /\ st[s].taken \in Nat /\ Len(st[s].messages) \in Nat
             /\ st[s].taken <= FrameCount * Len(st[s].messages)
    BY <2>1, StoreFacts
  <2>3. ASSUME NEW s \in DOMAIN st PROVE st[s].taken \in 0..FrameCount * Len(st[s].messages)
    <3> DEFINE k == st[s].taken
               l == Len(st[s].messages)
    <3>1. k \in Nat /\ l \in Nat /\ k <= FrameCount * l /\ FrameCount \in Nat
      BY <2>2, ConstantFacts
    <3> HIDE DEF k, l
    <3>2. FrameCount * l \in Int
      BY <3>1
    <3>3. k \in 0..FrameCount * l
      BY <3>1, <3>2
    <3> QED BY <3>3 DEF k, l
  <2> QED BY <2>2, <2>3 DEF st
<1>3. ASSUME NEW e \in End, NEW f \in ToSet(wire[e])
      PROVE  f.type \in {"Open", "Data", "Close", "Shutdown", "Eof"}
  <2> DEFINE X == Frame(e)
             w == wire[e]
  <2>1. w \in Seq(X) /\ f \in ToSet(w)
    BY <1>3 DEF Typed, Bounded
  <2> HIDE DEF X, w
  <2>2. f \in X
    BY <2>1, SequenceFacts
  <2> QED BY <2>2, FrameFacts DEF X
<1> QED BY <1>1, <1>2, <1>3 DEF TypeOK, Typed, Shape

\* When a close arrives, none of the stream's messages is on the wire, in a
\* queue or in the channel any more.
LEMMA FlowsComplete == Typed /\ Flows => ClosedComplete
<1> SUFFICES ASSUME Typed, Flows, NEW e \in End, receiving[e], wire[Peer(e)] # <<>>,
                    Arrived(e).type = "Close", Arrived(e).sid \in streams[e]
             PROVE  delivered[e][Arrived(e).sid] =
                      [n \in 1..sent[Peer(e)][Arrived(e).sid] |-> n]
  BY DEF ClosedComplete
<1> DEFINE s == Arrived(e).sid
           p == Peer(e)
           w == wire[p]
<1>1. p \in End /\ s \in Sid /\ Arrived(e) = Close(s) /\ Close(s) \in ToSet(w)
  BY ArrivedFacts, FrameFacts, PeerFacts
<1>2. Flow(e, s) /\ Over(p, s)
  BY <1>1 DEF Flows, Orderly, Watched
<1>3. PICK d, t : FlowAt(e, s, d, t)
  BY <1>1, <1>2, FlowParts
<1>4. sent[p][s] \in Nat /\ w \in Seq(Frame(p))
  BY <1>1, FlowTyped
<1> HIDE DEF s
<1>5. /\ d \in Nat /\ t \in Nat /\ d <= t /\ t = sent[p][s]
      /\ delivered[e][s] = [n \in 1..d |-> n] /\ Carries(w, s, d, t)
  BY <1>1, <1>3, <1>4 DEF FlowAt
<1>6. 1 \in DOMAIN w /\ w[1] = Close(s) /\ DOMAIN w \subseteq Nat \ {0}
  <2> DEFINE X == Frame(p)
  <2>1. w \in Seq(X) /\ w # <<>> /\ Head(w) = Close(s)
    BY <1>1, <1>4 DEF Arrived
  <2> HIDE DEF X, w
  <2> QED BY <2>1
<1>7. \A i \in DOMAIN w : ~ IsData(w[i], s)
  <2>1. \A i \in DOMAIN w : IsData(w[i], s) => i < 1
    BY <1>2, <1>6 DEF Over
  <2> HIDE DEF w
  <2> QED BY <1>6, <2>1
<1>8. ~ (d < t)
  <2> SUFFICES ASSUME d < t PROVE FALSE
    OBVIOUS
  <2>1. d + 1 \in (d + 1)..t
    BY <1>5
  <2> QED BY <1>5, <1>7, <2>1 DEF Carries
<1>9. d = sent[p][s]
  BY <1>5, <1>8
<1> QED BY <1>5, <1>9 DEF s

\* Whatever the two applications and the network do, every part of the two
\* participants holds what belongs there: queues, closing_streams and channels
\* hold ids of streams that were opened, what prio.rs has taken of a queue is at
\* most what it holds, and frames are of the five kinds.
THEOREM TypeCorrect == Spec => []TypeOK
<1>1. StreamsInv => TypeOK
  BY TypedSound DEF StreamsInv
<1> QED BY <1>1, StreamsInvariance, PTL

\* PrioManager::add finds the stream of every message it is given: send_mgr has
\* heard of a stream before the application can send on it, from its own open or
\* from recv_mgr, and takes all messages before it lets the stream go.
THEOREM NeverUnknown == Spec => []NoPanic
<1>1. StreamsInv => NoPanic
  BY DEF StreamsInv, Acquainted
<1> QED BY <1>1, StreamsInvariance, PTL

\* However prio.rs shares the bandwidth between the streams, however long their
\* queues, and wherever the connection breaks: when recv_mgr finds CloseStream,
\* the stream has been handed every message sent on it, in order.
THEOREM CloseComesLast == Spec => []ClosedComplete
<1>1. StreamsInv => ClosedComplete
  BY FlowsComplete DEF StreamsInv
<1> QED BY <1>1, StreamsInvariance, PTL
=============================================================================
