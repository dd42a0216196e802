---------------------------- MODULE PrioManager ------------------------------
(***************************************************************************)
(* The queue of outgoing messages of a connection                          *)
(* (network/protocol/src/prio.rs, message.rs) as operators on a store: a   *)
(* function from the open streams to their messages. Each message goes out *)
(* as a header and frames of data. Bandwidth is a number of frames that    *)
(* the rates and the time since the last flush leave open.                 *)
(***************************************************************************)
EXTENDS Naturals, Sequences, SequencesExt, Functions

CONSTANTS
  FrameCount,   \* frames of a message: its header and at least one of data
  PrioOf        \* the priority of a stream

ASSUME FrameAssumption == FrameCount \in Nat \ {0, 1}

\* taken counts the frames of the first messages that have been grabbed. A
\* message all of whose frames are gone stays until it is asked for another.
Empty == [messages |-> <<>>, taken |-> 0]

open_stream(store, sid) ==
  [s \in DOMAIN store \cup {sid} |-> IF s = sid THEN Empty ELSE store[s]]

CanClose(store, sid) == sid \in DOMAIN store /\ store[sid] = Empty

try_close_stream(store, sid) ==
  IF CanClose(store, sid) THEN Restrict(store, DOMAIN store \ {sid}) ELSE store

add(store, sid, n) == [store EXCEPT ![sid].messages = Append(@, n)]

Left(si) == Len(si.messages) * FrameCount - si.taken

\* What the next k frames of a stream complete. The frames before the last one of
\* a message only fill it up on the other side and go no further if the
\* connection ends, so they are not on the wire.
Completed(sid, si, k) ==
  LET gone == si.taken \div FrameCount
  IN  [j \in 1..((si.taken + k) \div FrameCount - gone) |->
         [type |-> "Data", sid |-> sid, n |-> si.messages[gone + j]]]

\* Mutant: the frames of drained messages stay counted.
AfterKeepTaken(si, share) ==
  LET at   == si.taken + share.k
      done == (at - 1) \div FrameCount
  IN  IF share.all
        THEN Empty
        ELSE [messages |-> SubSeq(si.messages, done + 1, Len(si.messages)), taken |-> at]

\* What process_stream leaves: finished messages are drained, but not the one
\* whose last frame used up the bandwidth.
After(si, share) ==
  LET at   == si.taken + share.k
      done == (at - 1) \div FrameCount
  IN  IF share.all
        THEN Empty
        ELSE [messages |-> SubSeq(si.messages, done + 1, Len(si.messages)),
              taken    |-> at - done * FrameCount]

\* A share of the bandwidth: k frames, and all if some bandwidth is left over.
\* Even a stream whose share is nothing sends one frame.
SomeShare(si) ==
  {[k |-> k, all |-> FALSE] : k \in 1..Left(si)} \cup {[k |-> Left(si), all |-> TRUE]}

\* The share of flush(u64::MAX, 1 s): everything, unless the stream is alone
\* with its priority. Then `as i64` turns its part of u64::MAX negative, and
\* one frame is all that follows those of the guaranteed bandwidth.
LastShare(store, sid) ==
  LET si    == store[sid]
      alone == \A s \in DOMAIN store \ {sid} : PrioOf[s] # PrioOf[sid]
  IN  {[k |-> Left(si), all |-> TRUE]}
        \cup {[k |-> k, all |-> FALSE] : k \in IF alone THEN 2..Left(si) ELSE {}}

\* All stores and sequences of frames grab may return. The streams are in no
\* particular order.
grab(store, last) ==
  LET busy        == {s \in DOMAIN store : store[s] # Empty}
      Shares(sid) == IF last THEN LastShare(store, sid) ELSE SomeShare(store[sid])
      Plans       == {p \in [busy -> UNION {Shares(s) : s \in busy}] :
                        \A s \in busy : p[s] \in Shares(s)}
  IN  {[store  |-> [s \in DOMAIN store |->
                      IF s \in busy THEN After(store[s], p[s]) ELSE store[s]],
        frames |-> FlattenSeq([i \in DOMAIN order |->
                      Completed(order[i], store[order[i]], p[order[i]].k)])]
       : p \in Plans, order \in SetToSeqs(busy)}
=============================================================================
