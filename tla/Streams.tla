------------------------------ MODULE Streams --------------------------------
(***************************************************************************)
(* Two participants of the network library and the streams they open over  *)
(* one TCP connection (network/src/participant.rs, network/src/api.rs,     *)
(* network/protocol/src/tcp.rs). In each participant send_mgr and recv_mgr *)
(* take turns; what the application does is interleaved with both.         *)
(***************************************************************************)
EXTENDS Integers, FiniteSets, PrioManager

CONSTANTS
  End,        \* the two participants
  Steady,     \* those that keep running; the other may freeze at any moment
  MaxOpen,    \* streams each participant opens
  MaxSent,    \* messages each participant sends on a stream
  MayBreak,   \* whether the connection may break
  Window,     \* frames the connection takes in while nobody reads them
  NoSid

Sid == UNION {{e} \X (1..MaxOpen[e]) : e \in End}

ASSUME EndAssumption == /\ IsFiniteSet(End) /\ Cardinality(End) = 2
                        /\ Steady \subseteq End
                        /\ MaxOpen \in [End -> Nat]
                        /\ MaxSent \in [End -> Nat]
                        /\ MayBreak \in BOOLEAN
                        /\ Window \in Nat
                        /\ NoSid \notin Sid

Peer(e) == CHOOSE d \in End : d # e

VARIABLES
  \* the application
  participant,   \* its Participant: held, being disconnected, dropped
  held,          \* its Streams, until send_mgr ends and they cannot send
  checked,       \* the Stream whose send_closed its send has just read
  sent,          \* messages it has sent on a stream
  \* BParticipant
  streams,       \* BParticipant.streams
  closed,        \* those of held whose send_closed is set
  opens,         \* streams opened so far, the next stream id
  outbox,        \* the channel a2b_msg
  notify,        \* the channel b2b_notify_send_of_recv
  delivered,     \* messages handed to a Stream, until it is forgotten
  sending,       \* send_mgr has not ended
  receiving,     \* recv_mgr has not ended
  close_send,    \* a message in b2b_close_send_protocol
  shutdown,      \* where participant_shutdown_mgr is
  panicked,
  \* TcpSendProtocol and the connection
  store,         \* the PrioManager
  closing,       \* closing_streams
  wire,          \* frames on their way from an end to the other
  broken

appVars  == <<participant, held, checked, sent>>
sendVars == <<opens, outbox, sending, store, closing>>
recvVars == <<delivered, receiving>>
bothVars == <<streams, closed, notify, close_send, panicked>>
wireVars == <<wire, broken>>
vars     == <<appVars, sendVars, recvVars, bothVars, shutdown, wireVars>>

Event(type, sid) == [type |-> type, sid |-> sid]
Shutdown == Event("Shutdown", NoSid)
Eof      == Event("Eof", NoSid)

TypeOK ==
  /\ participant \in [End -> {"held", "leaving", "dropped"}]
  /\ held \in [End -> SUBSET Sid]
  /\ checked \in [End -> Sid \cup {NoSid}]
  /\ \A e \in End : sent[e] \in [Sid -> 0..MaxSent[e]]
  /\ streams \in [End -> SUBSET Sid]
  /\ closed \in [End -> SUBSET Sid]
  /\ \A e \in End : /\ opens[e] \in 0..MaxOpen[e]
                    /\ outbox[e] \in Seq(Sid \X (1..MaxSent[e]))
                    /\ closing[e] \in Seq(Sid)
                    /\ notify[e] \in Seq([type : {"Open", "Close"}, sid : Sid])
                    /\ \A s \in Sid : delivered[e][s] \in Seq(1..MaxSent[Peer(e)])
                    /\ DOMAIN store[e] \subseteq Sid
                    /\ \A s \in DOMAIN store[e] :
                         store[e][s].taken \in
                           0..FrameCount * Len(store[e][s].messages)
  /\ sending \in [End -> BOOLEAN] /\ receiving \in [End -> BOOLEAN]
  /\ close_send \in [End -> BOOLEAN]
  /\ shutdown \in [End -> {"idle", "asked", "waiting", "forced", "done"}]
  /\ panicked \in [End -> {"no", "unknown stream", "nobody to open"}]
  /\ \A e \in End : \A f \in ToSet(wire[e]) :
       f.type \in {"Open", "Data", "Close", "Shutdown", "Eof"}
  /\ broken \in BOOLEAN

\* The channel exists and both managers have their half of it.
Init ==
  /\ participant = [e \in End |-> "held"]
  /\ held = [e \in End |-> {}]
  /\ checked = [e \in End |-> NoSid]
  /\ sent = [e \in End |-> [s \in Sid |-> 0]]
  /\ streams = [e \in End |-> {}]
  /\ closed = [e \in End |-> {}]
  /\ opens = [e \in End |-> 0]
  /\ outbox = [e \in End |-> <<>>]
  /\ notify = [e \in End |-> <<>>]
  /\ delivered = [e \in End |-> [s \in Sid |-> <<>>]]
  /\ sending = [e \in End |-> TRUE]
  /\ receiving = [e \in End |-> TRUE]
  /\ close_send = [e \in End |-> FALSE]
  /\ shutdown = [e \in End |-> "idle"]
  /\ panicked = [e \in End |-> "no"]
  /\ store = [e \in End |-> <<>>]
  /\ closing = [e \in End |-> <<>>]
  /\ wire = [e \in End |-> <<>>]
  /\ broken = FALSE

-----------------------------------------------------------------------------
(* The application *)

\* Stream::send_raw, up to the look at send_closed.
Check(e, s) ==
  /\ s \in held[e] \ closed[e]
  /\ checked[e] = NoSid /\ sent[e][s] < MaxSent[e]
  /\ checked' = [checked EXCEPT ![e] = s]
  /\ UNCHANGED <<participant, held, sent, sendVars, recvVars, bothVars,
                 shutdown, wireVars>>

\* The rest of it. Once send_mgr has ended and dropped its receiver, both fail.
Send(e) ==
  LET s == checked[e]
      n == sent[e][s] + 1
  IN  /\ s # NoSid
      /\ checked' = [checked EXCEPT ![e] = NoSid]
      /\ sent' = [sent EXCEPT ![e][s] = n]
      /\ outbox' = [outbox EXCEPT ![e] = Append(@, <<s, n>>)]
      /\ UNCHANGED <<participant, held, opens, sending, store, closing,
                     recvVars, bothVars, shutdown, wireVars>>

\* Participant::disconnect, which keeps the Participant until it is over, and
\* the drop of a Participant, which does not. That makes a difference only if
\* the other side opens streams.
Leave(e, how) ==
  /\ participant[e] = "held"
  /\ how = "dropped" => MaxOpen[Peer(e)] > 0
  /\ participant' = [participant EXCEPT ![e] = how]
  /\ shutdown' = [shutdown EXCEPT ![e] = "asked"]
  /\ UNCHANGED <<held, checked, sent, sendVars, recvVars, bothVars, wireVars>>

-----------------------------------------------------------------------------
(* TcpSendProtocol: store, closing_streams and what it has written in a turn *)

\* Mutant: a stream is closed while messages of it are queued.
SendCloseAtOnce(p, s) == [p EXCEPT !.out = Append(@, Event("Close", s))]

\* CloseStream is held back until the stream's messages are gone.
SendClose(p, s) ==
  IF CanClose(p.store, s)
    THEN [p EXCEPT !.store = try_close_stream(@, s), !.out = Append(@, Event("Close", s))]
    ELSE [p EXCEPT !.closing = Append(@, s)]

SendOpen(p, s) ==
  [p EXCEPT !.store = open_stream(@, s), !.out = Append(@, Event("Open", s))]

SendMessages(p, messages) ==
  [p EXCEPT !.store = FoldLeft(LAMBDA st, m : add(st, m[1], m[2]), @, messages)]

\* Held back, and never sent, while streams are open.
SendShutdown(p) ==
  IF p.store = <<>> THEN [p EXCEPT !.out = Append(@, Shutdown)] ELSE p

\* The members of a set in a sequence, in their order.
Those(seq, set) ==
  FoldLeft(LAMBDA found, x : IF x \in set THEN Append(found, x) ELSE found, <<>>, seq)

flush(p, last) ==
  {LET ready == {s \in ToSet(p.closing) : CanClose(g.store, s)}
       now   == Those(p.closing, ready)
   IN  [store   |-> Restrict(g.store, DOMAIN g.store \ ready),
        closing |-> Those(p.closing, ToSet(p.closing) \ ready),
        out     |-> p.out \o g.frames \o [i \in DOMAIN now |-> Event("Close", now[i])]]
   : g \in grab(p.store, last)}

-----------------------------------------------------------------------------
(* send_mgr *)

\* Nobody reads what e writes any more: it vanishes or fails.
Deaf(e) == broken \/ ~receiving[Peer(e)]

\* flush has written what it was given. While the connection has taken in all it
\* can, the frames after that are still to be written, and send_mgr waits.
Flushed(e) == Deaf(e) \/ Len(wire[e]) <= Window

\* Writing does not block: there is room, or an error says that nobody reads.
\* Half of a connection whose other half is in use takes in frames and gives none.
Heard(e) ==
  broken \/ (IF receiving[Peer(e)] THEN Len(wire[e]) <= Window ELSE ~sending[Peer(e)])

\* Mutant: what recv_mgr tells of closed streams is heeded as well.
NotifiedAll(p, events) ==
  [p EXCEPT !.store = FoldLeft(LAMBDA st, ev :
     IF ev.type = "Open" THEN open_stream(st, ev.sid) ELSE try_close_stream(st, ev.sid),
     @, events)]

\* What recv_mgr tells of opened streams. Closed ones are collected for later,
\* in an iterator nobody asks for its items.
Notified(p, events) ==
  [p EXCEPT !.store = FoldLeft(LAMBDA st, ev :
     IF ev.type = "Open" THEN open_stream(st, ev.sid) ELSE st, @, events)]

\* What select! may find: a request of the application to open or to close a
\* stream, its tick, or a request to close the channel. A Stream sends its
\* request when it is dropped, which may be long before.
Picks(e) ==
  {Event("tick", NoSid)}
    \cup (IF participant[e] = "held" /\ opens[e] < MaxOpen[e]
           THEN {Event("open", <<e, opens[e] + 1>>)} ELSE {})
    \cup {Event("close", s) : s \in held[e] \ {checked[e]}}
    \cup (IF close_send[e] THEN {Event("remove", NoSid)} ELSE {})

\* A turn of the loop up to the messages.
Prepared(e, pick) ==
  LET p == [store |-> store[e], closing |-> closing[e], out |-> <<>>]
  IN  Notified(IF pick.type = "open" THEN SendOpen(p, pick.sid) ELSE p, notify[e])

\* PrioManager::add unwraps the stream of a message.
UnknownStream(e, pick) ==
  \E m \in ToSet(outbox[e]) : m[1] \notin DOMAIN Prepared(e, pick).store

\* The rest of the turn, flush included. A channel that is to be closed is then
\* flushed again, told and dropped.
Turn(e, pick) ==
  LET p     == SendMessages(Prepared(e, pick), outbox[e])
      after == flush(IF pick.type = "close" THEN SendClose(p, pick.sid) ELSE p, FALSE)
  IN  IF pick.type = "remove"
        THEN {SendShutdown(q) : q \in UNION {flush(a, TRUE) : a \in after}}
        ELSE after

\* The task of e dies. Its half of the connection is closed.
Panic(e, why) ==
  /\ panicked' = [panicked EXCEPT ![e] = why]
  /\ sending' = [sending EXCEPT ![e] = FALSE]
  /\ receiving' = [receiving EXCEPT ![e] = FALSE]
  /\ streams' = [streams EXCEPT ![e] = {}]
  /\ wire' = [wire EXCEPT ![e] = IF Deaf(e) \/ ~sending[e] THEN @ ELSE Append(@, Eof),
                          ![Peer(e)] = <<>>]
  /\ held' = [held EXCEPT ![e] = {}]
  /\ closed' = [closed EXCEPT ![e] = {}]
  /\ checked' = [checked EXCEPT ![e] = NoSid]
  /\ close_send' = [close_send EXCEPT ![e] = FALSE]
  /\ UNCHANGED <<participant, sent, opens, outbox, notify, delivered, shutdown, store,
                 closing, broken>>

\* Streams as create_stream and delete_stream of a turn leave them.
Streams(set, pick) ==
  CASE pick.type = "open"  -> set \cup {pick.sid}
    [] pick.type = "close" -> set \ {pick.sid}
    [] OTHER               -> set

\* What has been delivered on the streams that are left.
Delivered(e, left) ==
  [delivered EXCEPT ![e] = [s \in Sid |-> IF s \in left THEN @[s] ELSE <<>>]]

\* It is the last turn after a request to close the channel, or if writing
\* fails; then all that waited for send_mgr is dropped.
EndTurn(e, pick) ==
  /\ \E p \in Turn(e, pick),
        ends \in {pick.type = "remove"} \cup (IF Deaf(e) THEN {TRUE} ELSE {}) :
       /\ store' = [store EXCEPT ![e] = IF ends THEN <<>> ELSE p.store]
       /\ closing' = [closing EXCEPT ![e] = IF ends THEN <<>> ELSE p.closing]
       /\ wire' = [wire EXCEPT ![e] =
                     IF Deaf(e) THEN @ ELSE @ \o p.out \o (IF ends THEN <<Eof>> ELSE <<>>)]
       /\ sending' = [sending EXCEPT ![e] = ~ends]
       /\ close_send' = [close_send EXCEPT ![e] = @ /\ ~ends]
       /\ held' = [held EXCEPT ![e] = IF ends THEN {} ELSE Streams(@, pick)]
       /\ closed' = [closed EXCEPT ![e] = IF ends THEN {} ELSE @ \ {pick.sid}]
       /\ checked' = [checked EXCEPT ![e] = IF ends THEN NoSid ELSE @]
  /\ notify' = [notify EXCEPT ![e] = <<>>]
  /\ outbox' = [outbox EXCEPT ![e] = <<>>]
  /\ opens' = [opens EXCEPT ![e] = IF pick.type = "open" THEN @ + 1 ELSE @]
  /\ streams' = [streams EXCEPT ![e] = Streams(@, pick)]
  /\ delivered' = Delivered(e, Streams(streams[e], pick))
  /\ UNCHANGED <<participant, sent, receiving, panicked, shutdown, broken>>

\* One turn of the loop.
SendTurn(e, pick) ==
  /\ sending[e] /\ Flushed(e)
  /\ IF UnknownStream(e, pick) THEN Panic(e, "unknown stream") ELSE EndTurn(e, pick)

-----------------------------------------------------------------------------
(* recv_mgr *)

Arrived(e) == Head(wire[Peer(e)])

\* An event is put aside for send_mgr, if that has not ended.
Notify(e, event) ==
  notify' = [notify EXCEPT ![e] = IF sending[e] THEN Append(@, event) ELSE @]

Consume(e) ==
  /\ receiving[e] /\ wire[Peer(e)] # <<>>
  /\ wire' = [wire EXCEPT ![Peer(e)] = Tail(@)]

\* A stream of the other side becomes a Stream the application may ask for.
ReceiveOpen(e) ==
  /\ Consume(e) /\ Arrived(e).type = "Open"
  /\ participant[e] # "dropped"
  /\ Notify(e, Arrived(e))
  /\ streams' = [streams EXCEPT ![e] = @ \cup {Arrived(e).sid}]
  /\ held' = IF participant[e] = "held" /\ sending[e]
               THEN [held EXCEPT ![e] = @ \cup {Arrived(e).sid}] ELSE held
  /\ UNCHANGED <<participant, checked, sent, sendVars, recvVars, closed,
                 close_send, panicked, shutdown, broken>>

\* b2a_stream_opened_s.send(stream).unwrap() without its receiver.
ReceivePanic(e) ==
  /\ receiving[e] /\ wire[Peer(e)] # <<>>
  /\ Arrived(e).type = "Open" /\ participant[e] = "dropped"
  /\ Panic(e, "nobody to open")

\* delete_stream.
ReceiveClose(e) ==
  /\ Consume(e) /\ Arrived(e).type = "Close"
  /\ Notify(e, Arrived(e))
  /\ streams' = [streams EXCEPT ![e] = @ \ {Arrived(e).sid}]
  /\ delivered' = Delivered(e, streams[e] \ {Arrived(e).sid})
  /\ closed' = [closed EXCEPT ![e] = @ \cup ({Arrived(e).sid} \cap held[e])]
  /\ UNCHANGED <<appVars, sendVars, receiving, close_send, panicked, shutdown, broken>>

\* The last frame of a message.
ReceiveData(e) ==
  LET f == Arrived(e)
  IN  /\ Consume(e) /\ f.type = "Data"
      /\ delivered' = IF f.sid \in streams[e]
                        THEN [delivered EXCEPT ![e][f.sid] = Append(@, f.n)]
                        ELSE delivered
      /\ UNCHANGED <<appVars, sendVars, receiving, bothVars, shutdown, broken>>

\* recv_mgr ends: all streams are closed.
StopReceiving(e) ==
  /\ receiving' = [receiving EXCEPT ![e] = FALSE]
  /\ closed' = [closed EXCEPT ![e] = @ \cup (streams[e] \cap held[e])]
  /\ streams' = [streams EXCEPT ![e] = {}]
  /\ wire' = [wire EXCEPT ![Peer(e)] = <<>>]
  /\ delivered' = Delivered(e, {})
  /\ UNCHANGED <<appVars, sendVars, notify, panicked, shutdown, broken>>

\* Shutdown, or an error: send_mgr has to close the channel too.
ReceiveEnd(e) ==
  /\ receiving[e] /\ wire[Peer(e)] # <<>>
  /\ Arrived(e).type \in {"Shutdown", "Eof"}
  /\ close_send' = [close_send EXCEPT ![e] = sending[e]]
  /\ StopReceiving(e)

ForcedEnd(e) ==
  /\ receiving[e] /\ shutdown[e] = "forced"
  /\ StopReceiving(e)
  /\ UNCHANGED close_send

Receive(e) ==
  ReceiveOpen(e) \/ ReceivePanic(e) \/ ReceiveClose(e) \/ ReceiveData(e) \/ ReceiveEnd(e)

-----------------------------------------------------------------------------
(* participant_shutdown_mgr *)

Alive(e) == panicked[e] = "no"

CloseChannel(e) ==
  /\ Alive(e) /\ shutdown[e] = "asked"
  /\ shutdown' = [shutdown EXCEPT ![e] = "waiting"]
  /\ closed' = [closed EXCEPT ![e] = @ \cup (streams[e] \cap held[e])]
  /\ close_send' = [close_send EXCEPT ![e] = sending[e]]
  /\ UNCHANGED <<appVars, sendVars, recvVars, streams, notify, panicked, wireVars>>

\* Mutant: only a send_mgr that has not ended is timed out.
TimeoutOfSend(e) ==
  /\ Alive(e) /\ shutdown[e] = "waiting" /\ sending[e]
  /\ shutdown' = [shutdown EXCEPT ![e] = "forced"]
  /\ UNCHANGED <<appVars, sendVars, recvVars, bothVars, wireVars>>

\* The managers take too long: recv_mgr is asked to stop.
Timeout(e) ==
  /\ Alive(e) /\ shutdown[e] = "waiting" /\ (sending[e] \/ receiving[e])
  /\ shutdown' = [shutdown EXCEPT ![e] = "forced"]
  /\ UNCHANGED <<appVars, sendVars, recvVars, bothVars, wireVars>>

\* wait_for_manager sees the barrier at zero, and BParticipant is dropped.
Finish(e) ==
  /\ Alive(e) /\ shutdown[e] \in {"waiting", "forced"}
  /\ ~sending[e] /\ Flushed(e) /\ ~receiving[e]
  /\ shutdown' = [shutdown EXCEPT ![e] = "done"]
  /\ streams' = [streams EXCEPT ![e] = {}]
  /\ UNCHANGED <<appVars, sendVars, recvVars, closed, notify, close_send, panicked,
                 wireVars>>

\* The connection fails: what has not arrived may be lost, the end of what is on
\* its way certainly.
Break ==
  /\ MayBreak /\ ~broken
  /\ broken' = TRUE
  /\ \E k \in [End -> 0..Max({Len(wire[e]) : e \in End})] :
       /\ \A e \in End : /\ k[e] <= Len(wire[e]) /\ k[e] <= Window
                         /\ Eof \notin ToSet(SubSeq(wire[e], 1, k[e]))
       /\ wire' = [e \in End |->
                     IF receiving[Peer(e)] THEN Append(SubSeq(wire[e], 1, k[e]), Eof)
                     ELSE <<>>]
  /\ UNCHANGED <<appVars, sendVars, recvVars, bothVars, shutdown>>

Next ==
  \/ \E e \in End :
       \/ Send(e)
       \/ \E s \in Sid : Check(e, s)
       \/ \E how \in {"leaving", "dropped"} : Leave(e, how)
       \/ \E pick \in Picks(e) : SendTurn(e, pick)
       \/ Receive(e) \/ ForcedEnd(e)
       \/ CloseChannel(e) \/ Timeout(e) \/ Finish(e)
  \/ Break

Spec == Init /\ [][Next]_vars

\* The tasks of a steady participant go on: recv_mgr gets what arrives or is
\* stopped, timers run out, and send_mgr comes round to the request to close the
\* channel, unless it never gets out of flush: no timer ends that.
StopSending(e) ==
  /\ sending[e] /\ close_send[e]
  /\ sending' = [sending EXCEPT ![e] = FALSE]

Fairness ==
  \A e \in Steady :
    /\ WF_sending(Heard(e) /\ StopSending(e))
    /\ WF_vars(Receive(e) \/ ForcedEnd(e))
    /\ WF_vars(CloseChannel(e) \/ Timeout(e) \/ (Heard(e) /\ Finish(e)))

FairSpec == Spec /\ Fairness

-----------------------------------------------------------------------------
(* Properties *)

\* PrioManager::add finds the stream of every message: send_mgr hears of a
\* stream before it gets messages for it, and forgets it after the last one.
NoPanic == \A e \in End : panicked[e] # "unknown stream"

\* CloseStream comes last: a stream that is closed by the other side has got
\* every message sent on it, in order and whole.
ClosedComplete ==
  \A e \in End : receiving[e] /\ wire[Peer(e)] # <<>> =>
    LET f == Arrived(e)
    IN  f.type = "Close" /\ f.sid \in streams[e] =>
          delivered[e][f.sid] = [n \in 1..sent[Peer(e)][f.sid] |-> n]

\* As long as there is room for what it writes, the disconnection of a participant
\* comes to its end, though the other side may be frozen; and one whose peer is
\* gone stops both of its managers by itself. Without room neither is so: a
\* frozen peer whose window is full holds flush up for good, and the time-out
\* stops recv_mgr only.
Ends ==
  \A e \in Steady :
    []<>Heard(e) =>
      /\ participant[e] = "leaving" ~> shutdown[e] = "done"
      /\ (broken \/ ~sending[Peer(e)]) ~>
           (~sending[e] /\ Flushed(e) /\ ~receiving[e])
=============================================================================
