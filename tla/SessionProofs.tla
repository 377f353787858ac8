--------------------------- MODULE SessionProofs ---------------------------
(***************************************************************************)
(* Proofs about Session, for any number of connections, calls, copies and  *)
(* damaged frames, any clip lengths and any depth of the ring.             *)
(***************************************************************************)
EXTENDS Session, SequenceTheorems, TLAPS

Ends == [st : PhoneStates, sess : SessStates, op : Calls]
Results == [op : Calls, out : Outcomes, ids : Seq(Nat)]
Clips == [id : Nat, len : Nat]

(* A frame, a call, a result and an event made of the right parts have     *)
(* their types.                                                            *)
LEMMA FrameType ==
  ASSUME NEW ty \in PcBound \cup PhoneBound \cup Broken,
         NEW arg \in Nat, NEW len \in Nat, NEW ids \in Seq(Nat)
  PROVE  Frame(ty, arg, len, ids) \in Frames
BY DEF Frame, Frames

(* A call made now has its type. *)
LEMMA CallType ==
  ASSUME TypeOK, NEW kind \in {"beam", "list", "item"}, NEW arg \in Nat
  PROVE  Call(kind, arg) \in Calls
BY DEF TypeOK, Call, Calls

(* The absence of a call is of the same type. *)
LEMMA NoCallType == NoCall \in Calls
BY DEF NoCall, Calls

(* What a task announces has the type of an event. *)
LEMMA EventType ==
  ASSUME NEW ev \in {"PeerConnected", "PeerDisconnected", "ClipArrived"},
         NEW c \in Conns, NEW n \in Nat
  PROVE  Event(ev, c, n) \in Events
BY DEF Event, Events

(* What the first frame of a stream to either side is. *)
LEMMA HeadOfStream ==
  ASSUME TypeOK, NEW c \in Conns
  PROVE  /\ toPc[c] # <<>> => Head(toPc[c]) \in Frames /\ Tail(toPc[c]) \in Seq(Frames)
         /\ toPhone[c] # <<>> => /\ Head(toPhone[c]) \in Frames
                                 /\ Head(toPhone[c]) = toPhone[c][1]
                                 /\ Tail(toPhone[c]) \in Seq(Frames)
BY DEF TypeOK

(* push keeps the ring within its depth. *)
LEMMA PushType ==
  ASSUME NEW r \in Seq(Clips), Len(r) <= RingDepth, NEW x \in Clips
  PROVE  PushInto(r, x) \in Seq(Clips) /\ Len(PushInto(r, x)) <= RingDepth
<1>1. RingDepth \in Nat /\ RingDepth > 0
  BY StageAssumption DEF RingDepth
<1>2. CASE Oversize(x)
  BY <1>2 DEF PushInto
<1>3. CASE ~Oversize(x) /\ Len(r) = RingDepth
  <2>1. r # <<>> /\ Tail(r) \in Seq(Clips) /\ Len(Tail(r)) = Len(r) - 1
    BY <1>1, <1>3
  <2>2. PushInto(r, x) = Append(Tail(r), x)
    BY <1>3 DEF PushInto
  <2> QED
    BY <1>1, <1>3, <2>1, <2>2
<1>4. CASE ~Oversize(x) /\ Len(r) # RingDepth
  <2>1. PushInto(r, x) = Append(r, x)
    BY <1>4 DEF PushInto
  <2> QED
    BY <1>1, <1>4, <2>1
<1> QED
  BY <1>2, <1>3, <1>4

(* A reply to a stage request is a frame for the phone, and no ACK. *)
LEMMA StageReplyType ==
  ASSUME TypeOK, NEW f \in Frames
  PROVE  StageReply(f) \in Frames /\ StageReply(f).ty # "ClipAck"
<1>1. IdsOf(ListOf(ring)) \in Seq(Nat) /\ f.arg \in Nat /\ <<>> \in Seq(Nat)
  <2> ring \in Seq(Clips)
    BY DEF TypeOK, Clips
  <2>1. Len(ring) \in Nat /\ \A i \in 1..Len(ring) : ring[i] \in Clips
    OBVIOUS
  <2>2. ListOf(ring) \in [1..Len(ring) -> Clips]
    BY <2>1 DEF ListOf
  <2>3. ListOf(ring) \in Seq(Clips)
    BY <2>1, <2>2
  <2>4. Len(ListOf(ring)) \in Nat /\ \A i \in 1..Len(ListOf(ring)) : ListOf(ring)[i] \in Clips
    BY <2>3
  <2>5. IdsOf(ListOf(ring)) \in [1..Len(ListOf(ring)) -> Nat]
    BY <2>4 DEF IdsOf, Clips
  <2>6. IdsOf(ListOf(ring)) \in Seq(Nat)
    BY <2>4, <2>5
  <2> QED
    BY <2>6 DEF Frames
<1>2. CASE f.ty = "StageListReq"
  BY <1>1, <1>2 DEF StageReply, Frame, Frames, PcBound, PhoneBound, Broken
<1>3. CASE f.ty # "StageListReq" /\ Holds(ring, f.arg)
  BY <1>1, <1>3 DEF StageReply, Frame, Frames, PcBound, PhoneBound, Broken
<1>4. CASE f.ty # "StageListReq" /\ ~Holds(ring, f.arg)
  BY <1>1, <1>4 DEF StageReply, Frame, Frames, PcBound, PhoneBound, Broken
<1> QED
  BY <1>2, <1>3, <1>4

(* The type invariant with its sets named. *)
LEMMA Typed ==
  TypeOK <=>
    /\ phone \in [Conns -> Ends]
    /\ done \in [Conns -> Seq(Results)]
    /\ task \in [Conns -> TaskStates]
    /\ toPc \in [Conns -> Seq(Frames)]
    /\ toPhone \in [Conns -> Seq(Frames)]
    /\ paused \in BOOLEAN
    /\ turn \in [Conns -> BOOLEAN] /\ sessPaused \in [Conns -> BOOLEAN]
    /\ ring \in Seq(Clips) /\ Len(ring) <= RingDepth
    /\ copies \in Nat
    /\ events \in Seq(Events)
    /\ faults \in Nat
BY DEF TypeOK, Ends, Results, Clips

(* The end of a connection has the type Ends when its parts do. *)
LEMMA EndType ==
  ASSUME TypeOK, NEW c \in Conns
  PROVE  /\ phone[c] \in Ends
         /\ phone[c].st \in PhoneStates /\ phone[c].sess \in SessStates /\ phone[c].op \in Calls
BY Typed DEF Ends

-----------------------------------------------------------------------------
(* The invariant: an ACK on its way to the phone names a clip the PC has   *)
(* handed on.  The list of events is a parameter so that the events after  *)
(* a step can be spoken of.                                                *)

ArrivedIn(evs, c, n) == \E i \in 1..Len(evs) : evs[i] = Event("ClipArrived", c, n)

AcksArrived ==
  \A c \in Conns : \A i \in 1..Len(toPhone[c]) :
    toPhone[c][i].ty = "ClipAck" => ArrivedIn(events, c, toPhone[c][i].arg)

IInv == TypeOK /\ AcksArrived /\ BeamAcked

(* What every step does to the events: nothing, or it adds one. *)
EventsGrow == events' = events \/ \E e \in Events : events' = Append(events, e)

(* BeamAcked in terms of ArrivedIn. *)
LEMMA BeamAckedAlt ==
  BeamAcked <=>
    \A c \in Conns : \A i \in 1..Len(done[c]) :
      done[c][i].op.kind = "beam" /\ done[c][i].out = "Ok"
        => ArrivedIn(events, c, done[c][i].op.arg)
BY DEF BeamAcked, Arrived, ArrivedIn

(* What has arrived has arrived for good. *)
LEMMA ArrivedStays ==
  ASSUME TypeOK, EventsGrow, NEW c, NEW n, ArrivedIn(events, c, n)
  PROVE  ArrivedIn(events', c, n)
<1>0. events \in Seq(Events)
  BY Typed
<1>1. PICK i \in 1..Len(events) : events[i] = Event("ClipArrived", c, n)
  BY DEF ArrivedIn
<1>2. CASE events' = events
  BY <1>1, <1>2 DEF ArrivedIn
<1>3. CASE \E e \in Events : events' = Append(events, e)
  <2>1. PICK e \in Events : events' = Append(events, e)
    BY <1>3
  <2>2. i \in 1..Len(events') /\ events'[i] = events[i]
    BY <1>0, <2>1
  <2> QED
    BY <1>1, <2>2 DEF ArrivedIn
<1> QED
  BY <1>2, <1>3 DEF EventsGrow

(* The ways a step changes the streams to the phone. *)
LEMMA AcksSame ==
  ASSUME IInv, EventsGrow, toPhone' = toPhone
  PROVE  AcksArrived'
BY ArrivedStays DEF IInv, AcksArrived

(* The phone reads a frame: the others stay under way. *)
LEMMA AcksTail ==
  ASSUME IInv, EventsGrow, NEW c \in Conns, toPhone[c] # <<>>,
         toPhone' = [toPhone EXCEPT ![c] = Tail(@)]
  PROVE  AcksArrived'
<1> SUFFICES ASSUME NEW d \in Conns, NEW i \in 1..Len(toPhone'[d]),
                    toPhone'[d][i].ty = "ClipAck"
             PROVE  ArrivedIn(events', d, toPhone'[d][i].arg)
  BY DEF AcksArrived
<1>1. toPhone[d] \in Seq(Frames) /\ toPhone \in [Conns -> Seq(Frames)]
  BY Typed DEF IInv
<1>2. \E j \in 1..Len(toPhone[d]) : toPhone'[d][i] = toPhone[d][j]
  <2>1. CASE d = c
    <3>1. toPhone'[d] = Tail(toPhone[d]) /\ toPhone[d] # <<>>
      BY <1>1, <2>1
    <3>2. i + 1 \in 1..Len(toPhone[d]) /\ toPhone'[d][i] = toPhone[d][i + 1]
      BY <1>1, <3>1
    <3> QED
      BY <3>2
  <2>2. CASE d # c
    BY <1>1, <2>2
  <2> QED
    BY <2>1, <2>2
<1> QED
  BY <1>2, ArrivedStays DEF IInv, AcksArrived

(* The PC writes a frame: an ACK only for a clip that has arrived. *)
LEMMA AcksAppend ==
  ASSUME IInv, EventsGrow, NEW c \in Conns, NEW f \in Frames,
         f.ty = "ClipAck" => ArrivedIn(events', c, f.arg),
         toPhone' = [toPhone EXCEPT ![c] = Append(@, f)]
  PROVE  AcksArrived'
<1> SUFFICES ASSUME NEW d \in Conns, NEW i \in 1..Len(toPhone'[d]),
                    toPhone'[d][i].ty = "ClipAck"
             PROVE  ArrivedIn(events', d, toPhone'[d][i].arg)
  BY DEF AcksArrived
<1>1. toPhone[d] \in Seq(Frames) /\ toPhone \in [Conns -> Seq(Frames)]
  BY Typed DEF IInv
<1>2. CASE d = c /\ i = Len(toPhone[c]) + 1
  BY <1>1, <1>2
<1>3. CASE ~(d = c /\ i = Len(toPhone[c]) + 1)
  <2>1. i \in 1..Len(toPhone[d]) /\ toPhone'[d][i] = toPhone[d][i]
    BY <1>1, <1>3
  <2> QED
    BY <2>1, ArrivedStays DEF IInv, AcksArrived
<1> QED
  BY <1>2, <1>3

(* The ways a step changes the calls that have returned. *)
LEMMA DoneSame ==
  ASSUME IInv, EventsGrow, done' = done
  PROVE  BeamAcked'
<1> SUFFICES ASSUME NEW d \in Conns, NEW i \in 1..Len(done'[d]),
                    done'[d][i].op.kind = "beam" /\ done'[d][i].out = "Ok"
             PROVE  ArrivedIn(events', d, done'[d][i].op.arg)
  BY DEF BeamAcked, Arrived, ArrivedIn
<1> QED
  BY BeamAckedAlt, ArrivedStays DEF IInv

(* A call returns: beam with Ok only for a clip that has arrived. *)
LEMMA DoneReturned ==
  ASSUME IInv, EventsGrow, NEW c \in Conns, NEW op \in Calls, NEW out \in Outcomes,
         NEW ids \in Seq(Nat), Returned(c, op, out, ids),
         op.kind = "beam" /\ out = "Ok" => ArrivedIn(events', c, op.arg)
  PROVE  done' \in [Conns -> Seq(Results)] /\ BeamAcked'
<1> DEFINE r == [op |-> op, out |-> out, ids |-> ids]
<1>0. r \in Results /\ r.op = op /\ r.out = out
  BY DEF Results
<1>1. done' = [done EXCEPT ![c] = Append(@, r)]
  BY DEF Returned
<1> HIDE DEF r
<1>2. done \in [Conns -> Seq(Results)]
  BY Typed DEF IInv
<1>3. done' \in [Conns -> Seq(Results)]
  BY <1>0, <1>1, <1>2
<1>4. BeamAcked'
  <2> SUFFICES ASSUME NEW d \in Conns, NEW i \in 1..Len(done'[d]),
                      done'[d][i].op.kind = "beam" /\ done'[d][i].out = "Ok"
               PROVE  ArrivedIn(events', d, done'[d][i].op.arg)
    BY DEF BeamAcked, Arrived, ArrivedIn
  <2>1. done[d] \in Seq(Results)
    BY <1>2
  <2>2. CASE d = c /\ i = Len(done[c]) + 1
    <3>1. done'[d][i] = r
      BY <1>0, <1>1, <1>2, <2>1, <2>2
    <3> QED
      BY <1>0, <2>2, <3>1
  <2>3. CASE ~(d = c /\ i = Len(done[c]) + 1)
    <3>1. i \in 1..Len(done[d]) /\ done'[d][i] = done[d][i]
      BY <1>0, <1>1, <1>2, <2>1, <2>3
    <3> QED
      BY <3>1, BeamAckedAlt, ArrivedStays DEF IInv
  <2> QED
    BY <2>2, <2>3
<1> QED
  BY <1>3, <1>4

-----------------------------------------------------------------------------
(* The phone's steps keep the invariant. *)

(* Steps that only change the phone's own end, or open the streams. *)
LEMMA PhoneOpenKeeps ==
  ASSUME IInv, NEW c \in Conns, PhoneOpen(c)
  PROVE  IInv'
<1>0. TypeOK
  BY DEF IInv
<1>1. Frame("Hello", 0, 0, <<>>) \in Frames /\ Frame("Hello", 1, 0, <<>>) \in Frames
  BY DEF Frame, Frames, PcBound
<1>2. toPc' \in [Conns -> Seq(Frames)]
  BY <1>0, <1>1, Typed DEF PhoneOpen
<1>3. task' \in [Conns -> TaskStates]
  BY <1>0, Typed DEF PhoneOpen, TaskStates
<1>4. phone' \in [Conns -> Ends]
  <2>1. phone' = [phone EXCEPT ![c].st = "opening"]
    BY DEF PhoneOpen
  <2> QED
    BY <1>0, <2>1, EndType, Typed DEF Ends, PhoneStates
<1>5. TypeOK'
  BY <1>0, <1>2, <1>3, <1>4 DEF TypeOK, PhoneOpen, Ends, agentVars
<1>6. AcksArrived' /\ BeamAcked'
  BY AcksSame, DoneSame DEF PhoneOpen, EventsGrow
<1> QED
  BY <1>5, <1>6 DEF IInv

(* The phone reads the HELLO_ACK. *)
LEMMA PhoneHelloAckKeeps ==
  ASSUME IInv, NEW c \in Conns, PhoneHelloAck(c)
  PROVE  IInv'
<1>0. TypeOK
  BY DEF IInv
<1>1. toPhone' \in [Conns -> Seq(Frames)]
  BY <1>0, HeadOfStream, Typed DEF PhoneHelloAck
<1>2. phone' \in [Conns -> Ends]
  BY <1>0, EndType, Typed DEF PhoneHelloAck, Ends, PhoneStates, SessStates
<1>3. TypeOK'
  BY <1>0, <1>1, <1>2 DEF TypeOK, PhoneHelloAck, Ends, agentVars
<1>4. AcksArrived' /\ BeamAcked'
  BY AcksTail, DoneSame DEF PhoneHelloAck, EventsGrow
<1> QED
  BY <1>3, <1>4 DEF IInv

(* Connection::open returns an error. *)
LEMMA PhoneOpenFailsKeeps ==
  ASSUME IInv, NEW c \in Conns, PhoneOpenFails(c)
  PROVE  IInv'
<1>0. TypeOK
  BY DEF IInv
<1>1. phone' \in [Conns -> Ends]
  BY <1>0, EndType, Typed DEF PhoneOpenFails, Ends, PhoneStates
<1>2. TypeOK'
  BY <1>0, <1>1 DEF TypeOK, PhoneOpenFails, Ends, pcVars, agentVars
<1>3. AcksArrived' /\ BeamAcked'
  BY AcksSame, DoneSame DEF PhoneOpenFails, EventsGrow, pcVars
<1> QED
  BY <1>2, <1>3 DEF IInv

(* The Connection is dropped. *)
LEMMA PhoneDropKeeps ==
  ASSUME IInv, NEW c \in Conns, PhoneDrop(c)
  PROVE  IInv'
<1>0. TypeOK
  BY DEF IInv
<1>1. phone' \in [Conns -> Ends]
  BY <1>0, EndType, NoCallType, Typed DEF PhoneDrop, Ends, PhoneStates
<1>2. TypeOK'
  BY <1>0, <1>1 DEF TypeOK, PhoneDrop, Ends, pcVars, agentVars
<1>3. AcksArrived' /\ BeamAcked'
  BY AcksSame, DoneSame DEF PhoneDrop, EventsGrow, pcVars
<1> QED
  BY <1>2, <1>3 DEF IInv

(* A request is written, or its call returns with an error. *)
LEMMA RequestKeeps ==
  ASSUME IInv, NEW c \in Conns, NEW op \in Calls, NEW f \in Frames,
         PhoneRequest(c, op, f),
         UNCHANGED faults, UNCHANGED pcVars, UNCHANGED agentVars
  PROVE  IInv'
<1>0. TypeOK
  BY DEF IInv
<1>1. EventsGrow /\ toPhone' = toPhone
  BY DEF EventsGrow, pcVars
<1>2. CASE /\ toPc' = [toPc EXCEPT ![c] = Append(@, f)]
           /\ phone' = [phone EXCEPT ![c].st = "waiting", ![c].op = op]
           /\ UNCHANGED done
  <2>1. toPc' \in [Conns -> Seq(Frames)]
    BY <1>0, <1>2, Typed
  <2>2. phone' \in [Conns -> Ends]
    BY <1>0, <1>2, EndType, Typed DEF Ends, PhoneStates
  <2>3. TypeOK'
    BY <1>0, <1>2, <2>1, <2>2 DEF TypeOK, Ends, pcVars, agentVars
  <2> QED
    BY <1>1, <1>2, <2>3, AcksSame, DoneSame DEF IInv
<1>3. CASE /\ Returned(c, op, "Protocol", <<>>)
           /\ phone' = [phone EXCEPT ![c].st = "closed"]
           /\ UNCHANGED toPc
  <2>1. "Protocol" \in Outcomes /\ <<>> \in Seq(Nat)
    BY DEF Outcomes
  <2>2. done' \in [Conns -> Seq(Results)] /\ BeamAcked'
    BY <1>1, <1>3, <2>1, DoneReturned
  <2>3. phone' \in [Conns -> Ends]
    BY <1>0, <1>3, EndType, Typed DEF Ends, PhoneStates
  <2>4. TypeOK'
    BY <1>0, <1>3, <2>2, <2>3 DEF TypeOK, Ends, Results, pcVars, agentVars
  <2> QED
    BY <1>1, <2>2, <2>4, AcksSame DEF IInv
<1> QED
  BY <1>2, <1>3 DEF PhoneRequest

(* beam refuses an oversize clip, or writes its CLIP_PUSH. *)
LEMMA PhoneBeamKeeps ==
  ASSUME IInv, NEW c \in Conns, NEW n \in Lens, PhoneBeam(c, n)
  PROVE  IInv'
<1> DEFINE op == Call("beam", Len(done[c]) + 1)
<1> DEFINE f == Frame("ClipPush", op.arg, n, <<>>)
<1>0. TypeOK
  BY DEF IInv
<1>1. op \in Calls /\ op.arg \in Nat
  <2>1. done[c] \in Seq(Results)
    BY <1>0, Typed
  <2>2. Len(done[c]) + 1 \in Nat
    BY <2>1
  <2>3. op \in Calls
    BY <1>0, <2>2, CallType
  <2> QED
    BY <2>3 DEF Calls
<1>2. f \in Frames
  BY <1>1, SessionAssumption DEF Frame, Frames, PcBound
<1>3. CASE n <= MaxLen
  <2>1. PhoneRequest(c, op, f)
    BY <1>3, SessionAssumption, StageAssumption DEF PhoneBeam
  <2> QED
    BY <1>1, <1>2, <2>1, RequestKeeps DEF PhoneBeam
<1>4. CASE n > MaxLen
  <2>1. Returned(c, op, "TooLarge", <<>>) /\ UNCHANGED <<phone, toPc>>
    BY <1>4, SessionAssumption, StageAssumption DEF PhoneBeam
  <2>2. EventsGrow /\ toPhone' = toPhone
    BY DEF PhoneBeam, EventsGrow, pcVars
  <2>3. "TooLarge" \in Outcomes /\ <<>> \in Seq(Nat)
    BY DEF Outcomes
  <2>4. done' \in [Conns -> Seq(Results)] /\ BeamAcked'
    BY <1>1, <2>1, <2>2, <2>3, DoneReturned
  <2>5. TypeOK'
    BY <1>0, <2>1, <2>4 DEF TypeOK, PhoneBeam, Results, pcVars, agentVars
  <2> QED
    BY <2>2, <2>4, <2>5, AcksSame DEF IInv
<1> QED
  BY <1>3, <1>4, SessionAssumption, StageAssumption

(* stage_list and stage_item write their requests. *)
LEMMA PhoneStageKeeps ==
  ASSUME IInv, NEW c \in Conns,
         PhoneStageList(c) \/ \E id \in 1..copies : PhoneStageItem(c, id)
  PROVE  IInv'
<1>0. TypeOK
  BY DEF IInv
<1>1. CASE PhoneStageList(c)
  <2>1. Call("list", 0) \in Calls /\ Frame("StageListReq", 0, 0, <<>>) \in Frames
    BY <1>0, CallType DEF Frame, Frames, PcBound
  <2> QED
    BY <1>1, <2>1, RequestKeeps DEF PhoneStageList
<1>2. ASSUME NEW id \in 1..copies, PhoneStageItem(c, id)
      PROVE  IInv'
  <2>1. id \in Nat
    BY <1>0, <1>2 DEF TypeOK
  <2>2. Call("item", id) \in Calls /\ Frame("StageGet", id, 0, <<>>) \in Frames
    BY <1>0, <2>1, CallType DEF Frame, Frames, PcBound
  <2> QED
    BY <1>2, <2>2, RequestKeeps DEF PhoneStageItem
<1> QED
  BY <1>1, <1>2

(* The reply loops: which outcomes there are, and that beam returns Ok     *)
(* only on the ACK of its own clip.                                        *)
LEMMA OnReplyResult ==
  ASSUME NEW op \in Calls, NEW sess \in SessStates, NEW f \in Frames
  PROVE  /\ OnReply(op, sess, f) \in Outcomes \cup {"Wait"}
         /\ op.kind = "beam" /\ OnReply(op, sess, f) = "Ok"
              => f.ty = "ClipAck" /\ f.arg = op.arg
BY DEF OnReply, Outcomes, Calls, Frames, PcBound, PhoneBound, Broken

(* A call reads a frame; the ACK it returns on was under way. *)
LEMMA PhoneReceiveKeeps ==
  ASSUME IInv, NEW c \in Conns, PhoneReceive(c)
  PROVE  IInv'
<1> DEFINE f == Head(toPhone[c])
<1> DEFINE op == phone[c].op
<1> DEFINE out == OnReply(op, phone[c].sess, f)
<1>0. TypeOK
  BY DEF IInv
<1>1. toPhone[c] # <<>> /\ toPhone' = [toPhone EXCEPT ![c] = Tail(@)]
  BY DEF PhoneReceive
<1>2. EventsGrow /\ events' = events
  BY DEF PhoneReceive, EventsGrow
<1>3. AcksArrived'
  BY <1>1, <1>2, AcksTail
<1>4. toPhone' \in [Conns -> Seq(Frames)]
  BY <1>0, <1>1, HeadOfStream, Typed
<1>5. f \in Frames /\ f = toPhone[c][1] /\ 1 \in 1..Len(toPhone[c])
  <2>1. toPhone[c] \in Seq(Frames)
    BY <1>0, Typed
  <2> QED
    BY <1>0, <1>1, <2>1, HeadOfStream
<1>6. op \in Calls /\ phone[c].sess \in SessStates
  BY <1>0, EndType
<1>7. CASE out = "Wait"
  <2>1. UNCHANGED <<phone, done>>
    BY <1>7 DEF PhoneReceive
  <2>2. TypeOK'
    BY <1>0, <1>4, <2>1 DEF TypeOK, PhoneReceive, agentVars
  <2> QED
    BY <1>2, <1>3, <2>1, <2>2, DoneSame DEF IInv
<1>8. CASE out # "Wait"
  <2>1. /\ Returned(c, op, out, f.ids)
        /\ phone' = [phone EXCEPT ![c] = [st |-> AfterReturn(out),
                                          sess |-> SessAfter(@.sess, f),
                                          op |-> NoCall]]
    BY <1>8 DEF PhoneReceive
  <2>2. /\ out \in Outcomes
        /\ op.kind = "beam" /\ out = "Ok" => f.ty = "ClipAck" /\ f.arg = op.arg
    BY <1>5, <1>6, <1>8, OnReplyResult
  <2>3. op.kind = "beam" /\ out = "Ok" => ArrivedIn(events', c, op.arg)
    BY <1>2, <1>5, <2>2 DEF IInv, AcksArrived
  <2>4. f.ids \in Seq(Nat)
    BY <1>5 DEF Frames
  <2> HIDE DEF out, op, f
  <2>5. done' \in [Conns -> Seq(Results)] /\ BeamAcked'
    BY <1>2, <1>6, <2>1, <2>2, <2>3, <2>4, DoneReturned
  <2>6. /\ AfterReturn(out) \in PhoneStates
        /\ SessAfter(phone[c].sess, f) \in SessStates
    BY <1>6 DEF AfterReturn, SessAfter, PhoneStates, SessStates
  <2>7. phone' \in [Conns -> Ends]
    BY <1>0, <2>1, <2>6, NoCallType, Typed DEF Ends
  <2>8. TypeOK'
    BY <1>0, <1>4, <2>5, <2>7 DEF TypeOK, PhoneReceive, Ends, Results, agentVars
  <2> QED
    BY <1>3, <2>5, <2>8 DEF IInv
<1> QED
  BY <1>7, <1>8

(* A call returns without a frame, hence not with Ok. *)
LEMMA ReturnsEmptyKeeps ==
  ASSUME IInv, NEW c \in Conns, NEW out \in {"Closed", "Protocol", "TimedOut"},
         PhoneReturnsEmpty(c, out)
  PROVE  IInv'
<1>0. TypeOK
  BY DEF IInv
<1>1. EventsGrow /\ toPhone' = toPhone
  BY DEF PhoneReturnsEmpty, EventsGrow, pcVars
<1>2. Returned(c, phone[c].op, out, <<>>)
  BY DEF PhoneReturnsEmpty
<1>3. phone[c].op \in Calls /\ out \in Outcomes /\ out # "Ok" /\ <<>> \in Seq(Nat)
  BY <1>0, EndType DEF Outcomes
<1>4. done' \in [Conns -> Seq(Results)] /\ BeamAcked'
  BY <1>1, <1>2, <1>3, DoneReturned
<1>5. phone' \in [Conns -> Ends]
  <2>1. phone' = [phone EXCEPT ![c].st = AfterReturn(out), ![c].op = NoCall]
    BY DEF PhoneReturnsEmpty
  <2>2. AfterReturn(out) \in PhoneStates
    BY DEF AfterReturn, PhoneStates
  <2> QED
    BY <1>0, <2>1, <2>2, EndType, NoCallType, Typed DEF Ends
<1>6. TypeOK'
  BY <1>0, <1>4, <1>5 DEF TypeOK, PhoneReturnsEmpty, Ends, Results, pcVars, agentVars
<1> QED
  BY <1>1, <1>4, <1>6, AcksSame DEF IInv

(* All of the phone's steps. *)
LEMMA PhoneNextKeeps ==
  ASSUME IInv, NEW c \in Conns, PhoneNext(c)
  PROVE  IInv'
<1>1. CASE PhoneEof(c) \/ PhoneReset(c) \/ PhoneTimeout(c)
  BY <1>1, ReturnsEmptyKeeps DEF PhoneEof, PhoneReset, PhoneTimeout
<1>2. CASE PhoneOpen(c) \/ PhoneHelloAck(c) \/ PhoneOpenFails(c) \/ PhoneDrop(c)
  BY <1>2, PhoneOpenKeeps, PhoneHelloAckKeeps, PhoneOpenFailsKeeps, PhoneDropKeeps
<1>3. CASE \E n \in Lens : PhoneBeam(c, n)
  BY <1>3, PhoneBeamKeeps
<1>4. CASE PhoneStageList(c) \/ \E id \in 1..copies : PhoneStageItem(c, id)
  BY <1>4, PhoneStageKeeps
<1>5. CASE PhoneReceive(c)
  BY <1>5, PhoneReceiveKeeps
<1> QED
  BY <1>1, <1>2, <1>3, <1>4, <1>5 DEF PhoneNext

-----------------------------------------------------------------------------
(* The PC's steps keep the invariant. *)

(* Handling a frame keeps the types, and the frame handled is a frame. *)
LEMMA HandlesType ==
  ASSUME TypeOK, NEW c \in Conns, NEW st, NEW ty, Handles(c, st, ty)
  PROVE  /\ toPc' \in [Conns -> Seq(Frames)]
         /\ turn' \in [Conns -> BOOLEAN]
         /\ Head(toPc[c]) \in Frames
<1>1. toPc[c] # <<>> /\ toPc' = [toPc EXCEPT ![c] = Tail(@)]
  BY DEF Handles
<1>2. turn' = [turn EXCEPT ![c] = FALSE]
  BY DEF Handles
<1> QED
  BY <1>1, <1>2, HeadOfStream, Typed

(* The task reads a frame. *)
LEMMA ReadsKeeps ==
  ASSUME IInv, NEW c \in Conns, Reads(c)
  PROVE  IInv'
<1>0. TypeOK
  BY DEF IInv
<1>1. turn' \in [Conns -> BOOLEAN] /\ sessPaused' \in [Conns -> BOOLEAN]
  BY <1>0, Typed DEF Reads
<1>2. TypeOK'
  BY <1>0, <1>1 DEF TypeOK, Reads, agentVars
<1>3. AcksArrived' /\ BeamAcked'
  BY AcksSame, DoneSame DEF Reads, EventsGrow
<1> QED
  BY <1>2, <1>3 DEF IInv

(* A step that writes frame f, or none, to the phone, adds event e, or     *)
(* none, and leaves the phone alone keeps the invariant, if an ACK is only *)
(* written for a clip that has arrived.                                    *)
LEMMA PcStepKeeps ==
  ASSUME IInv, NEW c \in Conns, EventsGrow,
         \/ toPhone' = toPhone
         \/ \E f \in Frames : /\ toPhone' = [toPhone EXCEPT ![c] = Append(@, f)]
                              /\ f.ty = "ClipAck" => ArrivedIn(events', c, f.arg),
         toPc' \in [Conns -> Seq(Frames)],
         turn' \in [Conns -> BOOLEAN],
         task' = task \/ \E s \in TaskStates : task' = [task EXCEPT ![c] = s],
         UNCHANGED pcFrame, UNCHANGED agentVars
  PROVE  IInv'
<1>0. TypeOK
  BY DEF IInv
<1>1. UNCHANGED <<phone, done, sessPaused, faults, paused, ring, copies>>
  BY DEF pcFrame, agentVars
<1>2. events' \in Seq(Events)
  <2>1. events \in Seq(Events)
    BY <1>0, Typed
  <2> QED
    BY <2>1 DEF EventsGrow
<1>3. task' \in [Conns -> TaskStates]
  BY <1>0, Typed
<1>4. toPhone' \in [Conns -> Seq(Frames)] /\ AcksArrived'
  <2>1. CASE toPhone' = toPhone
    BY <1>0, <2>1, AcksSame, Typed
  <2>2. ASSUME NEW f \in Frames,
               toPhone' = [toPhone EXCEPT ![c] = Append(@, f)],
               f.ty = "ClipAck" => ArrivedIn(events', c, f.arg)
        PROVE  toPhone' \in [Conns -> Seq(Frames)] /\ AcksArrived'
    <3>1. AcksArrived'
      BY <2>2, AcksAppend
    <3>2. toPhone \in [Conns -> Seq(Frames)]
      BY <1>0, Typed
    <3>3. toPhone' \in [Conns -> Seq(Frames)]
      BY <2>2, <3>2
    <3> QED
      BY <3>1, <3>3
  <2> QED
    BY <2>1, <2>2
<1>5. TypeOK'
  BY <1>0, <1>1, <1>2, <1>3, <1>4 DEF TypeOK
<1> QED
  BY <1>1, <1>4, <1>5, DoneSame DEF IInv

(* A HELLO is accepted. *)
LEMMA PcHelloKeeps ==
  ASSUME IInv, NEW c \in Conns, NEW ok \in BOOLEAN, PcHello(c, ok)
  PROVE  IInv'
<1>0. TypeOK
  BY DEF IInv
<1>1. toPc' \in [Conns -> Seq(Frames)] /\ turn' \in [Conns -> BOOLEAN]
  BY <1>0, HandlesType DEF PcHello
<1>2. UNCHANGED pcFrame /\ UNCHANGED agentVars
  BY DEF PcHello
<1>3. CASE ok
  <2>1. EventsGrow
    BY <1>3, EventType DEF PcHello, EventsGrow
  <2>2. \E f \in Frames : /\ toPhone' = [toPhone EXCEPT ![c] = Append(@, f)]
                          /\ f.ty = "ClipAck" => ArrivedIn(events', c, f.arg)
    <3> DEFINE f == Frame("HelloAck", 0, 0, <<>>)
    <3>1. f \in Frames /\ f.ty # "ClipAck"
      BY DEF Frame, Frames, PhoneBound
    <3>2. toPhone' = [toPhone EXCEPT ![c] = Append(@, f)]
      BY <1>3 DEF PcHello
    <3> QED
      BY <3>1, <3>2
  <2>3. \E s \in TaskStates : task' = [task EXCEPT ![c] = s]
    BY <1>3 DEF PcHello, TaskStates
  <2> QED
    BY <1>1, <1>2, <2>1, <2>2, <2>3, PcStepKeeps
<1>4. CASE ~ok
  <2>1. EventsGrow /\ toPhone' = toPhone
    BY <1>4 DEF PcHello, EventsGrow
  <2>2. \E s \in TaskStates : task' = [task EXCEPT ![c] = s]
    BY <1>4 DEF PcHello, TaskStates
  <2> QED
    BY <1>1, <1>2, <2>1, <2>2, PcStepKeeps
<1> QED
  BY <1>3, <1>4

(* The step BeamAcked is about: the ACK is written after the clip has been *)
(* handed on, in the same turn.                                            *)
LEMMA PcClipPushKeeps ==
  ASSUME IInv, NEW c \in Conns, NEW ok \in BOOLEAN, PcClipPush(c, ok)
  PROVE  IInv'
<1> DEFINE f == Head(toPc[c])
<1> DEFINE e == Event("ClipArrived", c, f.arg)
<1>0. TypeOK
  BY DEF IInv
<1>1. toPc' \in [Conns -> Seq(Frames)] /\ turn' \in [Conns -> BOOLEAN] /\ f \in Frames
  BY <1>0, HandlesType DEF PcClipPush
<1>2. UNCHANGED pcFrame /\ UNCHANGED agentVars /\ events' = Append(events, e)
  BY DEF PcClipPush
<1>3. f.arg \in Nat
  BY <1>1 DEF Frames
<1>4. e \in Events
  BY <1>3, EventType
<1>5. EventsGrow
  BY <1>2, <1>4 DEF EventsGrow
<1>6. ArrivedIn(events', c, f.arg)
  <2>1. events \in Seq(Events)
    BY <1>0, Typed
  <2> HIDE DEF e
  <2>2. Len(events) + 1 \in 1..Len(events') /\ events'[Len(events) + 1] = e
    BY <1>2, <1>4, <2>1
  <2> QED
    BY <2>2 DEF ArrivedIn, e
<1>7. CASE ok
  <2> DEFINE g == Frame("ClipAck", f.arg, 0, <<>>)
  <2>1. g \in Frames /\ g.arg = f.arg
    BY <1>3 DEF Frame, Frames, PhoneBound
  <2>2. toPhone' = [toPhone EXCEPT ![c] = Append(@, g)] /\ task' = task
    BY <1>7 DEF PcClipPush
  <2> HIDE DEF g, f
  <2> QED
    BY <1>1, <1>2, <1>5, <1>6, <2>1, <2>2, PcStepKeeps
<1>8. CASE ~ok
  <2>1. toPhone' = toPhone /\ \E s \in TaskStates : task' = [task EXCEPT ![c] = s]
    BY <1>8 DEF PcClipPush, TaskStates
  <2> QED
    BY <1>1, <1>2, <1>5, <2>1, PcStepKeeps
<1> QED
  BY <1>7, <1>8

(* A clip is refused: ERROR is no ACK. *)
LEMMA PcRefuseClipKeeps ==
  ASSUME IInv, NEW c \in Conns, NEW ok \in BOOLEAN, PcRefuseClip(c, ok)
  PROVE  IInv'
<1> DEFINE g == Frame("Error", IF sessPaused[c] THEN 5 ELSE 4, 0, <<>>)
<1>0. TypeOK
  BY DEF IInv
<1>1. toPc' \in [Conns -> Seq(Frames)] /\ turn' \in [Conns -> BOOLEAN]
  BY <1>0, HandlesType DEF PcRefuseClip
<1>2. UNCHANGED pcFrame /\ UNCHANGED agentVars
  BY DEF PcRefuseClip
<1>3. \E s \in TaskStates : task' = [task EXCEPT ![c] = s]
  BY DEF PcRefuseClip, TaskStates
<1>4. CASE ok
  <2>1. EventsGrow
    BY <1>4, EventType DEF PcRefuseClip, EventsGrow
  <2>2. g \in Frames /\ g.ty # "ClipAck"
    BY DEF Frame, Frames, PhoneBound
  <2>3. toPhone' = [toPhone EXCEPT ![c] = Append(@, g)]
    BY <1>4 DEF PcRefuseClip
  <2> HIDE DEF g
  <2> QED
    BY <1>1, <1>2, <1>3, <2>1, <2>2, <2>3, PcStepKeeps
<1>5. CASE ~ok
  <2>1. EventsGrow /\ toPhone' = toPhone
    BY <1>5 DEF PcRefuseClip, EventsGrow
  <2> QED
    BY <1>1, <1>2, <1>3, <2>1, PcStepKeeps
<1> QED
  BY <1>4, <1>5

(* A stage request is answered: neither answer is an ACK. *)
LEMMA PcStageKeeps ==
  ASSUME IInv, NEW c \in Conns, NEW ok \in BOOLEAN, PcStage(c, ok)
  PROVE  IInv'
<1> DEFINE g == StageReply(Head(toPc[c]))
<1>0. TypeOK
  BY DEF IInv
<1>1. /\ toPc' \in [Conns -> Seq(Frames)] /\ turn' \in [Conns -> BOOLEAN]
      /\ Head(toPc[c]) \in Frames
  BY <1>0, HandlesType DEF PcStage
<1>2. UNCHANGED pcFrame /\ UNCHANGED agentVars /\ EventsGrow
  BY DEF PcStage, EventsGrow
<1>3. CASE ok
  <2>1. g \in Frames /\ g.ty # "ClipAck"
    BY <1>0, <1>1, StageReplyType
  <2>2. toPhone' = [toPhone EXCEPT ![c] = Append(@, g)] /\ task' = task
    BY <1>3 DEF PcStage
  <2> HIDE DEF g
  <2> QED
    BY <1>1, <1>2, <2>1, <2>2, PcStepKeeps
<1>4. CASE ~ok
  <2>1. toPhone' = toPhone /\ \E s \in TaskStates : task' = [task EXCEPT ![c] = s]
    BY <1>4 DEF PcStage, TaskStates
  <2> QED
    BY <1>1, <1>2, <2>1, PcStepKeeps
<1> QED
  BY <1>3, <1>4

(* The ways a task ends. *)
LEMMA TaskGoneKeeps ==
  ASSUME IInv, NEW c \in Conns, TaskEnds(c) \/ TaskErrs(c),
         \/ \E st, ty : Handles(c, st, ty)
         \/ toPc[c] # <<>> /\ toPc' = [toPc EXCEPT ![c] = Tail(@)] /\ UNCHANGED turn
         \/ UNCHANGED <<toPc, turn>>
  PROVE  IInv'
<1>0. TypeOK
  BY DEF IInv
<1>1. toPc' \in [Conns -> Seq(Frames)] /\ turn' \in [Conns -> BOOLEAN]
  BY <1>0, HandlesType, HeadOfStream, Typed
<1>2. UNCHANGED pcFrame /\ UNCHANGED agentVars /\ toPhone' = toPhone
  BY DEF TaskEnds, TaskErrs
<1>3. EventsGrow
  BY EventType DEF TaskEnds, TaskErrs, EventsGrow
<1>4. \E s \in TaskStates : task' = [task EXCEPT ![c] = s]
  BY DEF TaskEnds, TaskErrs, TaskStates
<1> QED
  BY <1>1, <1>2, <1>3, <1>4, PcStepKeeps

(* All of the PC's steps. *)
LEMMA PcNextKeeps ==
  ASSUME IInv, NEW c \in Conns, PcNext(c)
  PROVE  IInv'
<1>1. ASSUME NEW ok \in BOOLEAN,
             PcHello(c, ok) \/ PcClipPush(c, ok) \/ PcRefuseClip(c, ok) \/ PcStage(c, ok)
      PROVE  IInv'
  BY <1>1, PcHelloKeeps, PcClipPushKeeps, PcRefuseClipKeeps, PcStageKeeps
<1>2. CASE PcHelloRefused(c)
  <2>1. TaskErrs(c) /\ Handles(c, "AwaitingHello", "Hello")
    BY <1>2 DEF PcHelloRefused, TaskErrs
  <2> QED
    BY <2>1, TaskGoneKeeps
<1>3. CASE PcDamaged(c)
  <2>1. TaskEnds(c) /\ \E st, ty : Handles(c, st, ty)
    BY <1>3 DEF PcDamaged
  <2> QED
    BY <2>1, TaskGoneKeeps
<1>4. CASE PcUndecodable(c)
  <2>1. TaskErrs(c) /\ toPc[c] # <<>> /\ toPc' = [toPc EXCEPT ![c] = Tail(@)] /\ UNCHANGED turn
    BY <1>4 DEF PcUndecodable, CanRead
  <2> QED
    BY <2>1, TaskGoneKeeps
<1>5. CASE PcEof(c) \/ PcReset(c) \/ PcIdle(c)
  <2>1. (TaskEnds(c) \/ TaskErrs(c)) /\ UNCHANGED <<toPc, turn>>
    BY <1>5 DEF PcEof, PcReset, PcIdle
  <2> QED
    BY <2>1, TaskGoneKeeps
<1> QED
  BY <1>1, <1>2, <1>3, <1>4, <1>5, ReadsKeeps DEF PcNext

-----------------------------------------------------------------------------
(* The user's and the network's steps keep the invariant. *)

(* The user pauses or resumes the agent. *)
LEMMA SetPausedKeeps ==
  ASSUME IInv, SetPaused
  PROVE  IInv'
<1>1. TypeOK'
  BY DEF IInv, TypeOK, SetPaused, pcVars
<1>2. EventsGrow /\ toPhone' = toPhone /\ done' = done
  BY DEF SetPaused, EventsGrow, pcVars
<1> QED
  BY <1>1, <1>2, AcksSame, DoneSame DEF IInv

(* The clipboard watcher stages a text. *)
LEMMA CopyKeeps ==
  ASSUME IInv, Copy
  PROVE  IInv'
<1> DEFINE x == [id |-> copies + 1, len |-> 0]
<1>0. TypeOK
  BY DEF IInv
<1>1. copies' \in Nat /\ x \in Clips
  BY <1>0, Typed DEF Copy, Clips
<1>2. ring' = PushInto(ring, x)
  BY DEF Copy
<1>3. ring' \in Seq(Clips) /\ Len(ring') <= RingDepth
  BY <1>0, <1>1, <1>2, PushType, Typed
<1>4. TypeOK'
  BY <1>0, <1>1, <1>3 DEF TypeOK, Copy, Clips, pcVars
<1>5. EventsGrow /\ toPhone' = toPhone /\ done' = done
  BY DEF Copy, EventsGrow, pcVars
<1> QED
  BY <1>4, <1>5, AcksSame, DoneSame DEF IInv

(* Damaging a frame of a stream leaves a frame that is no ACK, and the     *)
(* others as they are.                                                     *)
LEMMA DamagedStream ==
  ASSUME NEW s \in Seq(Frames), NEW k \in DOMAIN s, NEW ty \in Broken
  PROVE  /\ [s EXCEPT ![k].ty = ty] \in Seq(Frames)
         /\ Len([s EXCEPT ![k].ty = ty]) = Len(s)
         /\ [s EXCEPT ![k].ty = ty][k].ty = ty /\ ty # "ClipAck"
         /\ \A i \in 1..Len(s) : i # k => [s EXCEPT ![k].ty = ty][i] = s[i]
<1> DEFINE g == [s[k] EXCEPT !.ty = ty]
<1>1. k \in 1..Len(s) /\ s[k] \in Frames
  OBVIOUS
<1>2. g \in Frames /\ g.ty = ty /\ ty # "ClipAck"
  BY <1>1 DEF Frames, Broken
<1>3. [s EXCEPT ![k].ty = ty] = [s EXCEPT ![k] = g]
  OBVIOUS
<1> HIDE DEF g
<1> QED
  BY <1>1, <1>2, <1>3

(* What Damage does to a stream to the PC: a frame the task has taken up   *)
(* is out of its reach.                                                    *)
DamagesPc(c, ty) ==
  \E k \in DOMAIN toPc[c] :
    /\ turn[c] => k # 1
    /\ toPc' = [toPc EXCEPT ![c] = [toPc[c] EXCEPT ![k].ty = ty]]
    /\ UNCHANGED toPhone

DamagesPhone(c, ty) ==
  /\ toPhone[c] # <<>>
  /\ toPhone' = [toPhone EXCEPT ![c] = [toPhone[c] EXCEPT ![1].ty = ty]]
  /\ UNCHANGED toPc

(* Damage is on one side, and does not touch the frame in hand. *)
LEMMA DamageSides ==
  ASSUME TypeOK, NEW c \in Conns, NEW ty \in Broken, Damage(c, ty)
  PROVE  DamagesPc(c, ty) \/ DamagesPhone(c, ty)
<1>1. toPc \in [Conns -> Seq(Frames)] /\ toPhone \in [Conns -> Seq(Frames)]
  BY Typed
<1>2. CASE /\ NextToRead(c) \in DOMAIN toPc[c]
           /\ toPc' = [toPc EXCEPT ![c][NextToRead(c)].ty = ty]
           /\ UNCHANGED toPhone
  <2>1. turn[c] => NextToRead(c) # 1
    BY DEF NextToRead
  <2> HIDE DEF NextToRead
  <2>2. toPc' = [toPc EXCEPT ![c] = [toPc[c] EXCEPT ![NextToRead(c)].ty = ty]]
    BY <1>1, <1>2
  <2> QED
    BY <1>2, <2>1, <2>2 DEF DamagesPc
<1>3. CASE toPhone[c] # <<>> /\ toPhone' = [toPhone EXCEPT ![c][1].ty = ty] /\ UNCHANGED toPc
  BY <1>1, <1>3 DEF DamagesPhone
<1> QED
  BY <1>2, <1>3 DEF Damage

(* A frame is damaged in transit. *)
LEMMA DamageKeeps ==
  ASSUME IInv, NEW c \in Conns, NEW ty \in Broken, Damage(c, ty)
  PROVE  IInv'
<1>0. TypeOK
  BY DEF IInv
<1>1. faults' \in Nat
  BY <1>0, Typed DEF Damage
<1>2. EventsGrow /\ events' = events /\ done' = done
  BY DEF Damage, EventsGrow
<1>3. toPc \in [Conns -> Seq(Frames)] /\ toPhone \in [Conns -> Seq(Frames)]
  BY <1>0, Typed
<1>4. CASE DamagesPc(c, ty)
  <2>1. PICK k \in DOMAIN toPc[c] :
          toPc' = [toPc EXCEPT ![c] = [toPc[c] EXCEPT ![k].ty = ty]] /\ UNCHANGED toPhone
    BY <1>4 DEF DamagesPc
  <2>2. [toPc[c] EXCEPT ![k].ty = ty] \in Seq(Frames)
    BY <1>3, DamagedStream
  <2>3. toPc' \in [Conns -> Seq(Frames)]
    BY <1>3, <2>1, <2>2
  <2>4. TypeOK'
    BY <1>0, <1>1, <2>1, <2>3 DEF TypeOK, Damage, agentVars
  <2> QED
    BY <1>2, <2>1, <2>4, AcksSame, DoneSame DEF IInv
<1>5. CASE DamagesPhone(c, ty)
  <2> DEFINE t == [toPhone[c] EXCEPT ![1].ty = ty]
  <2>1. toPhone' = [toPhone EXCEPT ![c] = t] /\ toPhone[c] # <<>> /\ UNCHANGED toPc
    BY <1>5 DEF DamagesPhone
  <2>2. /\ t \in Seq(Frames) /\ Len(t) = Len(toPhone[c])
        /\ t[1].ty # "ClipAck"
        /\ \A i \in 2..Len(toPhone[c]) : t[i] = toPhone[c][i]
    <3>1. toPhone[c] \in Seq(Frames) /\ 1 \in DOMAIN toPhone[c]
      BY <1>3, <2>1
    <3> HIDE DEF t
    <3> QED
      BY <3>1, DamagedStream DEF t
  <2> HIDE DEF t
  <2>3. toPhone' \in [Conns -> Seq(Frames)]
    BY <1>3, <2>1, <2>2
  <2>4. TypeOK'
    BY <1>0, <1>1, <2>1, <2>3 DEF TypeOK, Damage, agentVars
  <2>5. AcksArrived'
    <3> SUFFICES ASSUME NEW d \in Conns, NEW i \in 1..Len(toPhone'[d]),
                        toPhone'[d][i].ty = "ClipAck"
                 PROVE  ArrivedIn(events', d, toPhone'[d][i].arg)
      BY DEF AcksArrived
    <3>1. i \in 1..Len(toPhone[d]) /\ toPhone'[d][i] = toPhone[d][i]
      <4>1. CASE d = c
        <5>1. toPhone'[d] = t
          BY <1>3, <2>1, <4>1
        <5>2. i \in 2..Len(toPhone[c])
          BY <1>3, <2>2, <5>1
        <5> QED
          BY <1>3, <2>2, <4>1, <5>1, <5>2
      <4>2. CASE d # c
        BY <1>3, <2>1, <4>2
      <4> QED
        BY <4>1, <4>2
    <3> QED
      BY <1>2, <3>1 DEF IInv, AcksArrived
  <2> QED
    BY <1>2, <2>4, <2>5, DoneSame DEF IInv
<1> QED
  BY <1>0, <1>4, <1>5, DamageSides

-----------------------------------------------------------------------------
(* The theorems. *)

(* Nothing is under way and nothing has returned at first. *)
LEMMA InitIInv == Init => IInv
<1> SUFFICES ASSUME Init PROVE IInv
  OBVIOUS
<1>1. TypeOK
  <2>1. phone \in [Conns -> Ends]
    BY NoCallType DEF Init, Ends, PhoneStates, SessStates
  <2>2. ring \in Seq(Clips) /\ Len(ring) <= RingDepth
    BY StageAssumption DEF Init, RingDepth
  <2>3. done \in [Conns -> Seq(Results)] /\ events \in Seq(Events)
    BY DEF Init
  <2>4. toPc \in [Conns -> Seq(Frames)] /\ toPhone \in [Conns -> Seq(Frames)]
    BY DEF Init
  <2>5. /\ task \in [Conns -> TaskStates]
        /\ turn \in [Conns -> BOOLEAN] /\ sessPaused \in [Conns -> BOOLEAN]
    BY DEF Init, TaskStates
  <2>6. paused \in BOOLEAN /\ copies \in Nat /\ faults \in Nat
    BY DEF Init
  <2> QED
    BY <2>1, <2>2, <2>3, <2>4, <2>5, <2>6, Typed
<1>2. AcksArrived /\ BeamAcked
  BY DEF Init, AcksArrived, BeamAcked
<1> QED
  BY <1>1, <1>2 DEF IInv

(* Every step keeps the invariant. *)
LEMMA NextIInv == IInv /\ [Next]_vars => IInv'
<1> SUFFICES ASSUME IInv, [Next]_vars PROVE IInv'
  OBVIOUS
<1>1. ASSUME NEW c \in Conns, PhoneNext(c) PROVE IInv'
  BY <1>1, PhoneNextKeeps
<1>2. ASSUME NEW c \in Conns, PcNext(c) PROVE IInv'
  BY <1>2, PcNextKeeps
<1>3. ASSUME NEW c \in Conns, NEW ty \in Broken, Damage(c, ty) PROVE IInv'
  BY <1>3, DamageKeeps
<1>4. CASE SetPaused \/ Copy
  BY <1>4, SetPausedKeeps, CopyKeeps
<1>5. CASE UNCHANGED vars
  <2>1. EventsGrow /\ toPhone' = toPhone /\ done' = done
    BY <1>5 DEF vars, EventsGrow
  <2>2. TypeOK'
    BY <1>5 DEF IInv, TypeOK, vars
  <2> QED
    BY <2>1, <2>2, AcksSame, DoneSame DEF IInv
<1> QED
  BY <1>1, <1>2, <1>3, <1>4, <1>5 DEF Next

(* The inductive invariant: types, ACKs under way, and BeamAcked. *)
THEOREM SessionInvariant == Spec => []IInv
BY InitIInv, NextIInv, PTL DEF Spec

(* The state of phone, PC and streams keeps its types; in particular the   *)
(* agent's ring never exceeds its depth.                                   *)
THEOREM TypeCorrect == Spec => []TypeOK
<1>1. IInv => TypeOK
  BY DEF IInv
<1> QED
  BY <1>1, SessionInvariant, PTL

(* Connection::beam returns Ok only for a clip the PC has handed on, with  *)
(* any number of sessions, calls, timeouts, late ACKs and damaged frames.  *)
THEOREM AckedBeamsArrived == Spec => []BeamAcked
<1>1. IInv => BeamAcked
  BY DEF IInv
<1> QED
  BY <1>1, SessionInvariant, PTL

(* What a step may announce: a clip only where it has been let in. *)
AnnouncesLetIn ==
  \/ events' = events
  \/ \E e \in Events : /\ events' = Append(events, e)
                       /\ e.ev = "ClipArrived" => e.conn \in LettingIn

(* The only step that announces a clip handles a CLIP_PUSH in a session    *)
(* that saw the agent unpaused when it read it.                            *)
LEMMA StepAnnounces == TypeOK /\ [Next]_vars => AnnouncesLetIn
<1> SUFFICES ASSUME TypeOK, [Next]_vars PROVE AnnouncesLetIn
  OBVIOUS
<1>1. ASSUME NEW c \in Conns, PhoneNext(c) PROVE events' = events
  BY <1>1 DEF PhoneNext, PhoneOpen, PhoneHelloAck, PhoneOpenFails, PhoneBeam, PhoneStageList,
     PhoneStageItem, PhoneReceive, PhoneEof, PhoneReset, PhoneTimeout, PhoneReturnsEmpty,
     PhoneDrop, pcVars
<1>2. ASSUME NEW c \in Conns, NEW ok \in BOOLEAN, PcClipPush(c, ok) PROVE AnnouncesLetIn
  <2> DEFINE e == Event("ClipArrived", c, Head(toPc[c]).arg)
  <2>1. Head(toPc[c]) \in Frames
    BY <1>2, HandlesType DEF PcClipPush
  <2>2. e \in Events /\ e.conn = c
    BY <2>1, EventType DEF Frames, Event
  <2>3. events' = Append(events, e) /\ c \in LettingIn
    BY <1>2 DEF PcClipPush, Handles, LettingIn
  <2> QED
    BY <2>2, <2>3 DEF AnnouncesLetIn
<1>3. ASSUME NEW c \in Conns, NEW ok \in BOOLEAN,
             PcHello(c, ok) \/ PcRefuseClip(c, ok) \/ PcStage(c, ok)
      PROVE  AnnouncesLetIn
  <2>1. \/ events' = events
        \/ events' = Append(events, Event("PeerConnected", c, 0))
        \/ events' = Append(events, Event("PeerDisconnected", c, 0))
    BY <1>3 DEF PcHello, PcRefuseClip, PcStage
  <2> QED
    BY <2>1, EventType DEF AnnouncesLetIn, Event
<1>4. ASSUME NEW c \in Conns,
             \/ Reads(c) \/ PcHelloRefused(c) \/ PcDamaged(c) \/ PcUndecodable(c)
             \/ PcEof(c) \/ PcReset(c) \/ PcIdle(c)
      PROVE  AnnouncesLetIn
  <2>1. events' = events \/ events' = Append(events, Event("PeerDisconnected", c, 0))
    BY <1>4 DEF Reads, PcHelloRefused, PcDamaged, PcUndecodable, PcEof, PcReset, PcIdle,
       TaskEnds, TaskErrs
  <2> QED
    BY <2>1, EventType DEF AnnouncesLetIn, Event
<1>5. ASSUME NEW c \in Conns, NEW ty \in Broken, Damage(c, ty) PROVE events' = events
  BY <1>5 DEF Damage
<1>6. CASE SetPaused \/ Copy \/ UNCHANGED vars
  BY <1>6 DEF SetPaused, Copy, vars, pcVars, AnnouncesLetIn
<1>7. ASSUME NEW c \in Conns, PcNext(c) PROVE AnnouncesLetIn
  BY <1>2, <1>3, <1>4, <1>7 DEF PcNext
<1> QED
  BY <1>1, <1>5, <1>6, <1>7 DEF Next, AnnouncesLetIn

-----------------------------------------------------------------------------
(* The order of a connection's events. *)

(* The state of the task tells which events of its connection there are:   *)
(* none before the HELLO is accepted, no disconnection while it is         *)
(* established.  A connection that is not open has no task.                *)
TaskTells ==
  /\ \A c \in Conns : phone[c].st = "new" => task[c] = "none"
  /\ \A i \in 1..Len(events) :
       /\ task[events[i].conn] \notin {"none", "AwaitingHello"}
       /\ events[i].ev = "PeerDisconnected" => task[events[i].conn] = "gone"

OrderInv == TaskTells /\ EventsInOrder

(* What every step does: it announces nothing, and no task goes back; or   *)
(* it announces what the state of the one task it moves allows.            *)
Quietly ==
  /\ events' = events
  /\ \A c \in Conns : \/ task'[c] = task[c]
                      \/ task'[c] = "gone" /\ task[c] # "none"
                      \/ task[c] = "none" /\ phone'[c].st # "new"

Announces(c) ==
  \E e \in Events :
    /\ e.conn = c /\ events' = Append(events, e)
    /\ \A d \in Conns \ {c} : task'[d] = task[d]
    /\ \/ /\ e.ev = "PeerConnected"
          /\ task[c] = "AwaitingHello" /\ task'[c] = "Established"
       \/ /\ e.ev = "ClipArrived"
          /\ task[c] = "Established" /\ task'[c] \in {"Established", "gone"}
       \/ /\ e.ev = "PeerDisconnected"
          /\ task[c] = "Established" /\ task'[c] = "gone"

(* A connection once opened is never new again. *)
LEMMA PhoneStaysOpen ==
  ASSUME TypeOK, NEW c \in Conns, PhoneNext(c), NEW d \in Conns
  PROVE  phone'[d].st = "new" => phone[d].st = "new"
<1>0. phone \in [Conns -> Ends] /\ phone[c] \in Ends
  BY Typed
<1>1. \/ phone' = phone
      \/ \E e : phone' = [phone EXCEPT ![c] = e] /\ e.st # "new"
  <2>1. ASSUME NEW op, NEW f, PhoneRequest(c, op, f)
        PROVE  \E e : phone' = [phone EXCEPT ![c] = e] /\ e.st # "new"
    <3>1. \/ phone' = [phone EXCEPT ![c] = [phone[c] EXCEPT !.st = "waiting", !.op = op]]
          \/ phone' = [phone EXCEPT ![c] = [phone[c] EXCEPT !.st = "closed"]]
      BY <1>0, <2>1 DEF PhoneRequest
    <3>2. /\ [phone[c] EXCEPT !.st = "waiting", !.op = op].st = "waiting"
          /\ [phone[c] EXCEPT !.st = "closed"].st = "closed"
      BY <1>0 DEF Ends
    <3> QED
      BY <3>1, <3>2
  <2>2. ASSUME NEW out, PhoneReturnsEmpty(c, out)
        PROVE  \E e : phone' = [phone EXCEPT ![c] = e] /\ e.st # "new"
    <3>1. phone' = [phone EXCEPT ![c] = [phone[c] EXCEPT !.st = AfterReturn(out), !.op = NoCall]]
      BY <1>0, <2>2 DEF PhoneReturnsEmpty
    <3>2. [phone[c] EXCEPT !.st = AfterReturn(out), !.op = NoCall].st # "new"
      BY <1>0 DEF Ends, AfterReturn
    <3> QED
      BY <3>1, <3>2
  <2>3. CASE PhoneHelloAck(c) \/ PhoneOpenFails(c) \/ PhoneDrop(c)
    BY <1>0, <2>3 DEF PhoneHelloAck, PhoneOpenFails, PhoneDrop, Ends
  <2>4. CASE PhoneReceive(c)
    BY <1>0, <2>4 DEF PhoneReceive, AfterReturn
  <2>5. CASE (\E n \in Lens : PhoneBeam(c, n)) \/ PhoneStageList(c)
               \/ \E id \in 1..copies : PhoneStageItem(c, id)
    BY <2>1, <2>5 DEF PhoneBeam, PhoneStageList, PhoneStageItem
  <2>6. CASE PhoneEof(c) \/ PhoneReset(c) \/ PhoneTimeout(c)
    BY <2>2, <2>6 DEF PhoneEof, PhoneReset, PhoneTimeout
  <2>7. CASE PhoneOpen(c)
    <3>1. phone' = [phone EXCEPT ![c] = [phone[c] EXCEPT !.st = "opening"]]
      BY <1>0, <2>7 DEF PhoneOpen
    <3>2. [phone[c] EXCEPT !.st = "opening"].st # "new"
      BY <1>0 DEF Ends
    <3> QED
      BY <3>1, <3>2
  <2> QED
    BY <2>3, <2>4, <2>5, <2>6, <2>7 DEF PhoneNext
<1> QED
  BY <1>0, <1>1

(* A task moves, perhaps to its end, or a connection is opened. *)
LEMMA StepEvents ==
  ASSUME TypeOK, TaskTells, [Next]_vars
  PROVE  /\ Quietly \/ \E c \in Conns : Announces(c)
         /\ \A c \in Conns : phone'[c].st = "new" => phone[c].st = "new"
<1>0. /\ phone \in [Conns -> Ends] /\ task \in [Conns -> TaskStates]
      /\ \A c \in Conns : phone[c] \in Ends
  BY Typed
<1>1. ASSUME NEW c \in Conns, PhoneNext(c)
      PROVE  Quietly /\ \A d \in Conns : phone'[d].st = "new" => phone[d].st = "new"
  <2>1. CASE PhoneOpen(c)
    <3>1. /\ phone'[c].st = "opening" /\ \A d \in Conns \ {c} : phone'[d] = phone[d]
      BY <1>0, <2>1 DEF PhoneOpen, Ends
    <3>2. events' = events /\ \A d \in Conns \ {c} : task'[d] = task[d]
      BY <1>0, <2>1 DEF PhoneOpen
    <3>3. task[c] = "none"
      BY <2>1 DEF TaskTells, PhoneOpen
    <3> QED
      BY <3>1, <3>2, <3>3 DEF Quietly
  <2>2. CASE ~PhoneOpen(c)
    <3>1. task' = task /\ events' = events
      BY <1>1, <2>2 DEF PhoneNext, PhoneHelloAck, PhoneOpenFails, PhoneBeam, PhoneStageList,
         PhoneStageItem, PhoneReceive, PhoneEof, PhoneReset, PhoneTimeout, PhoneReturnsEmpty,
         PhoneDrop, pcVars
    <3> QED
      BY <1>1, <3>1, PhoneStaysOpen DEF Quietly
  <2> QED
    BY <2>1, <2>2
<1>2. ASSUME NEW c \in Conns, NEW ok \in BOOLEAN, PcHello(c, ok)
      PROVE  Quietly \/ Announces(c)
  <2> DEFINE e == Event("PeerConnected", c, 0)
  <2>1. e \in Events /\ e.conn = c /\ e.ev = "PeerConnected"
    BY EventType DEF Event
  <2>2. task[c] = "AwaitingHello"
    BY <1>2 DEF PcHello, Handles
  <2>3. \/ task' = [task EXCEPT ![c] = "Established"] /\ events' = Append(events, e)
        \/ task' = [task EXCEPT ![c] = "gone"] /\ events' = events
    BY <1>2 DEF PcHello
  <2> HIDE DEF e
  <2> QED
    BY <1>0, <2>1, <2>2, <2>3 DEF Quietly, Announces
<1>3. ASSUME NEW c \in Conns, NEW ok \in BOOLEAN, PcClipPush(c, ok)
      PROVE  Quietly \/ Announces(c)
  <2> DEFINE e == Event("ClipArrived", c, Head(toPc[c]).arg)
  <2>1. e \in Events /\ e.conn = c /\ e.ev = "ClipArrived"
    BY <1>3, EventType, HandlesType DEF Event, Frames, PcClipPush
  <2>2. task[c] = "Established" /\ events' = Append(events, e)
    BY <1>3 DEF PcClipPush, Handles
  <2>3. task' = task \/ task' = [task EXCEPT ![c] = "gone"]
    BY <1>3 DEF PcClipPush
  <2> HIDE DEF e
  <2> QED
    BY <1>0, <2>1, <2>2, <2>3 DEF Announces
<1>4. ASSUME NEW c \in Conns, NEW ok \in BOOLEAN, PcRefuseClip(c, ok) \/ PcStage(c, ok)
      PROVE  Quietly \/ Announces(c)
  <2> DEFINE e == Event("PeerDisconnected", c, 0)
  <2>1. e \in Events /\ e.conn = c /\ e.ev = "PeerDisconnected"
    BY EventType DEF Event
  <2>2. task[c] = "Established"
    BY <1>4 DEF PcRefuseClip, PcStage, Handles
  <2>3. \/ task' = [task EXCEPT ![c] = "gone"] /\ events' \in {events, Append(events, e)}
        \/ task' = task /\ events' = events
    BY <1>4 DEF PcRefuseClip, PcStage
  <2> HIDE DEF e
  <2> QED
    BY <1>0, <2>1, <2>2, <2>3 DEF Quietly, Announces
<1>5. ASSUME NEW c \in Conns,
             \/ PcHelloRefused(c) \/ PcDamaged(c) \/ PcUndecodable(c)
             \/ PcEof(c) \/ PcReset(c) \/ PcIdle(c)
      PROVE  Quietly \/ Announces(c)
  <2> DEFINE e == Event("PeerDisconnected", c, 0)
  <2>1. e \in Events /\ e.conn = c /\ e.ev = "PeerDisconnected"
    BY EventType DEF Event
  <2>2. task[c] # "none"
    BY <1>5 DEF PcHelloRefused, PcDamaged, PcUndecodable, PcEof, PcReset, PcIdle, Handles,
       CanRead, Serving
  <2>3. /\ task' = [task EXCEPT ![c] = "gone"]
        /\ \/ events' = events
           \/ task[c] = "Established" /\ events' = Append(events, e)
    BY <1>5 DEF PcHelloRefused, PcDamaged, PcUndecodable, PcEof, PcReset, PcIdle, TaskEnds, TaskErrs
  <2> HIDE DEF e
  <2> QED
    BY <1>0, <2>1, <2>2, <2>3 DEF Quietly, Announces
<1>6. ASSUME NEW c \in Conns, PcNext(c)
      PROVE  (Quietly \/ Announces(c)) /\ phone' = phone
  <2>1. phone' = phone
    BY <1>6 DEF PcNext, Reads, PcHello, PcClipPush, PcRefuseClip, PcStage, PcHelloRefused, PcDamaged,
       PcUndecodable, PcEof, PcReset, PcIdle, TaskEnds, TaskErrs, pcFrame
  <2>2. CASE Reads(c)
    BY <2>2 DEF Reads, Quietly
  <2> QED
    BY <1>2, <1>3, <1>4, <1>5, <1>6, <2>1, <2>2 DEF PcNext
<1>7. CASE SetPaused \/ Copy \/ UNCHANGED vars \/ \E c \in Conns, ty \in Broken : Damage(c, ty)
  BY <1>7 DEF SetPaused, Copy, vars, pcVars, Damage, Quietly
<1> QED
  BY <1>1, <1>6, <1>7 DEF Next

(* Hence the order. *)
LEMMA OrderStep ==
  ASSUME TypeOK, OrderInv, [Next]_vars
  PROVE  OrderInv'
<1>0. events \in Seq(Events) /\ \A i \in 1..Len(events) : events[i].conn \in Conns
  <2>1. events \in Seq(Events)
    BY Typed
  <2>2. \A i \in 1..Len(events) : events[i] \in Events
    BY <2>1
  <2> QED
    BY <2>1, <2>2 DEF Events
<1>1. TaskTells /\ EventsInOrder
  BY DEF OrderInv
<1>2. /\ Quietly \/ \E c \in Conns : Announces(c)
      /\ \A c \in Conns : phone'[c].st = "new" => phone[c].st = "new"
  BY <1>1, StepEvents
<1>3. CASE Quietly
  <2>1. TaskTells'
    BY <1>0, <1>1, <1>2, <1>3 DEF TaskTells, Quietly
  <2>2. EventsInOrder'
    BY <1>1, <1>3 DEF EventsInOrder, Quietly
  <2> QED
    BY <2>1, <2>2 DEF OrderInv
<1>4. ASSUME NEW c \in Conns, Announces(c)
      PROVE  OrderInv'
  <2>1. PICK e \in Events :
          /\ e.conn = c /\ events' = Append(events, e)
          /\ \A d \in Conns \ {c} : task'[d] = task[d]
          /\ \/ /\ e.ev = "PeerConnected"
                /\ task[c] = "AwaitingHello" /\ task'[c] = "Established"
             \/ /\ e.ev = "ClipArrived"
                /\ task[c] = "Established" /\ task'[c] \in {"Established", "gone"}
             \/ /\ e.ev = "PeerDisconnected"
                /\ task[c] = "Established" /\ task'[c] = "gone"
    BY <1>4 DEF Announces
  <2>2. /\ Len(events') = Len(events) + 1 /\ events'[Len(events) + 1] = e
        /\ \A i \in 1..Len(events) : events'[i] = events[i]
    BY <1>0, <2>1
  <2>3. \A i \in 1..Len(events') : i \in 1..Len(events) \/ i = Len(events) + 1
    BY <1>0, <2>2
  <2>4. TaskTells'
    <3>1. \A d \in Conns : phone'[d].st = "new" => task'[d] = "none"
      BY <1>1, <1>2, <2>1 DEF TaskTells
    <3>2. ASSUME NEW i \in 1..Len(events')
          PROVE  /\ task'[events'[i].conn] \notin {"none", "AwaitingHello"}
                 /\ events'[i].ev = "PeerDisconnected" => task'[events'[i].conn] = "gone"
      <4>1. CASE i \in 1..Len(events)
        <5>1. events'[i] = events[i] /\ events[i].conn \in Conns
          BY <1>0, <2>2, <4>1
        <5> QED
          BY <1>1, <2>1, <4>1, <5>1 DEF TaskTells
      <4>2. CASE i = Len(events) + 1
        BY <2>1, <2>2, <4>2
      <4> QED
        BY <2>3, <4>1, <4>2
    <3> QED
      BY <3>1, <3>2 DEF TaskTells
  <2>5. EventsInOrder'
    <3> SUFFICES ASSUME NEW i \in 1..Len(events'), NEW j \in 1..Len(events'), i < j,
                        events'[i].conn = events'[j].conn
                 PROVE  events'[i].ev # "PeerDisconnected" /\ events'[j].ev # "PeerConnected"
      BY DEF EventsInOrder
    <3>1. i \in 1..Len(events) /\ events'[i] = events[i]
      BY <1>0, <2>2, <2>3
    <3>2. CASE j \in 1..Len(events)
      BY <1>1, <2>2, <3>1, <3>2 DEF EventsInOrder
    <3>3. CASE j = Len(events) + 1
      <4>1. events[i].conn = c /\ events'[j] = e
        BY <2>1, <2>2, <3>1, <3>3
      <4>2. task[c] # "AwaitingHello" /\ (events[i].ev = "PeerDisconnected" => task[c] = "gone")
        BY <1>1, <3>1, <4>1 DEF TaskTells
      <4> QED
        BY <2>1, <3>1, <4>1, <4>2
    <3> QED
      BY <2>3, <3>2, <3>3
  <2> QED
    BY <2>4, <2>5 DEF OrderInv
<1> QED
  BY <1>2, <1>3, <1>4

(* The order and what it rests on hold in every state. *)
LEMMA Ordered == Spec => []OrderInv
<1>1. Init => OrderInv
  BY DEF Init, OrderInv, TaskTells, EventsInOrder
<1>2. TypeOK /\ OrderInv /\ [Next]_vars => OrderInv'
  BY OrderStep
<1> QED
  BY <1>1, <1>2, TypeCorrect, PTL DEF Spec

(* Each connection's events come in order: PeerConnected first, then its   *)
(* clips, then at most one PeerDisconnected, whatever else the agent's     *)
(* other sessions announce in between.                                     *)
THEOREM EventsOrdered == Spec => []EventsInOrder
<1>1. OrderInv => EventsInOrder
  BY DEF OrderInv
<1> QED
  BY <1>1, Ordered, PTL

-----------------------------------------------------------------------------
(* A task's turn. *)

(* A task whose turn it is serves its connection, and the frame it handles *)
(* is there.                                                               *)
TurnInv == \A c \in Conns : turn[c] => task[c] \in Serving /\ toPc[c] # <<>>

(* What a step that is not the beginning of a turn does to one: it goes on *)
(* with the same frame in a session that has the same copy of the pause    *)
(* flag, or it is over.                                                    *)
GoesOn(c) ==
  /\ turn[c] /\ turn'[c] /\ sessPaused'[c] = sessPaused[c] /\ task'[c] = task[c]
  /\ toPc[c] # <<>> /\ toPc'[c] # <<>> /\ Head(toPc'[c]) = Head(toPc[c])

Continues(c) == GoesOn(c) \/ ~turn'[c]

(* A turn nothing touches goes on. *)
LEMMA TurnUntouched ==
  ASSUME TypeOK, TurnInv, NEW c \in Conns, turn'[c] = turn[c], sessPaused'[c] = sessPaused[c],
         turn[c] => /\ task'[c] = task[c]
                    /\ toPc'[c] # <<>> /\ Head(toPc'[c]) = Head(toPc[c])
  PROVE  Continues(c)
BY Typed DEF Continues, GoesOn, TurnInv

(* The phone's steps take no turn away and touch no frame under way. *)
LEMMA PhoneTurn ==
  ASSUME TypeOK, TaskTells, TurnInv, NEW c \in Conns, PhoneNext(c), NEW d \in Conns
  PROVE  Continues(d)
<1>0. /\ phone \in [Conns -> Ends] /\ task \in [Conns -> TaskStates]
      /\ toPc \in [Conns -> Seq(Frames)] /\ turn \in [Conns -> BOOLEAN]
      /\ phone[c] \in Ends /\ phone[d] \in Ends /\ toPc[c] \in Seq(Frames)
  BY Typed
<1>1. turn' = turn /\ sessPaused' = sessPaused
  BY DEF PhoneNext, PhoneOpen, PhoneHelloAck, PhoneOpenFails, PhoneBeam, PhoneStageList,
     PhoneStageItem, PhoneReceive, PhoneEof, PhoneReset, PhoneTimeout, PhoneReturnsEmpty,
     PhoneDrop, pcVars
<1>2. CASE PhoneOpen(c)
  <2>1. ~turn[c]
    BY <1>2 DEF PhoneOpen, TaskTells, TurnInv, Serving
  <2>2. CASE d = c
    BY <1>1, <2>1, <2>2 DEF Continues
  <2>3. CASE d # c
    <3>1. task'[d] = task[d] /\ toPc'[d] = toPc[d] /\ phone'[d] = phone[d]
      BY <1>0, <1>2, <2>3 DEF PhoneOpen
    <3> QED
      BY <1>1, <3>1, TurnUntouched DEF TurnInv
  <2> QED
    BY <2>2, <2>3
<1>3. CASE ~PhoneOpen(c)
  <2>1. task' = task
    BY <1>3 DEF PhoneNext, PhoneHelloAck, PhoneOpenFails, PhoneBeam, PhoneStageList,
       PhoneStageItem, PhoneReceive, PhoneEof, PhoneReset, PhoneTimeout, PhoneReturnsEmpty,
       PhoneDrop, pcVars
  <2>2. toPc' = toPc \/ \E f : toPc' = [toPc EXCEPT ![c] = Append(@, f)]
    BY <1>3 DEF PhoneNext, PhoneHelloAck, PhoneOpenFails, PhoneBeam, PhoneStageList,
       PhoneStageItem, PhoneRequest, PhoneReceive, PhoneEof, PhoneReset, PhoneTimeout,
       PhoneReturnsEmpty, PhoneDrop
  <2>3. toPc[d] # <<>> => toPc'[d] # <<>> /\ Head(toPc'[d]) = Head(toPc[d])
    <3>1. CASE toPc'[d] = toPc[d]
      BY <3>1
    <3>2. ASSUME NEW f, toPc' = [toPc EXCEPT ![c] = Append(@, f)], d = c
          PROVE  toPc[d] # <<>> => toPc'[d] # <<>> /\ Head(toPc'[d]) = Head(toPc[d])
      <4>1. toPc'[d] = Append(toPc[d], f)
        BY <1>0, <3>2
      <4> QED
        BY <1>0, <3>2, <4>1
    <3> QED
      BY <1>0, <2>2, <3>1, <3>2
  <2> QED
    BY <1>1, <2>1, <2>3, TurnUntouched DEF TurnInv
<1> QED
  BY <1>2, <1>3

(* A task's steps end its own turn only. *)
LEMMA PcTurn ==
  ASSUME TypeOK, TurnInv, NEW c \in Conns, PcNext(c), ~Reads(c), NEW d \in Conns
  PROVE  Continues(d)
<1>0. /\ task \in [Conns -> TaskStates] /\ toPc \in [Conns -> Seq(Frames)]
      /\ turn \in [Conns -> BOOLEAN] /\ sessPaused \in [Conns -> BOOLEAN]
  BY Typed
<1>1. sessPaused' = sessPaused
  BY DEF PcNext, PcHello, PcClipPush, PcRefuseClip, PcStage, PcHelloRefused, PcDamaged,
     PcUndecodable, PcEof, PcReset, PcIdle, TaskEnds, TaskErrs, pcFrame
<1>2. task' = task \/ \E t : task' = [task EXCEPT ![c] = t]
  BY DEF PcNext, PcHello, PcClipPush, PcRefuseClip, PcStage, PcHelloRefused, PcDamaged,
     PcUndecodable, PcEof, PcReset, PcIdle, TaskEnds, TaskErrs
<1>3. \/ turn' = [turn EXCEPT ![c] = FALSE] /\ toPc' = [toPc EXCEPT ![c] = Tail(@)]
      \/ turn' = turn /\ ~turn[c] /\ (toPc' = toPc \/ toPc' = [toPc EXCEPT ![c] = Tail(@)])
  <2>1. CASE \E st, ty : Handles(c, st, ty)
    BY <2>1 DEF Handles
  <2>2. CASE PcUndecodable(c) \/ PcEof(c) \/ PcReset(c) \/ PcIdle(c)
    BY <2>2 DEF PcUndecodable, CanRead, PcEof, PcReset, PcIdle
  <2> QED
    BY <2>1, <2>2 DEF PcNext, PcHello, PcClipPush, PcRefuseClip, PcStage, PcHelloRefused,
       PcDamaged
<1>4. CASE d = c
  BY <1>0, <1>3, <1>4 DEF Continues
<1>5. CASE d # c
  <2>1. turn'[d] = turn[d] /\ task'[d] = task[d] /\ toPc'[d] = toPc[d]
    BY <1>0, <1>2, <1>3, <1>5
  <2> QED
    BY <1>1, <2>1, TurnUntouched DEF TurnInv
<1> QED
  BY <1>4, <1>5

(* The network damages only what no task has read. *)
LEMMA DamageTurn ==
  ASSUME TypeOK, TurnInv, NEW c \in Conns, NEW ty \in Broken, Damage(c, ty), NEW d \in Conns
  PROVE  Continues(d)
<1>0. toPc \in [Conns -> Seq(Frames)] /\ toPc[d] \in Seq(Frames)
  BY Typed
<1>1. turn' = turn /\ sessPaused' = sessPaused /\ task' = task /\ phone' = phone
  BY DEF Damage
<1>2. turn[d] => toPc'[d] # <<>> /\ Head(toPc'[d]) = Head(toPc[d])
  <2>1. CASE toPc'[d] = toPc[d]
    BY <2>1 DEF TurnInv
  <2>2. CASE DamagesPc(c, ty) /\ d = c /\ turn[d]
    <3>1. PICK k \in DOMAIN toPc[c] :
            k # 1 /\ toPc' = [toPc EXCEPT ![c] = [toPc[c] EXCEPT ![k].ty = ty]]
      BY <2>2 DEF DamagesPc
    <3> DEFINE t == [toPc[c] EXCEPT ![k].ty = ty]
    <3>2. toPc'[d] = t
      BY <1>0, <2>2, <3>1
    <3>3. t \in Seq(Frames) /\ Len(t) = Len(toPc[c])
          /\ \A i \in 1..Len(toPc[c]) : i # k => t[i] = toPc[c][i]
      BY <1>0, <2>2, DamagedStream
    <3> HIDE DEF t
    <3>4. toPc[c] # <<>> /\ 1 \in 1..Len(toPc[c])
      BY <1>0, <2>2 DEF TurnInv
    <3>5. t # <<>> /\ t[1] = toPc[c][1]
      BY <1>0, <2>2, <3>1, <3>3, <3>4
    <3>6. Head(t) = t[1] /\ Head(toPc[c]) = toPc[c][1]
      BY <1>0, <2>2, <3>3, <3>4, <3>5
    <3> QED
      BY <2>2, <3>2, <3>5, <3>6
  <2>3. DamagesPc(c, ty) \/ DamagesPhone(c, ty)
    BY DamageSides
  <2> QED
    BY <1>0, <2>1, <2>2, <2>3 DEF DamagesPc, DamagesPhone
<1> QED
  BY <1>1, <1>2, TurnUntouched DEF TurnInv

(* Hence every step, unless a turn begins. *)
LEMMA StepTurns ==
  ASSUME TypeOK, TaskTells, TurnInv, [Next]_vars
  PROVE  (\E c \in Conns : Reads(c)) \/ \A c \in Conns : Continues(c)
<1>1. CASE SetPaused \/ Copy \/ UNCHANGED vars
  <2>1. UNCHANGED <<turn, sessPaused, task, toPc>>
    BY <1>1 DEF SetPaused, Copy, vars, pcVars
  <2> QED
    BY <2>1, TurnUntouched DEF TurnInv
<1> QED
  BY <1>1, PhoneTurn, PcTurn, DamageTurn DEF Next

(* What the beginning of a turn does to the turns. *)
LEMMA TurnBegins ==
  ASSUME TypeOK, NEW c \in Conns, Reads(c)
  PROVE  /\ ~turn[c] /\ turn'[c] /\ sessPaused'[c] = paused
         /\ task[c] \in Serving /\ toPc[c] # <<>> /\ task' = task /\ toPc' = toPc
         /\ \A d \in Conns \ {c} : turn'[d] = turn[d] /\ sessPaused'[d] = sessPaused[d]
<1>1. turn \in [Conns -> BOOLEAN] /\ sessPaused \in [Conns -> BOOLEAN]
  BY Typed
<1> QED
  BY <1>1 DEF Reads, CanRead

(* Either way the invariant is kept. *)
LEMMA TurnStep ==
  ASSUME TypeOK, TaskTells, TurnInv, [Next]_vars
  PROVE  TurnInv'
<1>1. ASSUME NEW c \in Conns, Reads(c)
      PROVE  TurnInv'
  BY <1>1, TurnBegins DEF TurnInv
<1>2. ASSUME \A c \in Conns : Continues(c)
      PROVE  TurnInv'
  BY <1>2 DEF TurnInv, Continues, GoesOn
<1> QED
  BY <1>1, <1>2, StepTurns

(* This is so in every state. *)
LEMMA Turns == Spec => []TurnInv
<1>1. Init => TurnInv
  BY DEF Init, TurnInv
<1>2. TypeOK /\ OrderInv /\ TurnInv /\ [Next]_vars => TurnInv'
  BY TurnStep DEF OrderInv
<1> QED
  BY <1>1, <1>2, TypeCorrect, Ordered, PTL DEF Spec

(* A clip arrives only in a session that saw the agent unpaused when it    *)
(* read the clip's frame, and while the agent is paused no session joins   *)
(* those that did: what still arrives after the user has paused is the     *)
(* frames the tasks had read, one for each connection, however long the    *)
(* sessions are established and whatever was under way.                    *)
THEOREM PauseIsRespected == Spec => PauseHolds
<1>1. ASSUME TypeOK, [Next]_vars,
             NEW i \in 1..Len(events'), i > Len(events), events'[i].ev = "ClipArrived"
      PROVE  events'[i].conn \in LettingIn
  <2>1. events \in Seq(Events)
    BY <1>1, Typed
  <2>2. AnnouncesLetIn
    BY <1>1, StepAnnounces
  <2>3. PICK e \in Events : /\ events' = Append(events, e)
                            /\ e.ev = "ClipArrived" => e.conn \in LettingIn
    BY <1>1, <2>1, <2>2 DEF AnnouncesLetIn
  <2>4. events'[i] = e
    BY <1>1, <2>1, <2>3
  <2> QED
    BY <1>1, <2>3, <2>4
<1>2. ASSUME TypeOK, TaskTells, TurnInv, [Next]_vars, paused
      PROVE  LettingIn' \subseteq LettingIn
  <2>1. ASSUME NEW c \in Conns, Reads(c)
        PROVE  LettingIn' \subseteq LettingIn
    <3>1. /\ sessPaused'[c] = paused /\ toPc' = toPc
          /\ \A d \in Conns \ {c} : turn'[d] = turn[d] /\ sessPaused'[d] = sessPaused[d]
      BY <1>2, <2>1, TurnBegins
    <3>2. \A d : d \in LettingIn' => d \in LettingIn
      BY <1>2, <3>1 DEF LettingIn
    <3> QED
      BY <3>2
  <2>2. ASSUME \A c \in Conns : Continues(c)
        PROVE  LettingIn' \subseteq LettingIn
    <3>1. \A d \in Conns : d \in LettingIn' => GoesOn(d)
      BY <2>2 DEF LettingIn, Continues
    <3>2. \A d : d \in LettingIn' => d \in LettingIn
      BY <3>1 DEF LettingIn, GoesOn
    <3> QED
      BY <3>2
  <2> QED
    BY <1>2, <2>1, <2>2, StepTurns
<1>3. TypeOK /\ OrderInv /\ TurnInv /\ [Next]_vars
        => /\ \A i \in 1..Len(events') :
                i > Len(events) /\ events'[i].ev = "ClipArrived" => events'[i].conn \in LettingIn
           /\ paused => LettingIn' \subseteq LettingIn
  BY <1>1, <1>2 DEF OrderInv
<1> QED
  BY <1>3, TypeCorrect, Ordered, Turns, PTL DEF Spec, PauseHolds

-----------------------------------------------------------------------------
(* What the phone is told of the staged clips. *)

(* The ring holds the newest copies, numbered without gaps. *)
RingInv ==
  /\ Len(ring) = IF copies < RingDepth THEN copies ELSE RingDepth
  /\ \A i \in 1..Len(ring) : ring[i].id = copies - Len(ring) + i

(* A call was made in the past, and stage_item asks for a clip that was    *)
(* copied.                                                                 *)
CallOk(op, n) == op.since <= n /\ (op.kind = "item" => op.arg \in 1..n)

CallsOk ==
  /\ \A c \in Conns : CallOk(phone[c].op, copies)
  /\ \A c \in Conns : \A i \in 1..Len(done[c]) : CallOk(done[c][i].op, copies)

(* A frame on its way to the PC asks what the call op asks; one on its way *)
(* to the phone answers it truly.                                          *)
Asks(f, op) ==
  /\ f.ty = "StageListReq" => op.kind = "list"
  /\ f.ty = "StageGet" => op.kind = "item" /\ f.arg = op.arg
Answers(f, op) ==
  f.ty = "StageList" =>
    /\ op.kind = "list" => \E k \in op.since..copies : f.ids = IdsAt(k)
    /\ op.kind = "item" => ~Holds(ring, op.arg)

(* A connection with an open session and no call that timed out: at most   *)
(* one frame is under way, none between calls, and it belongs to the call. *)
InStep(c) ==
  phone[c].st # "closed" /\ phone[c].sess # "Closed" /\ NoneTimedOut(c, Len(done[c]))

OneUnderWay(c) ==
  /\ Len(toPhone[c]) <= 1
  /\ task[c] # "gone" => Len(toPc[c]) <= 1 /\ (toPc[c] = <<>> \/ toPhone[c] = <<>>)
  /\ phone[c].st \in {"new", "ready"} =>
       toPhone[c] = <<>> /\ (task[c] = "gone" \/ toPc[c] = <<>>)
  /\ phone[c].st = "waiting" =>
       /\ task[c] # "gone" => \A i \in 1..Len(toPc[c]) : Asks(toPc[c][i], phone[c].op)
       /\ \A i \in 1..Len(toPhone[c]) : Answers(toPhone[c][i], phone[c].op)

PipeInv ==
  \A c \in Conns : /\ InStep(c) => OneUnderWay(c)
                   /\ phone[c].st \in {"new", "opening"} => phone[c].sess # "Closed"

StageInv == RingInv /\ CallsOk /\ PipeInv /\ StageAnswersTrue

(* The ring's depth is at least one. *)
LEMMA DepthPositive == RingDepth \in Nat /\ RingDepth >= 1
BY StageAssumption DEF RingDepth

(* Which clips the ring holds. *)
LEMMA HeldOnes ==
  ASSUME TypeOK, RingInv, NEW a \in Nat
  PROVE  Holds(ring, a) <=> copies - Len(ring) < a /\ a <= copies
<1>0. ring \in Seq(Clips) /\ copies \in Nat /\ Len(ring) \in Nat
  BY Typed
<1>1. ASSUME Holds(ring, a)
      PROVE  copies - Len(ring) < a /\ a <= copies
  <2>1. PICK i \in 1..Len(ring) : ring[i].id = a
    BY <1>1 DEF Holds
  <2>2. a = copies - Len(ring) + i
    BY <2>1 DEF RingInv
  <2> QED
    BY <1>0, <2>2
<1>2. ASSUME copies - Len(ring) < a, a <= copies
      PROVE  Holds(ring, a)
  <2> DEFINE i == a - (copies - Len(ring))
  <2>1. i \in 1..Len(ring) /\ copies - Len(ring) + i = a
    BY <1>0, <1>2
  <2>2. ring[i].id = a
    BY <2>1 DEF RingInv
  <2> QED
    BY <2>1, <2>2 DEF Holds
<1> QED
  BY <1>1, <1>2

(* list returns the identities of the newest copies, newest first. *)
LEMMA ListedOnes ==
  ASSUME TypeOK, RingInv
  PROVE  IdsOf(ListOf(ring)) = IdsAt(copies)
<1>0. ring \in Seq(Clips) /\ copies \in Nat /\ Len(ring) \in Nat
  BY Typed
<1>1. /\ ListOf(ring) = [i \in 1..Len(ring) |-> ring[Len(ring) + 1 - i]]
      /\ Len(ListOf(ring)) = Len(ring)
  BY <1>0 DEF ListOf
<1>2. IdsOf(ListOf(ring)) = [i \in 1..Len(ring) |-> ListOf(ring)[i].id]
  BY <1>1 DEF IdsOf
<1>3. ASSUME NEW i \in 1..Len(ring)
      PROVE  ListOf(ring)[i].id = copies + 1 - i
  <2>1. Len(ring) + 1 - i \in 1..Len(ring) /\ ListOf(ring)[i] = ring[Len(ring) + 1 - i]
    BY <1>0, <1>1
  <2>2. ring[Len(ring) + 1 - i].id = copies - Len(ring) + (Len(ring) + 1 - i)
    BY <2>1 DEF RingInv
  <2> QED
    BY <1>0, <2>1, <2>2
<1>4. IdsAt(copies) = [i \in 1..Len(ring) |-> copies + 1 - i]
  BY DEF IdsAt, RingInv
<1> QED
  BY <1>2, <1>3, <1>4

(* A copy keeps the numbering, and what was gone stays gone. *)
LEMMA CopyRing ==
  ASSUME TypeOK, RingInv, Copy
  PROVE  /\ RingInv' /\ copies' = copies + 1
         /\ \A a \in 1..copies : ~Holds(ring, a) => ~Holds(ring', a)
<1> DEFINE x == [id |-> copies + 1, len |-> 0]
<1>0. ring \in Seq(Clips) /\ copies \in Nat /\ Len(ring) \in Nat
  BY Typed
<1>1. ring' = PushInto(ring, x) /\ copies' = copies + 1 /\ copies' \in Nat
  BY <1>0 DEF Copy
<1>2. x \in Clips /\ x.id = copies + 1 /\ ~Oversize(x)
  BY <1>0, StageAssumption DEF Clips, Oversize
<1> HIDE DEF x
<1>3. RingInv'
  <2>1. CASE Len(ring) = RingDepth
    <3>1. ring' = Append(Tail(ring), x)
      BY <1>1, <1>2, <2>1 DEF PushInto
    <3>2. ring # <<>> /\ Tail(ring) \in Seq(Clips) /\ Len(Tail(ring)) = Len(ring) - 1
          /\ \A i \in 1..Len(Tail(ring)) : Tail(ring)[i] = ring[i + 1]
      BY <1>0, <2>1, DepthPositive
    <3>3. /\ Len(ring') = Len(ring) /\ ring'[Len(ring)] = x
          /\ \A i \in 1..(Len(ring) - 1) : ring'[i] = ring[i + 1]
      <4>1. Len(ring') = Len(ring) /\ ring'[Len(ring)] = x
        BY <1>0, <1>2, <3>1, <3>2
      <4>2. \A i \in 1..Len(Tail(ring)) : ring'[i] = Tail(ring)[i]
        BY <1>0, <1>2, <3>1, <3>2
      <4> QED
        BY <3>2, <4>1, <4>2
    <3>4. \A i \in 1..Len(ring) : ring'[i].id = copies + 1 - Len(ring) + i
      <4> SUFFICES ASSUME NEW i \in 1..Len(ring)
                   PROVE  ring'[i].id = copies + 1 - Len(ring) + i
        OBVIOUS
      <4>1. CASE i = Len(ring)
        BY <1>0, <1>2, <3>3, <4>1
      <4>2. CASE i # Len(ring)
        <5>1. i \in 1..(Len(ring) - 1) /\ i + 1 \in 1..Len(ring)
          BY <1>0, <4>2
        <5>2. ring'[i].id = copies - Len(ring) + (i + 1)
          BY <3>3, <5>1 DEF RingInv
        <5> QED
          BY <1>0, <5>2
      <4> QED
        BY <4>1, <4>2
    <3>5. Len(ring') = IF copies' < RingDepth THEN copies' ELSE RingDepth
      BY <1>0, <1>1, <2>1, <3>3, DepthPositive DEF RingInv
    <3>6. \A i \in 1..Len(ring') : ring'[i].id = copies' - Len(ring') + i
      BY <1>0, <1>1, <3>3, <3>4
    <3> QED
      BY <3>5, <3>6 DEF RingInv
  <2>2. CASE Len(ring) # RingDepth
    <3>1. ring' = Append(ring, x)
      BY <1>1, <1>2, <2>2 DEF PushInto
    <3>2. /\ Len(ring') = Len(ring) + 1 /\ ring'[Len(ring) + 1] = x
          /\ \A i \in 1..Len(ring) : ring'[i] = ring[i]
      BY <1>0, <1>2, <3>1
    <3>3. Len(ring) = copies /\ copies < RingDepth
      BY <1>0, <2>2, DepthPositive DEF RingInv
    <3>4. \A i \in 1..Len(ring') : ring'[i].id = i
      <4> SUFFICES ASSUME NEW i \in 1..(Len(ring) + 1)
                   PROVE  ring'[i].id = i
        BY <3>2
      <4>1. CASE i = Len(ring) + 1
        BY <1>2, <3>2, <3>3, <4>1
      <4>2. CASE i # Len(ring) + 1
        <5>1. i \in 1..Len(ring)
          BY <1>0, <4>2
        <5>2. ring'[i].id = copies - Len(ring) + i
          BY <3>2, <5>1 DEF RingInv
        <5> QED
          BY <1>0, <3>3, <5>2
      <4> QED
        BY <4>1, <4>2
    <3>5. Len(ring') = IF copies' < RingDepth THEN copies' ELSE RingDepth
      BY <1>0, <1>1, <3>2, <3>3, DepthPositive
    <3>6. \A i \in 1..Len(ring') : ring'[i].id = copies' - Len(ring') + i
      BY <1>0, <1>1, <3>2, <3>3, <3>4
    <3> QED
      BY <3>5, <3>6 DEF RingInv
  <2> QED
    BY <2>1, <2>2
<1>4. ASSUME NEW a \in 1..copies, ~Holds(ring, a)
      PROVE  ~Holds(ring', a)
  <2> SUFFICES ASSUME NEW i \in 1..Len(ring'), ring'[i].id = a
               PROVE  FALSE
    BY DEF Holds
  <2>1. a <= copies - Len(ring)
    BY <1>0, <1>4, HeldOnes
  <2>2. a = copies' - Len(ring') + i
    BY <1>3 DEF RingInv
  <2>3. Len(ring') \in Nat /\ Len(ring') <= Len(ring) + 1
    <3>1. Len(ring) = IF copies < RingDepth THEN copies ELSE RingDepth
      BY DEF RingInv
    <3>2. Len(ring') = IF copies' < RingDepth THEN copies' ELSE RingDepth
      BY <1>3 DEF RingInv
    <3> QED
      BY <1>0, <1>1, <3>1, <3>2, DepthPositive
  <2> QED
    BY <1>0, <1>1, <2>1, <2>2, <2>3
<1> QED
  BY <1>1, <1>3, <1>4

(* What a call that has returned told the phone of the staged clips. *)
AnswerTrue(r) ==
  /\ r.op.kind = "list" /\ r.out = "Ok" => \E k \in r.op.since..copies : r.ids = IdsAt(k)
  /\ r.op.kind = "item" /\ r.out = "Gone" => ~Holds(ring, r.op.arg)

(* StageAnswersTrue, call by call. *)
LEMMA StageAlt ==
  StageAnswersTrue <=>
    \A c \in Conns : \A i \in 1..Len(done[c]) :
      NoneTimedOut(c, i - 1) => AnswerTrue(done[c][i])
BY DEF StageAnswersTrue, ListIsCurrent, GoneIsTrue, AnswerTrue

(* The same after a step. *)
LEMMA StageAltNext ==
  ASSUME \A c \in Conns : \A i \in 1..Len(done'[c]) :
           (\A j \in 1..(i - 1) : done'[c][j].out # "TimedOut") => AnswerTrue(done[c][i])'
  PROVE  StageAnswersTrue'
BY DEF StageAnswersTrue, ListIsCurrent, GoneIsTrue, AnswerTrue, NoneTimedOut

(* No call returns, and nothing is copied. *)
LEMMA AnswersSame ==
  ASSUME StageAnswersTrue, CallsOk, done' = done, ring' = ring, copies' = copies,
         \A c \in Conns : CallOk(phone'[c].op, copies)
  PROVE  StageAnswersTrue' /\ CallsOk'
<1>1. StageAnswersTrue'
  BY DEF StageAnswersTrue, ListIsCurrent, GoneIsTrue, NoneTimedOut
<1>2. CallsOk'
  BY DEF CallsOk, CallOk
<1> QED
  BY <1>1, <1>2

(* A call returns. *)
LEMMA AnswersReturned ==
  ASSUME TypeOK, StageAnswersTrue, CallsOk, ring' = ring, copies' = copies,
         NEW c \in Conns, NEW op \in Calls, NEW out \in Outcomes, NEW ids \in Seq(Nat),
         Returned(c, op, out, ids), CallOk(op, copies),
         NoneTimedOut(c, Len(done[c])) => AnswerTrue([op |-> op, out |-> out, ids |-> ids]),
         \A d \in Conns : CallOk(phone'[d].op, copies)
  PROVE  StageAnswersTrue' /\ CallsOk'
<1> DEFINE r == [op |-> op, out |-> out, ids |-> ids]
<1>0. r \in Results /\ r.op = op /\ (NoneTimedOut(c, Len(done[c])) => AnswerTrue(r))
  BY DEF Results
<1>1. done' = [done EXCEPT ![c] = Append(@, r)]
  BY DEF Returned
<1> HIDE DEF r
<1>2. done \in [Conns -> Seq(Results)]
  BY Typed
<1>3. ASSUME NEW d \in Conns, NEW i \in 1..Len(done'[d])
      PROVE  \/ /\ d = c /\ i = Len(done[c]) + 1 /\ done'[d][i] = r
                /\ \A j \in 1..(i - 1) : done'[d][j] = done[d][j]
             \/ /\ i \in 1..Len(done[d])
                /\ \A j \in 1..i : done'[d][j] = done[d][j]
  <2>1. done[d] \in Seq(Results) /\ Len(done[d]) \in Nat
    BY <1>2
  <2>2. CASE d # c
    BY <1>1, <1>2, <2>1, <2>2
  <2>3. CASE d = c
    <3>1. /\ Len(done'[c]) = Len(done[c]) + 1 /\ done'[c][Len(done[c]) + 1] = r
          /\ \A j \in 1..Len(done[c]) : done'[c][j] = done[c][j]
      BY <1>0, <1>1, <1>2, <2>1, <2>3
    <3>2. CASE i = Len(done[c]) + 1
      <4>1. \A j \in 1..(i - 1) : done'[d][j] = done[d][j]
        BY <2>1, <2>3, <3>1, <3>2
      <4> QED
        BY <2>3, <3>1, <3>2, <4>1
    <3>3. CASE i # Len(done[c]) + 1
      <4>1. i \in 1..Len(done[d])
        BY <2>1, <2>3, <3>1, <3>3
      <4>2. \A j \in 1..i : done'[d][j] = done[d][j]
        BY <2>1, <2>3, <3>1, <4>1
      <4> QED
        BY <4>1, <4>2
    <3> QED
      BY <3>2, <3>3
  <2> QED
    BY <2>2, <2>3
<1>4. StageAnswersTrue'
  <2> SUFFICES ASSUME NEW d \in Conns, NEW i \in 1..Len(done'[d]),
                      \A j \in 1..(i - 1) : done'[d][j].out # "TimedOut"
               PROVE  AnswerTrue(done[d][i])'
    BY StageAltNext
  <2>1. CASE /\ d = c /\ i = Len(done[c]) + 1 /\ done'[d][i] = r
             /\ \A j \in 1..(i - 1) : done'[d][j] = done[d][j]
    <3>1. i - 1 = Len(done[c]) /\ NoneTimedOut(c, Len(done[c]))
      BY <1>2, <2>1 DEF NoneTimedOut
    <3>2. AnswerTrue(r)
      BY <1>0, <3>1
    <3> QED
      BY <2>1, <3>2 DEF AnswerTrue
  <2>2. CASE /\ i \in 1..Len(done[d])
             /\ \A j \in 1..i : done'[d][j] = done[d][j]
    <3>1. done'[d][i] = done[d][i] /\ NoneTimedOut(d, i - 1)
      <4>1. i \in 1..i /\ \A j \in 1..(i - 1) : j \in 1..i
        BY <2>2
      <4> QED
        BY <2>2, <4>1 DEF NoneTimedOut
    <3>2. AnswerTrue(done[d][i])
      BY <2>2, <3>1, StageAlt
    <3> QED
      BY <3>1, <3>2 DEF AnswerTrue
  <2> QED
    BY <1>3, <2>1, <2>2
<1>5. CallsOk'
  <2>1. ASSUME NEW d \in Conns, NEW i \in 1..Len(done'[d])
        PROVE  CallOk(done'[d][i].op, copies)
    <3>1. \/ done'[d][i] = r
          \/ i \in 1..Len(done[d]) /\ done'[d][i] = done[d][i]
      BY <1>3
    <3> QED
      BY <1>0, <3>1 DEF CallsOk
  <2> QED
    BY <2>1 DEF CallsOk
<1> QED
  BY <1>4, <1>5

(* Everything of the other connections stays as it is. *)
OnlyConn(c) ==
  \A d \in Conns \ {c} :
    /\ phone'[d] = phone[d] /\ done'[d] = done[d] /\ task'[d] = task[d]
    /\ toPc'[d] = toPc[d] /\ toPhone'[d] = toPhone[d]

(* A step of one connection leaves the others in step. *)
LEMMA OnePipe ==
  ASSUME PipeInv, NEW c \in Conns, OnlyConn(c), ring' = ring, copies' = copies,
         InStep(c)' => OneUnderWay(c)',
         phone'[c].st \in {"new", "opening"} => phone'[c].sess # "Closed"
  PROVE  PipeInv'
<1> SUFFICES ASSUME NEW d \in Conns
             PROVE  /\ InStep(d)' => OneUnderWay(d)'
                    /\ phone'[d].st \in {"new", "opening"} => phone'[d].sess # "Closed"
  BY DEF PipeInv
<1>1. CASE d = c
  BY <1>1
<1>2. CASE d # c
  <2>1. /\ phone'[d] = phone[d] /\ done'[d] = done[d] /\ task'[d] = task[d]
        /\ toPc'[d] = toPc[d] /\ toPhone'[d] = toPhone[d]
    BY <1>2 DEF OnlyConn
  <2>2. InStep(d)' => InStep(d)
    BY <2>1 DEF InStep, NoneTimedOut
  <2>3. OneUnderWay(d) => OneUnderWay(d)'
    BY <2>1 DEF OneUnderWay, Asks, Answers
  <2> QED
    BY <2>1, <2>2, <2>3 DEF PipeInv
<1> QED
  BY <1>1, <1>2

(* The only frame of a stream is taken off it, or put on an empty one. *)
LEMMA ShortStream ==
  ASSUME NEW s \in Seq(Frames), NEW f \in Frames
  PROVE  /\ s # <<>> /\ Len(s) <= 1 => Tail(s) = <<>> /\ Len(s) = 1 /\ Head(s) = s[1]
         /\ s = <<>> => /\ Append(s, f) = <<f>> /\ Len(Append(s, f)) = 1
                        /\ Append(s, f)[1] = f
<1>1. ASSUME s # <<>>, Len(s) <= 1
      PROVE  Tail(s) = <<>> /\ Len(s) = 1 /\ Head(s) = s[1]
  <2>1. Len(s) \in Nat /\ Len(s) # 0
    BY <1>1
  <2>2. Len(s) = 1
    <3> DEFINE n == Len(s)
    <3>1. n \in Nat /\ n # 0 /\ n <= 1
      BY <1>1, <2>1
    <3> HIDE DEF n
    <3>2. n = 1
      BY <3>1
    <3> QED
      BY <3>2 DEF n
  <2>3. Tail(s) \in Seq(Frames) /\ Len(Tail(s)) = 0
    BY <1>1, <2>2
  <2>4. Tail(s) = <<>>
    BY <2>3, EmptySeq
  <2> QED
    BY <2>2, <2>4
<1>2. ASSUME s = <<>>
      PROVE  Append(s, f) = <<f>> /\ Len(Append(s, f)) = 1 /\ Append(s, f)[1] = f
  BY <1>2
<1> QED
  BY <1>1, <1>2

(* A step of one connection in which no call returns. *)
LEMMA QuietStep ==
  ASSUME TypeOK, StageInv, NEW c \in Conns, OnlyConn(c), done' = done,
         ring' = ring, copies' = copies, CallOk(phone'[c].op, copies),
         InStep(c)' => OneUnderWay(c)',
         phone'[c].st \in {"new", "opening"} => phone'[c].sess # "Closed"
  PROVE  StageInv'
<1>1. \A d \in Conns : CallOk(phone'[d].op, copies)
  BY DEF StageInv, CallsOk, OnlyConn
<1>2. StageAnswersTrue' /\ CallsOk'
  BY <1>1, AnswersSame DEF StageInv
<1>3. PipeInv'
  BY OnePipe DEF StageInv
<1>4. RingInv'
  BY DEF StageInv, RingInv
<1> QED
  BY <1>2, <1>3, <1>4 DEF StageInv

(* A step that touches neither the streams, nor the phone's ends, nor the  *)
(* ring.                                                                   *)
LEMMA StillStage ==
  ASSUME TypeOK, StageInv,
         phone' = phone, done' = done, task' = task, toPc' = toPc, toPhone' = toPhone,
         ring' = ring, copies' = copies
  PROVE  StageInv'
<1>1. RingInv' /\ PipeInv'
  BY DEF StageInv, RingInv, PipeInv, InStep, NoneTimedOut, OneUnderWay, Asks, Answers
<1>2. \A c \in Conns : CallOk(phone'[c].op, copies)
  BY DEF StageInv, CallsOk
<1> QED
  BY <1>1, <1>2, AnswersSame DEF StageInv

(* A call returns: the earlier ones stay as they are. *)
LEMMA LongerDone ==
  ASSUME TypeOK, NEW c \in Conns, NEW op \in Calls, NEW out \in Outcomes, NEW ids \in Seq(Nat),
         Returned(c, op, out, ids)
  PROVE  /\ \A d \in Conns \ {c} : done'[d] = done[d]
         /\ NoneTimedOut(c, Len(done[c]))' => NoneTimedOut(c, Len(done[c])) /\ out # "TimedOut"
<1> DEFINE r == [op |-> op, out |-> out, ids |-> ids]
<1>0. r \in Results /\ r.out = out
  BY DEF Results
<1>1. done' = [done EXCEPT ![c] = Append(@, r)]
  BY DEF Returned
<1> HIDE DEF r
<1>2. done \in [Conns -> Seq(Results)] /\ done[c] \in Seq(Results) /\ Len(done[c]) \in Nat
  BY Typed
<1>3. /\ Len(done'[c]) = Len(done[c]) + 1 /\ done'[c][Len(done[c]) + 1] = r
      /\ \A j \in 1..Len(done[c]) : done'[c][j] = done[c][j]
  BY <1>0, <1>1, <1>2
<1>4. \A d \in Conns \ {c} : done'[d] = done[d]
  BY <1>1, <1>2
<1>5. ASSUME NoneTimedOut(c, Len(done[c]))'
      PROVE  NoneTimedOut(c, Len(done[c])) /\ out # "TimedOut"
  <2>1. \A i \in 1..(Len(done[c]) + 1) : done'[c][i].out # "TimedOut"
    BY <1>3, <1>5 DEF NoneTimedOut
  <2>2. Len(done[c]) + 1 \in 1..(Len(done[c]) + 1)
        /\ \A i \in 1..Len(done[c]) : i \in 1..(Len(done[c]) + 1)
    BY <1>2
  <2> QED
    BY <1>0, <1>3, <2>1, <2>2 DEF NoneTimedOut
<1> QED
  BY <1>4, <1>5

(* A step of one connection in which a call returns. *)
LEMMA ReturnStep ==
  ASSUME TypeOK, StageInv, NEW c \in Conns, OnlyConn(c), ring' = ring, copies' = copies,
         NEW op \in Calls, NEW out \in Outcomes, NEW ids \in Seq(Nat),
         Returned(c, op, out, ids), CallOk(op, copies), CallOk(phone'[c].op, copies),
         NoneTimedOut(c, Len(done[c])) => AnswerTrue([op |-> op, out |-> out, ids |-> ids]),
         InStep(c)' => OneUnderWay(c)',
         phone'[c].st \in {"new", "opening"} => phone'[c].sess # "Closed"
  PROVE  StageInv'
<1>1. \A d \in Conns : CallOk(phone'[d].op, copies)
  BY DEF StageInv, CallsOk, OnlyConn
<1>2. StageAnswersTrue' /\ CallsOk'
  BY <1>1, AnswersReturned DEF StageInv
<1>3. PipeInv'
  BY OnePipe DEF StageInv
<1>4. RingInv'
  BY DEF StageInv, RingInv
<1> QED
  BY <1>2, <1>3, <1>4 DEF StageInv

(* No call asks for anything that was not there. *)
LEMMA NoCallOk ==
  ASSUME TypeOK
  PROVE  CallOk(NoCall, copies)
<1>1. copies \in Nat
  BY Typed
<1> QED
  BY <1>1 DEF CallOk, NoCall

(* dial and start_phone. *)
LEMMA OpenStage ==
  ASSUME TypeOK, StageInv, NEW c \in Conns, PhoneOpen(c)
  PROVE  StageInv'
<1>1. /\ phone \in [Conns -> Ends] /\ task \in [Conns -> TaskStates]
      /\ toPc \in [Conns -> Seq(Frames)]
  BY Typed
<1>2. PICK f : toPc' = [toPc EXCEPT ![c] = <<f>>]
  BY DEF PhoneOpen
<1>3. /\ phone' = [phone EXCEPT ![c].st = "opening"] /\ phone[c].st = "new"
      /\ done' = done /\ toPhone' = toPhone /\ ring' = ring /\ copies' = copies
  BY DEF PhoneOpen, agentVars
<1>4. /\ phone'[c].st = "opening" /\ phone'[c].sess = phone[c].sess
      /\ phone'[c].op = phone[c].op
  BY <1>1, <1>3 DEF Ends
<1>5. OnlyConn(c)
  BY <1>1, <1>2, <1>3 DEF PhoneOpen, OnlyConn
<1>6. phone[c].sess # "Closed"
  BY <1>3 DEF StageInv, PipeInv
<1>7. ASSUME InStep(c)' PROVE OneUnderWay(c)'
  <2>1. InStep(c)
    BY <1>3, <1>6, <1>7 DEF InStep, NoneTimedOut
  <2>2. toPhone'[c] = <<>>
    BY <1>3, <2>1 DEF StageInv, PipeInv, OneUnderWay
  <2>3. toPc'[c] = <<f>>
    BY <1>1, <1>2
  <2> QED
    BY <1>4, <2>2, <2>3 DEF OneUnderWay
<1>8. CallOk(phone'[c].op, copies)
  BY <1>4 DEF StageInv, CallsOk
<1> QED
  BY <1>3, <1>4, <1>5, <1>6, <1>7, <1>8, QuietStep

(* The phone reads the HELLO_ACK: nothing else is under way. *)
LEMMA HelloAckStage ==
  ASSUME TypeOK, StageInv, NEW c \in Conns, PhoneHelloAck(c)
  PROVE  StageInv'
<1>1. phone \in [Conns -> Ends] /\ toPhone \in [Conns -> Seq(Frames)]
  BY Typed
<1>2. /\ phone[c].st = "opening" /\ toPhone[c] # <<>>
      /\ toPhone' = [toPhone EXCEPT ![c] = Tail(@)]
      /\ phone' = [phone EXCEPT ![c].st = "ready", ![c].sess = "Established"]
      /\ done' = done /\ task' = task /\ toPc' = toPc /\ ring' = ring /\ copies' = copies
  BY DEF PhoneHelloAck, agentVars
<1>3. /\ phone'[c].st = "ready" /\ phone'[c].sess = "Established"
      /\ phone'[c].op = phone[c].op
  BY <1>1, <1>2 DEF Ends
<1>4. OnlyConn(c)
  BY <1>1, <1>2 DEF OnlyConn
<1>5. phone[c].sess # "Closed"
  BY <1>2 DEF StageInv, PipeInv
<1>6. ASSUME InStep(c)' PROVE OneUnderWay(c)'
  <2>1. InStep(c)
    BY <1>2, <1>5, <1>6 DEF InStep, NoneTimedOut
  <2>2. OneUnderWay(c)
    BY <2>1 DEF StageInv, PipeInv
  <2>3. toPhone'[c] = <<>>
    <3>1. Len(toPhone[c]) <= 1 /\ toPhone[c] \in Seq(Frames) /\ Head(toPhone[c]) \in Frames
      BY <1>1, <1>2, <2>2 DEF OneUnderWay
    <3>2. Tail(toPhone[c]) = <<>>
      BY <1>2, <3>1, ShortStream
    <3> QED
      BY <1>1, <1>2, <3>2
  <2>4. task[c] # "gone" => toPc[c] = <<>>
    BY <1>2, <2>2 DEF OneUnderWay
  <2> QED
    BY <1>2, <1>3, <2>3, <2>4 DEF OneUnderWay
<1>7. CallOk(phone'[c].op, copies)
  BY <1>3 DEF StageInv, CallsOk
<1> QED
  BY <1>2, <1>3, <1>4, <1>6, <1>7, QuietStep

(* The phone lets go of the connection. *)
LEMMA LetGoStage ==
  ASSUME TypeOK, StageInv, NEW c \in Conns, PhoneOpenFails(c) \/ PhoneDrop(c)
  PROVE  StageInv'
<1>1. phone \in [Conns -> Ends]
  BY Typed
<1>2. /\ done' = done /\ task' = task /\ toPc' = toPc /\ toPhone' = toPhone
      /\ ring' = ring /\ copies' = copies
  BY DEF PhoneOpenFails, PhoneDrop, pcVars, agentVars
<1>3. /\ phone'[c].st = "closed" /\ phone'[c].op \in {phone[c].op, NoCall}
      /\ \A d \in Conns \ {c} : phone'[d] = phone[d]
  <2>1. CASE PhoneOpenFails(c)
    BY <1>1, <2>1 DEF PhoneOpenFails, Ends
  <2>2. CASE PhoneDrop(c)
    BY <1>1, <2>2 DEF PhoneDrop, Ends
  <2> QED
    BY <2>1, <2>2
<1>4. OnlyConn(c)
  BY <1>2, <1>3 DEF OnlyConn
<1>5. CallOk(phone'[c].op, copies)
  BY <1>3, NoCallOk DEF StageInv, CallsOk
<1>6. ~InStep(c)'
  BY <1>3 DEF InStep
<1> QED
  BY <1>2, <1>3, <1>4, <1>5, <1>6, QuietStep

(* A call writes its request on streams that are empty, or fails to. *)
LEMMA RequestStage ==
  ASSUME TypeOK, StageInv, NEW c \in Conns, NEW op \in Calls, NEW f \in Frames,
         phone[c].st = "ready", PhoneRequest(c, op, f), CallOk(op, copies), Asks(f, op),
         UNCHANGED pcVars, UNCHANGED agentVars
  PROVE  StageInv'
<1>1. /\ phone \in [Conns -> Ends] /\ toPc \in [Conns -> Seq(Frames)]
      /\ toPhone \in [Conns -> Seq(Frames)]
  BY Typed
<1>2. /\ task' = task /\ toPhone' = toPhone /\ ring' = ring /\ copies' = copies
  BY DEF pcVars, agentVars
<1>3. CASE /\ toPc' = [toPc EXCEPT ![c] = Append(@, f)]
           /\ phone' = [phone EXCEPT ![c].st = "waiting", ![c].op = op]
           /\ UNCHANGED done
  <2>1. phone'[c].st = "waiting" /\ phone'[c].sess = phone[c].sess /\ phone'[c].op = op
    BY <1>1, <1>3 DEF Ends
  <2>2. OnlyConn(c)
    BY <1>1, <1>2, <1>3 DEF OnlyConn
  <2>3. ASSUME InStep(c)' PROVE OneUnderWay(c)'
    <3>1. InStep(c)
      BY <1>3, <2>1, <2>3 DEF InStep, NoneTimedOut
    <3>2. toPhone[c] = <<>> /\ (task[c] = "gone" \/ toPc[c] = <<>>)
      BY <3>1 DEF StageInv, PipeInv, OneUnderWay
    <3>3. toPc[c] = <<>> => /\ Len(toPc'[c]) = 1 /\ toPc'[c][1] = f
      <4>1. toPc'[c] = Append(toPc[c], f) /\ toPc[c] \in Seq(Frames)
        BY <1>1, <1>3
      <4> QED
        BY <4>1, ShortStream
    <3>4. ASSUME task'[c] # "gone"
          PROVE  /\ Len(toPc'[c]) <= 1
                 /\ \A i \in 1..Len(toPc'[c]) : Asks(toPc'[c][i], op)
      <4>1. Len(toPc'[c]) = 1 /\ toPc'[c][1] = f
        BY <1>2, <3>2, <3>3, <3>4
      <4> QED
        BY <4>1
    <3>5. toPhone'[c] = <<>> /\ Len(toPhone'[c]) = 0
      BY <1>2, <3>2
    <3> QED
      BY <2>1, <3>4, <3>5 DEF OneUnderWay, Asks
  <2> QED
    BY <1>2, <1>3, <2>1, <2>2, <2>3, QuietStep
<1>4. CASE /\ task[c] = "gone"
           /\ Returned(c, op, "Protocol", <<>>)
           /\ phone' = [phone EXCEPT ![c].st = "closed"]
           /\ UNCHANGED toPc
  <2>1. phone'[c].st = "closed" /\ phone'[c].op = phone[c].op
    BY <1>1, <1>4 DEF Ends
  <2>2. "Protocol" \in Outcomes /\ <<>> \in Seq(Nat)
    BY DEF Outcomes
  <2>3. OnlyConn(c)
    BY <1>1, <1>2, <1>4, <2>2, LongerDone DEF OnlyConn
  <2>4. ~InStep(c)'
    BY <2>1 DEF InStep
  <2>5. CallOk(phone'[c].op, copies)
    BY <2>1 DEF StageInv, CallsOk
  <2>6. AnswerTrue([op |-> op, out |-> "Protocol", ids |-> <<>>])
    BY DEF AnswerTrue
  <2> QED
    BY <1>2, <1>4, <2>1, <2>2, <2>3, <2>4, <2>5, <2>6, ReturnStep
<1> QED
  BY <1>3, <1>4 DEF PhoneRequest

(* The three calls. *)
LEMMA CallStage ==
  ASSUME TypeOK, StageInv, NEW c \in Conns,
         \/ \E n \in Lens : PhoneBeam(c, n)
         \/ PhoneStageList(c)
         \/ \E id \in 1..copies : PhoneStageItem(c, id)
  PROVE  StageInv'
<1>0. copies \in Nat /\ done[c] \in Seq(Results) /\ Len(done[c]) + 1 \in Nat
  <2>1. copies \in Nat /\ done[c] \in Seq(Results)
    BY Typed
  <2> QED
    BY <2>1
<1>1. ASSUME NEW n \in Lens, PhoneBeam(c, n) PROVE StageInv'
  <2> DEFINE op == Call("beam", Len(done[c]) + 1)
  <2> DEFINE f == Frame("ClipPush", op.arg, n, <<>>)
  <2>1. op \in Calls /\ op.arg \in Nat /\ CallOk(op, copies) /\ op.kind = "beam"
    BY <1>0 DEF Call, Calls, CallOk
  <2>2. f \in Frames /\ Asks(f, op)
    BY <2>1, SessionAssumption DEF Frame, Frames, PcBound, Asks
  <2>3. phone[c].st = "ready" /\ UNCHANGED pcVars /\ UNCHANGED agentVars
    BY <1>1 DEF PhoneBeam, CanCall
  <2>4. CASE PhoneRequest(c, op, f)
    <3> HIDE DEF op, f
    <3> QED
      BY <2>1, <2>2, <2>3, <2>4, RequestStage
  <2>5. CASE Returned(c, op, "TooLarge", <<>>) /\ UNCHANGED <<phone, toPc>>
    <3> HIDE DEF op, f
    <3>1. "TooLarge" \in Outcomes /\ "TooLarge" # "TimedOut" /\ <<>> \in Seq(Nat)
      BY DEF Outcomes
    <3>2. /\ phone' = phone /\ toPc' = toPc /\ task' = task /\ toPhone' = toPhone
          /\ ring' = ring /\ copies' = copies
      BY <2>3, <2>5 DEF pcVars, agentVars
    <3>3. OnlyConn(c)
      BY <2>1, <2>5, <3>1, <3>2, LongerDone DEF OnlyConn
    <3>4. ASSUME InStep(c)' PROVE OneUnderWay(c)'
      <4>1. NoneTimedOut(c, Len(done[c]))' => NoneTimedOut(c, Len(done[c]))
        BY <2>1, <2>5, <3>1, LongerDone
      <4>2. InStep(c)
        BY <3>2, <3>4, <4>1 DEF InStep
      <4>3. OneUnderWay(c)
        BY <4>2 DEF StageInv, PipeInv
      <4> QED
        BY <3>2, <4>3 DEF OneUnderWay, Asks, Answers
    <3>5. CallOk(phone'[c].op, copies)
      BY <3>2 DEF StageInv, CallsOk
    <3>6. AnswerTrue([op |-> op, out |-> "TooLarge", ids |-> <<>>])
      BY <2>1 DEF AnswerTrue
    <3>7. phone'[c].st \in {"new", "opening"} => phone'[c].sess # "Closed"
      BY <3>2 DEF StageInv, PipeInv
    <3> QED
      BY <2>1, <2>5, <3>1, <3>2, <3>3, <3>4, <3>5, <3>6, <3>7, ReturnStep
  <2> QED
    BY <1>1, <2>4, <2>5 DEF PhoneBeam
<1>2. CASE PhoneStageList(c)
  <2> DEFINE op == Call("list", 0)
  <2> DEFINE f == Frame("StageListReq", 0, 0, <<>>)
  <2>1. op \in Calls /\ CallOk(op, copies)
    BY <1>0 DEF Call, Calls, CallOk
  <2>2. f \in Frames /\ Asks(f, op)
    BY DEF Frame, Frames, PcBound, Asks, Call
  <2>3. /\ phone[c].st = "ready" /\ UNCHANGED pcVars /\ UNCHANGED agentVars
        /\ PhoneRequest(c, op, f)
    BY <1>2 DEF PhoneStageList, CanCall
  <2> HIDE DEF op, f
  <2> QED
    BY <2>1, <2>2, <2>3, RequestStage
<1>3. ASSUME NEW id \in 1..copies, PhoneStageItem(c, id) PROVE StageInv'
  <2> DEFINE op == Call("item", id)
  <2> DEFINE f == Frame("StageGet", id, 0, <<>>)
  <2>0. id \in Nat
    BY <1>0
  <2>1. op \in Calls /\ CallOk(op, copies)
    BY <1>0, <2>0 DEF Call, Calls, CallOk
  <2>2. f \in Frames /\ Asks(f, op)
    BY <2>0 DEF Frame, Frames, PcBound, Asks, Call
  <2>3. /\ phone[c].st = "ready" /\ UNCHANGED pcVars /\ UNCHANGED agentVars
        /\ PhoneRequest(c, op, f)
    BY <1>3 DEF PhoneStageItem, CanCall
  <2> HIDE DEF op, f
  <2> QED
    BY <2>1, <2>2, <2>3, RequestStage
<1> QED
  BY <1>1, <1>2, <1>3

(* What the calls make of a STAGE_LIST: the only answer on which stage_list *)
(* returns Ok and stage_item returns Gone.                                  *)
LEMMA OnReplyStage ==
  ASSUME NEW op \in Calls, NEW sess \in SessStates, NEW f \in Frames
  PROVE  /\ OnReply(op, sess, f) \in Outcomes \cup {"Wait"}
         /\ OnReply(op, sess, f) # "TimedOut"
         /\ \/ op.kind = "list" /\ OnReply(op, sess, f) = "Ok"
            \/ op.kind = "item" /\ OnReply(op, sess, f) = "Gone"
            => f.ty = "StageList" /\ sess # "Closed"
<1>1. OnReply(op, sess, f) \in Outcomes \cup {"Wait"}
  BY OnReplyResult
<1>2. OnReply(op, sess, f) # "TimedOut"
  BY DEF OnReply
<1>3. ASSUME OnReply(op, sess, f) = "Gone"
      PROVE  f.ty = "StageList" /\ sess # "Closed"
  BY <1>3 DEF OnReply
<1>4. ASSUME op.kind = "list", OnReply(op, sess, f) = "Ok"
      PROVE  f.ty = "StageList" /\ sess # "Closed"
  BY <1>4 DEF OnReply
<1> QED
  BY <1>1, <1>2, <1>3, <1>4

(* A call reads the only frame that is under way. *)
LEMMA ReceiveStage ==
  ASSUME TypeOK, StageInv, NEW c \in Conns, PhoneReceive(c)
  PROVE  StageInv'
<1> DEFINE f == Head(toPhone[c])
<1> DEFINE op == phone[c].op
<1> DEFINE out == OnReply(op, phone[c].sess, f)
<1>1. /\ phone \in [Conns -> Ends] /\ toPhone \in [Conns -> Seq(Frames)]
      /\ toPhone[c] \in Seq(Frames)
  BY Typed
<1>2. /\ phone[c].st = "waiting" /\ toPhone[c] # <<>>
      /\ toPhone' = [toPhone EXCEPT ![c] = Tail(@)]
      /\ task' = task /\ toPc' = toPc /\ ring' = ring /\ copies' = copies
  BY DEF PhoneReceive, agentVars
<1>3. f \in Frames /\ f = toPhone[c][1] /\ f.ids \in Seq(Nat)
  <2>1. f \in Frames /\ f = toPhone[c][1]
    BY <1>2, HeadOfStream
  <2> QED
    BY <2>1 DEF Frames
<1>4. op \in Calls /\ phone[c].sess \in SessStates /\ CallOk(op, copies)
  BY EndType DEF StageInv, CallsOk
<1>5. ASSUME InStep(c)
      PROVE  /\ toPhone'[c] = <<>> /\ (task[c] = "gone" \/ toPc[c] = <<>>)
             /\ Answers(f, op)
  <2>1. OneUnderWay(c)
    BY <1>5 DEF StageInv, PipeInv
  <2>2. Len(toPhone[c]) <= 1
    BY <2>1 DEF OneUnderWay
  <2>3. Tail(toPhone[c]) = <<>> /\ Len(toPhone[c]) = 1
    BY <1>1, <1>2, <1>3, <2>2, ShortStream
  <2>4. Answers(f, op)
    BY <1>2, <1>3, <2>1, <2>3 DEF OneUnderWay
  <2> QED
    BY <1>1, <1>2, <2>1, <2>3, <2>4 DEF OneUnderWay
<1>6. CASE out = "Wait" /\ UNCHANGED <<phone, done>>
  <2>1. OnlyConn(c)
    BY <1>1, <1>2, <1>6 DEF OnlyConn
  <2>2. ASSUME InStep(c)' PROVE OneUnderWay(c)'
    <3>1. InStep(c)
      BY <1>6, <2>2 DEF InStep, NoneTimedOut
    <3>2. toPhone'[c] = <<>> /\ (task[c] = "gone" \/ toPc[c] = <<>>)
      BY <1>5, <3>1
    <3> QED
      BY <1>2, <1>6, <3>2 DEF OneUnderWay
  <2>3. phone'[c].st \notin {"new", "opening"} /\ CallOk(phone'[c].op, copies)
    BY <1>2, <1>4, <1>6
  <2> QED
    BY <1>2, <1>6, <2>1, <2>2, <2>3, QuietStep
<1>7. CASE /\ out # "Wait"
           /\ Returned(c, op, out, f.ids)
           /\ phone' = [phone EXCEPT ![c] = [st |-> AfterReturn(out),
                                             sess |-> SessAfter(@.sess, f),
                                             op |-> NoCall]]
  <2>0. /\ out \in Outcomes /\ out # "TimedOut"
        /\ \/ op.kind = "list" /\ out = "Ok"
           \/ op.kind = "item" /\ out = "Gone"
           => f.ty = "StageList" /\ phone[c].sess # "Closed"
    BY <1>3, <1>4, <1>7, OnReplyStage
  <2>1. /\ phone'[c].st = AfterReturn(out) /\ phone'[c].op = NoCall
        /\ phone'[c].sess = SessAfter(phone[c].sess, f)
        /\ \A d \in Conns \ {c} : phone'[d] = phone[d]
    BY <1>1, <1>7
  <2> HIDE DEF f, op, out
  <2>2. OnlyConn(c)
    BY <1>1, <1>2, <1>3, <1>4, <1>7, <2>0, <2>1, LongerDone DEF OnlyConn
  <2>3. ASSUME InStep(c)' PROVE OneUnderWay(c)'
    <3>1. NoneTimedOut(c, Len(done[c]))
      BY <1>3, <1>4, <1>7, <2>0, <2>3, LongerDone DEF InStep
    <3>2. phone[c].sess # "Closed"
      BY <2>1, <2>3 DEF InStep, SessAfter
    <3>3. InStep(c)
      BY <1>2, <3>1, <3>2 DEF InStep
    <3>4. toPhone'[c] = <<>> /\ (task[c] = "gone" \/ toPc[c] = <<>>)
      BY <1>5, <3>3
    <3>5. phone'[c].st # "waiting"
      BY <2>1 DEF AfterReturn
    <3> QED
      BY <1>2, <3>4, <3>5 DEF OneUnderWay
  <2>4. ASSUME NoneTimedOut(c, Len(done[c]))
        PROVE  AnswerTrue([op |-> op, out |-> out, ids |-> f.ids])
    <3>1. CASE \/ op.kind = "list" /\ out = "Ok"
               \/ op.kind = "item" /\ out = "Gone"
      <4>1. f.ty = "StageList" /\ phone[c].sess # "Closed"
        BY <2>0, <3>1
      <4>2. InStep(c)
        BY <1>2, <2>4, <4>1 DEF InStep
      <4>3. Answers(f, op)
        BY <1>5, <4>2
      <4> QED
        BY <4>1, <4>3 DEF Answers, AnswerTrue
    <3>2. CASE ~(\/ op.kind = "list" /\ out = "Ok"
                 \/ op.kind = "item" /\ out = "Gone")
      BY <3>2 DEF AnswerTrue
    <3> QED
      BY <3>1, <3>2
  <2>5. phone'[c].st \notin {"new", "opening"}
    BY <2>1 DEF AfterReturn
  <2>6. CallOk(phone'[c].op, copies)
    BY <2>1, NoCallOk
  <2> QED
    BY <1>2, <1>3, <1>4, <1>7, <2>0, <2>2, <2>3, <2>4, <2>5, <2>6, ReturnStep
<1> QED
  BY <1>6, <1>7 DEF PhoneReceive

(* A call returns without a frame: at the end of the stream nothing is     *)
(* under way; otherwise the connection is given up or out of step.         *)
LEMMA EmptyStage ==
  ASSUME TypeOK, StageInv, NEW c \in Conns, NEW out \in {"Closed", "Protocol", "TimedOut"},
         PhoneReturnsEmpty(c, out),
         out = "Closed" => task[c] = "gone" /\ toPhone[c] = <<>>
  PROVE  StageInv'
<1>1. phone \in [Conns -> Ends]
  BY Typed
<1>2. /\ phone[c].st = "waiting" /\ Returned(c, phone[c].op, out, <<>>)
      /\ phone' = [phone EXCEPT ![c].st = AfterReturn(out), ![c].op = NoCall]
      /\ task' = task /\ toPc' = toPc /\ toPhone' = toPhone /\ ring' = ring /\ copies' = copies
  BY DEF PhoneReturnsEmpty, pcVars, agentVars
<1>3. /\ phone'[c].st = AfterReturn(out) /\ phone'[c].op = NoCall
      /\ \A d \in Conns \ {c} : phone'[d] = phone[d]
  BY <1>1, <1>2 DEF Ends
<1>4. out \in Outcomes /\ <<>> \in Seq(Nat) /\ phone[c].op \in Calls /\ CallOk(phone[c].op, copies)
  BY EndType DEF Outcomes, StageInv, CallsOk
<1>5. OnlyConn(c)
  BY <1>2, <1>3, <1>4, LongerDone DEF OnlyConn
<1>6. ASSUME InStep(c)' PROVE OneUnderWay(c)'
  <2>1. out # "TimedOut"
    BY <1>2, <1>4, <1>6, LongerDone DEF InStep
  <2>2. out # "Protocol"
    BY <1>3, <1>6 DEF InStep, AfterReturn
  <2>3. task'[c] = "gone" /\ toPhone'[c] = <<>> /\ Len(toPhone'[c]) = 0
    BY <1>2, <2>1, <2>2
  <2>4. phone'[c].st = "ready"
    BY <1>3, <2>2 DEF AfterReturn
  <2> QED
    BY <2>3, <2>4 DEF OneUnderWay
<1>7. AnswerTrue([op |-> phone[c].op, out |-> out, ids |-> <<>>])
  BY DEF AnswerTrue
<1>8. phone'[c].st \notin {"new", "opening"} /\ CallOk(phone'[c].op, copies)
  BY <1>3, NoCallOk DEF AfterReturn
<1> QED
  BY <1>2, <1>4, <1>5, <1>6, <1>7, <1>8, ReturnStep

(* The phone's steps keep what is under way in step with its calls. *)
LEMMA PhoneStage ==
  ASSUME TypeOK, StageInv, NEW c \in Conns, PhoneNext(c)
  PROVE  StageInv'
<1>1. CASE PhoneEof(c) \/ PhoneReset(c) \/ PhoneTimeout(c)
  <2>1. PICK out \in {"Closed", "Protocol", "TimedOut"} :
          /\ PhoneReturnsEmpty(c, out)
          /\ out = "Closed" => task[c] = "gone" /\ toPhone[c] = <<>>
    BY <1>1 DEF PhoneEof, PhoneReset, PhoneTimeout
  <2> QED
    BY <2>1, EmptyStage
<1>2. CASE PhoneOpen(c) \/ PhoneHelloAck(c) \/ PhoneOpenFails(c) \/ PhoneDrop(c)
  BY <1>2, OpenStage, HelloAckStage, LetGoStage
<1>3. CASE \/ \E n \in Lens : PhoneBeam(c, n)
           \/ PhoneStageList(c)
           \/ \E id \in 1..copies : PhoneStageItem(c, id)
  BY <1>3, CallStage
<1>4. CASE PhoneReceive(c)
  BY <1>4, ReceiveStage
<1> QED
  BY <1>1, <1>2, <1>3, <1>4 DEF PhoneNext

(* The PC's task answers the only frame under way with one of its own. *)
LEMMA WriteStage ==
  ASSUME TypeOK, StageInv, NEW c \in Conns, NEW g \in Frames,
         task[c] # "gone", toPc[c] # <<>>,
         toPc' = [toPc EXCEPT ![c] = Tail(@)],
         toPhone' = [toPhone EXCEPT ![c] = Append(@, g)],
         \A d \in Conns \ {c} : task'[d] = task[d],
         phone[c].st = "waiting" /\ Asks(Head(toPc[c]), phone[c].op) => Answers(g, phone[c].op),
         UNCHANGED pcFrame, UNCHANGED agentVars
  PROVE  StageInv'
<1>1. toPc \in [Conns -> Seq(Frames)] /\ toPhone \in [Conns -> Seq(Frames)]
  BY Typed
<1>2. phone' = phone /\ done' = done /\ ring' = ring /\ copies' = copies
  BY DEF pcFrame, agentVars
<1>3. OnlyConn(c)
  BY <1>1, <1>2 DEF OnlyConn
<1>4. ASSUME InStep(c)' PROVE OneUnderWay(c)'
  <2>1. InStep(c)
    BY <1>2, <1>4 DEF InStep, NoneTimedOut
  <2>2. OneUnderWay(c)
    BY <2>1 DEF StageInv, PipeInv
  <2>3. /\ Len(toPc[c]) <= 1 /\ toPhone[c] = <<>>
        /\ phone[c].st \notin {"new", "ready"}
    BY <2>2 DEF OneUnderWay
  <2>4. toPc'[c] = <<>> /\ Len(toPc[c]) = 1 /\ Head(toPc[c]) = toPc[c][1]
    <3>1. Tail(toPc[c]) = <<>> /\ Len(toPc[c]) = 1 /\ Head(toPc[c]) = toPc[c][1]
      BY <1>1, <2>3, ShortStream
    <3> QED
      BY <1>1, <3>1
  <2>5. toPhone'[c] = <<g>> /\ Len(toPhone'[c]) = 1 /\ toPhone'[c][1] = g
    <3>1. toPhone'[c] = Append(toPhone[c], g) /\ toPhone[c] \in Seq(Frames)
      BY <1>1
    <3> QED
      BY <2>3, <3>1, ShortStream
  <2>6. phone[c].st = "waiting" => Answers(g, phone[c].op)
    <3>1. phone[c].st = "waiting" => Asks(toPc[c][1], phone[c].op)
      BY <2>2, <2>4 DEF OneUnderWay
    <3> QED
      BY <2>4, <3>1
  <2>7. phone[c].st = "waiting" => \A i \in 1..Len(toPhone'[c]) : Answers(toPhone'[c][i], phone[c].op)
    BY <2>5, <2>6
  <2>8. toPc'[c] = <<>> /\ Len(toPc'[c]) = 0 /\ Len(toPhone'[c]) <= 1
    BY <2>4, <2>5
  <2> QED
    BY <1>2, <2>3, <2>7, <2>8 DEF OneUnderWay, Answers
<1>5. CallOk(phone'[c].op, copies)
  BY <1>2 DEF StageInv, CallsOk
<1>6. phone'[c].st \in {"new", "opening"} => phone'[c].sess # "Closed"
  BY <1>2 DEF StageInv, PipeInv
<1> QED
  BY <1>2, <1>3, <1>4, <1>5, <1>6, QuietStep

(* The PC's task ends: what it wrote stays under way, what it did not read *)
(* is never answered.                                                      *)
LEMMA GoneStage ==
  ASSUME TypeOK, StageInv, NEW c \in Conns, toPhone' = toPhone,
         task' = [task EXCEPT ![c] = "gone"],
         \/ toPc' = toPc
         \/ toPc' = [toPc EXCEPT ![c] = Tail(@)],
         UNCHANGED pcFrame, UNCHANGED agentVars
  PROVE  StageInv'
<1>1. toPc \in [Conns -> Seq(Frames)] /\ task \in [Conns -> TaskStates]
  BY Typed
<1>2. phone' = phone /\ done' = done /\ ring' = ring /\ copies' = copies
  BY DEF pcFrame, agentVars
<1>3. OnlyConn(c) /\ task'[c] = "gone"
  BY <1>1, <1>2 DEF OnlyConn
<1>4. ASSUME InStep(c)' PROVE OneUnderWay(c)'
  <2>1. InStep(c)
    BY <1>2, <1>4 DEF InStep, NoneTimedOut
  <2>2. OneUnderWay(c)
    BY <2>1 DEF StageInv, PipeInv
  <2> QED
    BY <1>2, <1>3, <2>2 DEF OneUnderWay, Answers
<1>5. CallOk(phone'[c].op, copies)
  BY <1>2 DEF StageInv, CallsOk
<1>6. phone'[c].st \in {"new", "opening"} => phone'[c].sess # "Closed"
  BY <1>2 DEF StageInv, PipeInv
<1> QED
  BY <1>2, <1>3, <1>4, <1>5, <1>6, QuietStep

(* handle_event's answer to a stage request is an answer to its call. *)
LEMMA ReplyAnswers ==
  ASSUME TypeOK, StageInv, NEW f \in Frames, NEW op \in Calls,
         f.ty \in {"StageListReq", "StageGet"}, Asks(f, op), CallOk(op, copies)
  PROVE  Answers(StageReply(f), op)
<1>0. copies \in Nat /\ op.since \in Nat
  BY Typed DEF Calls
<1>1. CASE f.ty = "StageListReq"
  <2>1. op.kind = "list"
    BY <1>1 DEF Asks
  <2>2. StageReply(f).ids = IdsAt(copies)
    BY <1>1, ListedOnes DEF StageReply, Frame, StageInv
  <2>3. copies \in op.since..copies
    BY <1>0 DEF CallOk
  <2> QED
    BY <2>1, <2>2, <2>3 DEF Answers
<1>2. CASE f.ty = "StageGet" /\ Holds(ring, f.arg)
  BY <1>2 DEF Answers, StageReply, Frame
<1>3. CASE f.ty = "StageGet" /\ ~Holds(ring, f.arg)
  BY <1>3 DEF Answers, Asks
<1> QED
  BY <1>1, <1>2, <1>3

(* A task that handles a frame is there, and only its connection changes. *)
LEMMA HandlesStage ==
  ASSUME TypeOK, NEW c \in Conns, NEW st \in {"AwaitingHello", "Established"}, NEW ty,
         Handles(c, st, ty)
  PROVE  /\ task[c] = st /\ task[c] # "gone" /\ toPc[c] # <<>>
         /\ toPc' = [toPc EXCEPT ![c] = Tail(@)]
         /\ Head(toPc[c]) \in Frames /\ Head(toPc[c]).ty = ty
BY HandlesType DEF Handles

(* The PC's answers to HELLO, CLIP_PUSH and the stage requests. *)
LEMMA PcAnswerStage ==
  ASSUME TypeOK, StageInv, NEW c \in Conns, NEW ok \in BOOLEAN,
         PcHello(c, ok) \/ PcClipPush(c, ok) \/ PcRefuseClip(c, ok) \/ PcStage(c, ok)
  PROVE  StageInv'
<1> DEFINE f == Head(toPc[c])
<1>1. /\ task[c] # "gone" /\ toPc[c] # <<>> /\ toPc' = [toPc EXCEPT ![c] = Tail(@)]
      /\ f \in Frames
  <2>1. PICK st \in {"AwaitingHello", "Established"} : \E ty : Handles(c, st, ty)
    BY DEF PcHello, PcClipPush, PcRefuseClip, PcStage
  <2> QED
    BY <2>1, HandlesStage
<1>2. UNCHANGED pcFrame /\ UNCHANGED agentVars /\ task \in [Conns -> TaskStates]
  BY Typed DEF PcHello, PcClipPush, PcRefuseClip, PcStage
<1>3. f.arg \in Nat
  BY <1>1 DEF Frames
<1>4. CASE ok
  <2>1. PICK g \in Frames :
          /\ toPhone' = [toPhone EXCEPT ![c] = Append(@, g)]
          /\ phone[c].st = "waiting" /\ Asks(f, phone[c].op) => Answers(g, phone[c].op)
    <3>1. CASE PcHello(c, ok)
      <4> DEFINE g == Frame("HelloAck", 0, 0, <<>>)
      <4>1. g \in Frames /\ g.ty # "StageList"
        BY DEF Frame, Frames, PhoneBound
      <4>2. toPhone' = [toPhone EXCEPT ![c] = Append(@, g)]
        BY <1>4, <3>1 DEF PcHello
      <4> QED
        BY <4>1, <4>2 DEF Answers
    <3>2. CASE PcClipPush(c, ok)
      <4> DEFINE g == Frame("ClipAck", f.arg, 0, <<>>)
      <4>1. g \in Frames /\ g.ty # "StageList"
        BY <1>3 DEF Frame, Frames, PhoneBound
      <4>2. toPhone' = [toPhone EXCEPT ![c] = Append(@, g)]
        BY <1>4, <3>2 DEF PcClipPush
      <4> QED
        BY <4>1, <4>2 DEF Answers
    <3>3. CASE PcRefuseClip(c, ok)
      <4> DEFINE g == Frame("Error", IF sessPaused[c] THEN 5 ELSE 4, 0, <<>>)
      <4>1. g \in Frames /\ g.ty # "StageList"
        BY DEF Frame, Frames, PhoneBound
      <4>2. toPhone' = [toPhone EXCEPT ![c] = Append(@, g)]
        BY <1>4, <3>3 DEF PcRefuseClip
      <4> HIDE DEF g
      <4> QED
        BY <4>1, <4>2 DEF Answers
    <3>4. CASE PcStage(c, ok)
      <4>1. f.ty \in {"StageListReq", "StageGet"}
        BY <3>4 DEF PcStage, Handles
      <4>2. StageReply(f) \in Frames
        BY <1>1, StageReplyType
      <4>3. toPhone' = [toPhone EXCEPT ![c] = Append(@, StageReply(f))]
        BY <1>4, <3>4 DEF PcStage
      <4>4. phone[c].op \in Calls /\ CallOk(phone[c].op, copies)
        BY EndType DEF StageInv, CallsOk
      <4>5. Asks(f, phone[c].op) => Answers(StageReply(f), phone[c].op)
        BY <1>1, <4>1, <4>4, ReplyAnswers
      <4> QED
        BY <4>2, <4>3, <4>5
    <3> QED
      BY <3>1, <3>2, <3>3, <3>4
  <2>2. \A d \in Conns \ {c} : task'[d] = task[d]
    BY <1>2, <1>4 DEF PcHello, PcClipPush, PcRefuseClip, PcStage
  <2> QED
    BY <1>1, <1>2, <2>1, <2>2, WriteStage
<1>5. CASE ~ok
  <2>1. toPhone' = toPhone /\ task' = [task EXCEPT ![c] = "gone"]
    BY <1>5 DEF PcHello, PcClipPush, PcRefuseClip, PcStage
  <2> QED
    BY <1>1, <1>2, <2>1, GoneStage
<1> QED
  BY <1>4, <1>5

(* The PC's steps keep what is under way in step with the phone's calls. *)
LEMMA PcStageNext ==
  ASSUME TypeOK, StageInv, NEW c \in Conns, PcNext(c)
  PROVE  StageInv'
<1>1. ASSUME NEW ok \in BOOLEAN,
             PcHello(c, ok) \/ PcClipPush(c, ok) \/ PcRefuseClip(c, ok) \/ PcStage(c, ok)
      PROVE  StageInv'
  BY <1>1, PcAnswerStage
<1>2. CASE PcHelloRefused(c)
  BY <1>2, GoneStage DEF PcHelloRefused, Handles
<1>3. CASE PcDamaged(c) \/ PcUndecodable(c)
  <2>1. /\ toPc' = [toPc EXCEPT ![c] = Tail(@)]
        /\ TaskEnds(c) \/ TaskErrs(c)
    BY <1>3 DEF PcDamaged, PcUndecodable, Handles
  <2> QED
    BY <2>1, GoneStage DEF TaskEnds, TaskErrs
<1>4. CASE PcEof(c) \/ PcReset(c) \/ PcIdle(c)
  <2>1. toPc' = toPc /\ (TaskEnds(c) \/ TaskErrs(c))
    BY <1>4 DEF PcEof, PcReset, PcIdle
  <2> QED
    BY <2>1, GoneStage DEF TaskEnds, TaskErrs
<1>5. CASE Reads(c)
  BY <1>5, StillStage DEF Reads, agentVars
<1> QED
  BY <1>1, <1>2, <1>3, <1>4, <1>5 DEF PcNext

(* A damaged frame asks for nothing and answers nothing. *)
LEMMA DamageStage ==
  ASSUME TypeOK, StageInv, NEW c \in Conns, NEW ty \in Broken, Damage(c, ty)
  PROVE  StageInv'
<1>1. toPc \in [Conns -> Seq(Frames)] /\ toPhone \in [Conns -> Seq(Frames)]
  BY Typed
<1>2. /\ phone' = phone /\ done' = done /\ task' = task /\ ring' = ring /\ copies' = copies
  BY DEF Damage, agentVars
<1>3. CallOk(phone'[c].op, copies)
  BY <1>2 DEF StageInv, CallsOk
<1>4. phone'[c].st \in {"new", "opening"} => phone'[c].sess # "Closed"
  BY <1>2 DEF StageInv, PipeInv
<1>5. InStep(c)' => InStep(c) /\ OneUnderWay(c)
  <2>1. InStep(c)' => InStep(c)
    BY <1>2 DEF InStep, NoneTimedOut
  <2> QED
    BY <2>1 DEF StageInv, PipeInv
<1>6. CASE DamagesPc(c, ty)
  <2>0. PICK k \in DOMAIN toPc[c] :
          toPc' = [toPc EXCEPT ![c] = [toPc[c] EXCEPT ![k].ty = ty]] /\ UNCHANGED toPhone
    BY <1>6 DEF DamagesPc
  <2> DEFINE t == [toPc[c] EXCEPT ![k].ty = ty]
  <2>1. toPc' = [toPc EXCEPT ![c] = t]
    BY <2>0
  <2>2. t \in Seq(Frames) /\ Len(t) = Len(toPc[c]) /\ t[k].ty = ty /\ k \in 1..Len(toPc[c])
    BY <1>1, DamagedStream
  <2> HIDE DEF t
  <2>3. toPc'[c] = t /\ OnlyConn(c)
    BY <1>1, <1>2, <2>0, <2>1 DEF OnlyConn
  <2>4. ASSUME InStep(c)' PROVE OneUnderWay(c)'
    <3>1. OneUnderWay(c)
      BY <1>5, <2>4
    <3>2. /\ toPhone' = toPhone
          /\ phone[c].st \in {"new", "ready"} => task[c] = "gone"
      BY <2>0, <3>1, <2>2 DEF OneUnderWay
    <3>3. ASSUME task[c] # "gone"
          PROVE  /\ Len(t) <= 1 /\ toPhone[c] = <<>>
                 /\ \A i \in 1..Len(t) : Asks(t[i], phone[c].op)
      <4>1. Len(toPc[c]) <= 1 /\ toPhone[c] = <<>>
        BY <2>2, <3>1, <3>3 DEF OneUnderWay
      <4>2. Asks(t[k], phone[c].op)
        BY <2>2 DEF Asks, Broken
      <4>3. \A i \in 1..Len(t) : i = k
        BY <1>1, <2>2, <4>1
      <4> QED
        BY <2>2, <4>1, <4>2, <4>3
    <3> QED
      BY <1>2, <2>3, <3>1, <3>2, <3>3 DEF OneUnderWay, Asks, Answers
  <2> QED
    BY <1>2, <1>3, <1>4, <2>3, <2>4, QuietStep
<1>7. CASE DamagesPhone(c, ty)
  <2>0. /\ toPhone[c] # <<>> /\ UNCHANGED toPc
        /\ toPhone' = [toPhone EXCEPT ![c] = [toPhone[c] EXCEPT ![1].ty = ty]]
    BY <1>7 DEF DamagesPhone
  <2> DEFINE t == [toPhone[c] EXCEPT ![1].ty = ty]
  <2>1. toPhone' = [toPhone EXCEPT ![c] = t]
    BY <2>0
  <2>2. /\ t \in Seq(Frames) /\ Len(t) = Len(toPhone[c]) /\ t[1].ty = ty
    <3>1. toPhone[c] \in Seq(Frames) /\ 1 \in DOMAIN toPhone[c]
      BY <1>1, <2>0
    <3> QED
      BY <3>1, DamagedStream
  <2> HIDE DEF t
  <2>3. toPhone'[c] = t /\ OnlyConn(c)
    BY <1>1, <1>2, <2>0, <2>1 DEF OnlyConn
  <2>4. ASSUME InStep(c)' PROVE OneUnderWay(c)'
    <3>1. OneUnderWay(c)
      BY <1>5, <2>4
    <3>2. /\ toPc' = toPc /\ Len(t) <= 1
          /\ phone[c].st \notin {"new", "ready"}
          /\ task[c] # "gone" => toPc[c] = <<>>
      BY <2>0, <2>2, <3>1 DEF OneUnderWay
    <3>3. \A i \in 1..Len(t) : Answers(t[i], phone[c].op)
      <4>1. Answers(t[1], phone[c].op)
        BY <2>2 DEF Answers, Broken
      <4>2. \A i \in 1..Len(t) : i = 1
        BY <2>2, <3>2
      <4> QED
        BY <4>1, <4>2
    <3>4. task[c] # "gone" => Len(toPc[c]) <= 1
      BY <3>1 DEF OneUnderWay
    <3> QED
      BY <1>2, <2>3, <3>1, <3>2, <3>3, <3>4 DEF OneUnderWay, Asks, Answers
  <2> QED
    BY <1>2, <1>3, <1>4, <2>3, <2>4, QuietStep
<1> QED
  BY <1>6, <1>7, DamageSides

(* What a call that has returned had asked for. *)
LEMMA ReturnedCall ==
  ASSUME TypeOK, NEW c \in Conns, NEW i \in 1..Len(done[c])
  PROVE  done[c][i].op \in Calls
<1>1. done[c] \in Seq(Results)
  BY Typed
<1>2. done[c][i] \in Results
  BY <1>1
<1> QED
  BY <1>2 DEF Results

(* A copy: an answer under way or given stays true. *)
LEMMA CopyStage ==
  ASSUME TypeOK, StageInv, Copy
  PROVE  StageInv'
<1>1. /\ phone' = phone /\ done' = done /\ task' = task /\ toPc' = toPc /\ toPhone' = toPhone
  BY DEF Copy, pcVars
<1>2. /\ RingInv' /\ copies' = copies + 1 /\ copies \in Nat
      /\ \A a \in 1..copies : ~Holds(ring, a) => ~Holds(ring', a)
  BY CopyRing, Typed DEF StageInv
<1>3. ASSUME NEW op \in Calls, CallOk(op, copies)
      PROVE  CallOk(op, copies')
  BY <1>2, <1>3 DEF CallOk, Calls
<1>4. \A k \in Nat : \A j \in k..copies : j \in k..copies'
  BY <1>2
<1>5. CallsOk'
  <2>1. \A c \in Conns : phone[c].op \in Calls
    BY EndType
  <2>2. \A c \in Conns : \A i \in 1..Len(done[c]) : done[c][i].op \in Calls
    BY ReturnedCall
  <2> QED
    BY <1>1, <1>3, <2>1, <2>2 DEF StageInv, CallsOk
<1>6. ASSUME NEW f, NEW op \in Calls, CallOk(op, copies), Answers(f, op)
      PROVE  Answers(f, op)'
  <2>1. op.since \in Nat /\ (op.kind = "item" => op.arg \in 1..copies)
    BY <1>6 DEF Calls, CallOk
  <2>2. CASE f.ty = "StageList" /\ op.kind = "list"
    <3>1. PICK k \in op.since..copies : f.ids = IdsAt(k)
      BY <1>6, <2>2 DEF Answers
    <3>2. k \in op.since..copies'
      BY <1>4, <2>1
    <3> QED
      BY <2>2, <3>1, <3>2 DEF Answers, IdsAt
  <2>3. CASE f.ty = "StageList" /\ op.kind = "item"
    BY <1>2, <1>6, <2>1, <2>3 DEF Answers
  <2>4. CASE ~(f.ty = "StageList" /\ op.kind \in {"list", "item"})
    BY <2>4 DEF Answers
  <2> QED
    BY <2>2, <2>3, <2>4
<1>7. PipeInv'
  <2> SUFFICES ASSUME NEW c \in Conns
               PROVE  /\ InStep(c)' => OneUnderWay(c)'
                      /\ phone'[c].st \in {"new", "opening"} => phone'[c].sess # "Closed"
    BY DEF PipeInv
  <2>1. InStep(c)' => InStep(c)
    BY <1>1 DEF InStep, NoneTimedOut
  <2>2. phone[c].op \in Calls /\ CallOk(phone[c].op, copies)
    BY EndType DEF StageInv, CallsOk
  <2>3. OneUnderWay(c) => OneUnderWay(c)'
    <3> SUFFICES ASSUME OneUnderWay(c) PROVE OneUnderWay(c)'
      OBVIOUS
    <3>1. phone[c].st = "waiting" =>
            \A i \in 1..Len(toPhone[c]) : Answers(toPhone[c][i], phone[c].op)
      BY DEF OneUnderWay
    <3>2. phone[c].st = "waiting" =>
            \A i \in 1..Len(toPhone'[c]) : Answers(toPhone[c][i], phone[c].op)'
      BY <1>1, <1>6, <2>2, <3>1
    <3> QED
      BY <1>1, <3>2 DEF OneUnderWay, Asks
  <2> QED
    BY <1>1, <2>1, <2>3 DEF StageInv, PipeInv
<1>8. StageAnswersTrue'
  <2> SUFFICES ASSUME NEW c \in Conns, NEW i \in 1..Len(done'[c]),
                      \A j \in 1..(i - 1) : done'[c][j].out # "TimedOut"
               PROVE  AnswerTrue(done[c][i])'
    BY StageAltNext
  <2>1. NoneTimedOut(c, i - 1) /\ i \in 1..Len(done[c])
    BY <1>1 DEF NoneTimedOut
  <2>2. AnswerTrue(done[c][i])
    BY <2>1, StageAlt DEF StageInv
  <2>3. /\ done[c][i].op \in Calls /\ CallOk(done[c][i].op, copies)
    BY <2>1, ReturnedCall DEF StageInv, CallsOk
  <2>4. /\ done[c][i].op.since \in Nat
        /\ done[c][i].op.kind = "item" => done[c][i].op.arg \in 1..copies
    BY <2>3 DEF Calls, CallOk
  <2> DEFINE r == done[c][i]
  <2>5. done'[c][i] = r
    BY <1>1
  <2>6. CASE r.op.kind = "list" /\ r.out = "Ok"
    <3>1. PICK k \in r.op.since..copies : r.ids = IdsAt(k)
      BY <2>2, <2>6 DEF AnswerTrue
    <3>2. k \in r.op.since..copies'
      BY <1>4, <2>4
    <3> QED
      BY <2>5, <2>6, <3>1, <3>2 DEF AnswerTrue, IdsAt
  <2>7. CASE r.op.kind = "item" /\ r.out = "Gone"
    BY <1>2, <2>2, <2>4, <2>5, <2>7 DEF AnswerTrue
  <2>8. CASE ~(r.op.kind = "list" /\ r.out = "Ok") /\ ~(r.op.kind = "item" /\ r.out = "Gone")
    BY <2>5, <2>8 DEF AnswerTrue
  <2> QED
    BY <2>6, <2>7, <2>8
<1> QED
  BY <1>2, <1>5, <1>7, <1>8 DEF StageInv

(* Initially nothing was copied, asked or answered. *)
LEMMA InitStage == Init => StageInv
<1> SUFFICES ASSUME Init PROVE StageInv
  OBVIOUS
<1>1. RingInv
  BY DepthPositive DEF Init, RingInv
<1>2. CallsOk
  BY DEF Init, CallsOk, CallOk, NoCall
<1>3. PipeInv
  <2> SUFFICES ASSUME NEW c \in Conns
               PROVE  OneUnderWay(c) /\ phone[c].sess # "Closed"
    BY DEF PipeInv
  <2>1. /\ toPhone[c] = <<>> /\ toPc[c] = <<>> /\ phone[c].st = "new"
        /\ phone[c].sess = "AwaitingHelloAck"
    BY DEF Init
  <2> QED
    BY <2>1 DEF OneUnderWay
<1>4. StageAnswersTrue
  BY DEF Init, StageAnswersTrue, ListIsCurrent, GoneIsTrue
<1> QED
  BY <1>1, <1>2, <1>3, <1>4 DEF StageInv

(* Every step keeps the invariant. *)
LEMMA NextStage == TypeOK /\ StageInv /\ [Next]_vars => StageInv'
<1> SUFFICES ASSUME TypeOK, StageInv, [Next]_vars PROVE StageInv'
  OBVIOUS
<1>1. ASSUME NEW c \in Conns, PhoneNext(c) PROVE StageInv'
  BY <1>1, PhoneStage
<1>2. ASSUME NEW c \in Conns, PcNext(c) PROVE StageInv'
  BY <1>2, PcStageNext
<1>3. ASSUME NEW c \in Conns, NEW ty \in Broken, Damage(c, ty) PROVE StageInv'
  BY <1>3, DamageStage
<1>4. CASE Copy
  BY <1>4, CopyStage
<1>5. CASE SetPaused \/ UNCHANGED vars
  BY <1>5, StillStage DEF SetPaused, pcVars, vars
<1> QED
  BY <1>1, <1>2, <1>3, <1>4, <1>5 DEF Next

(* Unless an earlier call on the connection timed out, what stage_list     *)
(* returns was staged at some moment of the call, complete and newest      *)
(* first, and stage_item reports a clip as gone only when it is, however   *)
(* many texts are copied while the answer is under way.                    *)
THEOREM StageAnswersAreTrue == Spec => []StageAnswersTrue
<1>1. Init => StageInv
  BY InitStage
<1>2. TypeOK /\ StageInv /\ [Next]_vars => StageInv'
  BY NextStage
<1>3. StageInv => StageAnswersTrue
  BY DEF StageInv
<1> QED
  BY <1>1, <1>2, <1>3, TypeCorrect, PTL DEF Spec

-----------------------------------------------------------------------------
(***************************************************************************)
(* Session implements BeamDelivery: for any number of connections, calls,  *)
(* copies and damaged frames, every step of the phones, the PC's tasks,    *)
(* the streams and the agent's user is one the delivery service allows or  *)
(* invisible to it.                                                        *)
(***************************************************************************)

(* Clips are numbered by the calls of a connection; those up to the calls  *)
(* that have returned were sent, and the one of the call in progress.      *)
Sent(ph, dn, n) == n <= Len(dn) \/ (n = Len(dn) + 1 /\ ph.st \in {"waiting", "closed"})

Numbered(ph, dn) ==
  /\ Len(dn) <= MaxOps
  /\ \A i \in 1..Len(dn) : dn[i].op.kind = "beam" => dn[i].op.arg = i
  /\ ph.st = "waiting" => /\ Len(dn) < MaxOps
                          /\ ph.op.kind = "beam" => ph.op.arg = Len(dn) + 1

(* The clips on the way to the PC were sent, each later than those before  *)
(* it.                                                                     *)
IsPush(f) == f.ty = "ClipPush"

PushesRise(ph, dn, in) ==
  \A i \in 1..Len(in) : IsPush(in[i]) =>
    /\ in[i].arg \in 1..MaxOps /\ Sent(ph, dn, in[i].arg)
    /\ \A j \in 1..Len(in) : i < j /\ IsPush(in[j]) => in[i].arg < in[j].arg

(* What has arrived was sent, before all that is still under way. *)
ArrivedEarlier(c) ==
  \A n \in Nat : ArrivedIn(events, c, n) =>
    /\ Sent(phone[c], done[c], n)
    /\ task[c] # "gone" =>
         \A i \in 1..Len(toPc[c]) : IsPush(toPc[c][i]) => n < toPc[c][i].arg

(* After an ERROR nothing more is read, and the clip of the call that will *)
(* read it has not arrived.                                                *)
Errors(s) == \E i \in 1..Len(s) : s[i].ty = "Error"

ErrorIsLast(c) ==
  Errors(toPhone[c]) => task[c] = "gone" /\ ~ArrivedIn(events, c, Len(done[c]) + 1)

ConnOk(c) ==
  /\ Numbered(phone[c], done[c])
  /\ PushesRise(phone[c], done[c], toPc[c])
  /\ ArrivedEarlier(c)
  /\ ErrorIsLast(c)

DInv == \A c \in Conns : ConnOk(c)

-----------------------------------------------------------------------------
(* The refinement mapping, with the variables it reads as parameters. *)

UnderWayIn(tk, in) ==
  UNION {{ClipOf(c, in[c][i].arg) : i \in {j \in 1..Len(in[c]) : in[c][j].ty = "ClipPush"}}
         : c \in {d \in Conns : tk[d] # "gone"}}

DeliveredIn(evs) ==
  {[at |-> i, clip |-> evs[i]] : i \in {j \in 1..Len(evs) : evs[j].ev = "ClipArrived"}}

ReturnedIn(dn, outs) ==
  UNION {{ClipOf(c, dn[c][i].op.arg) :
            i \in {j \in 1..Len(dn[c]) : dn[c][j].op.kind = "beam" /\ dn[c][j].out \in outs}}
         : c \in Conns}

(* The mapping, now and after a step. *)
LEMMA Mapping ==
  /\ BeamsUnderWay = UnderWayIn(task, toPc) /\ BeamsUnderWay' = UnderWayIn(task', toPc')
  /\ BeamsDelivered = DeliveredIn(events) /\ BeamsDelivered' = DeliveredIn(events')
  /\ \A outs : /\ BeamsReturned(outs) = ReturnedIn(done, outs)
               /\ BeamsReturned(outs)' = ReturnedIn(done', outs)
<1>1. BeamsUnderWay = UnderWayIn(task, toPc) /\ BeamsUnderWay' = UnderWayIn(task', toPc')
  BY DEF BeamsUnderWay, UnderWayIn
<1>2. BeamsDelivered = DeliveredIn(events) /\ BeamsDelivered' = DeliveredIn(events')
  BY DEF BeamsDelivered, DeliveredIn
<1>3. ASSUME NEW outs
      PROVE  /\ BeamsReturned(outs) = ReturnedIn(done, outs)
             /\ BeamsReturned(outs)' = ReturnedIn(done', outs)
  BY DEF BeamsReturned, ReturnedIn
<1> QED
  BY <1>1, <1>2, <1>3

(* A clip is let in when the task of an unpaused session handles it. *)
LEMMA InLetIn ==
  /\ \A x : x \in BeamsLetIn <=> \E c \in LettingIn : x = ClipOf(c, Head(toPc[c]).arg)
  /\ \A x : x \in BeamsLetIn' <=> \E c \in LettingIn' : x = ClipOf(c, Head(toPc'[c]).arg)
  /\ \A c : c \in LettingIn <=>
       c \in Conns /\ turn[c] /\ ~sessPaused[c] /\ toPc[c] # <<>> /\ IsPush(Head(toPc[c]))
  /\ \A c : c \in LettingIn' <=>
       c \in Conns /\ turn'[c] /\ ~sessPaused'[c] /\ toPc'[c] # <<>> /\ IsPush(Head(toPc'[c]))
<1>1. /\ \A x : x \in BeamsLetIn <=> \E c \in LettingIn : x = ClipOf(c, Head(toPc[c]).arg)
      /\ \A x : x \in BeamsLetIn' <=> \E c \in LettingIn' : x = ClipOf(c, Head(toPc'[c]).arg)
  BY DEF BeamsLetIn
<1>2. /\ \A c : c \in LettingIn <=>
           c \in Conns /\ turn[c] /\ ~sessPaused[c] /\ toPc[c] # <<>> /\ IsPush(Head(toPc[c]))
      /\ \A c : c \in LettingIn' <=>
           c \in Conns /\ turn'[c] /\ ~sessPaused'[c] /\ toPc'[c] # <<>> /\ IsPush(Head(toPc'[c]))
  BY DEF LettingIn, IsPush
<1> QED
  BY <1>1, <1>2

(* Only the beginning of a turn lets a clip in. *)
LEMMA LetInShrinks ==
  ASSUME \A c \in Conns : Continues(c)
  PROVE  BeamsLetIn' \subseteq BeamsLetIn
<1>1. \A c : c \in LettingIn' => GoesOn(c)
  BY InLetIn DEF Continues
<1>2. \A c : c \in LettingIn' => c \in LettingIn /\ Head(toPc'[c]) = Head(toPc[c])
  BY <1>1, InLetIn DEF GoesOn
<1>3. \A x : x \in BeamsLetIn' => x \in BeamsLetIn
  BY <1>2, InLetIn
<1> QED
  BY <1>3

(* Steps that touch no turn and no frame at the head of a stream. *)
LEMMA LetInStays ==
  ASSUME TurnInv, UNCHANGED <<turn, sessPaused>>,
         \A c \in Conns : toPc[c] # <<>> => toPc'[c] # <<>> /\ Head(toPc'[c]) = Head(toPc[c])
  PROVE  BeamsLetIn' = BeamsLetIn
<1>1. \A c : c \in LettingIn' <=> c \in LettingIn
  BY InLetIn DEF TurnInv
<1>2. \A c \in LettingIn : Head(toPc'[c]) = Head(toPc[c])
  BY InLetIn
<1>3. \A x : x \in BeamsLetIn' <=> x \in BeamsLetIn
  BY <1>1, <1>2, InLetIn
<1> QED
  BY <1>3

(* A clip is under way in a stream whose task still reads. *)
LEMMA InUnderWay ==
  ASSUME NEW tk, NEW in, NEW x
  PROVE  x \in UnderWayIn(tk, in) <=>
           \E c \in Conns : /\ tk[c] # "gone"
                            /\ \E i \in 1..Len(in[c]) :
                                 IsPush(in[c][i]) /\ x = ClipOf(c, in[c][i].arg)
BY DEF UnderWayIn, IsPush

(* A clip was reported. *)
LEMMA InReturned ==
  ASSUME NEW dn, NEW outs, NEW x
  PROVE  x \in ReturnedIn(dn, outs) <=>
           \E c \in Conns : \E i \in 1..Len(dn[c]) :
             /\ dn[c][i].op.kind = "beam" /\ dn[c][i].out \in outs
             /\ x = ClipOf(c, dn[c][i].op.arg)
BY DEF ReturnedIn

(* The name of a clip tells its connection and its number. *)
LEMMA ClipOfInjective ==
  ASSUME NEW c, NEW d, NEW m, NEW n
  PROVE  ClipOf(c, m) = ClipOf(d, n) <=> c = d /\ m = n
BY DEF ClipOf, Event

(* A clip was delivered when its arrival is among the events. *)
LEMMA InDelivered ==
  ASSUME NEW evs, NEW c, NEW n
  PROVE  (\E d \in DeliveredIn(evs) : d.clip = ClipOf(c, n)) <=> ArrivedIn(evs, c, n)
<1>1. ClipOf(c, n).ev = "ClipArrived" /\ ClipOf(c, n) = Event("ClipArrived", c, n)
  BY DEF ClipOf, Event
<1>2. ASSUME NEW d \in DeliveredIn(evs), d.clip = ClipOf(c, n)
      PROVE  ArrivedIn(evs, c, n)
  BY <1>1, <1>2 DEF DeliveredIn, ArrivedIn
<1>3. ASSUME NEW i \in 1..Len(evs), evs[i] = Event("ClipArrived", c, n)
      PROVE  \E d \in DeliveredIn(evs) : d.clip = ClipOf(c, n)
  <2>1. evs[i].ev = "ClipArrived" /\ evs[i] = ClipOf(c, n)
    BY <1>1, <1>3
  <2>2. [at |-> i, clip |-> evs[i]] \in DeliveredIn(evs)
    BY <2>1 DEF DeliveredIn
  <2> QED
    BY <2>1, <2>2
<1> QED
  BY <1>2, <1>3 DEF ArrivedIn

(* An event is announced: a delivery when it is the arrival of a clip,     *)
(* later than all before.                                                  *)
LEMMA DeliveredAppend ==
  ASSUME NEW evs \in Seq(Events), NEW e \in Events
  PROVE  /\ e.ev # "ClipArrived" => DeliveredIn(Append(evs, e)) = DeliveredIn(evs)
         /\ e.ev = "ClipArrived" =>
              \E d \in DeliveredIn(Append(evs, e)) :
                /\ d.clip = e
                /\ DeliveredIn(Append(evs, e)) = DeliveredIn(evs) \cup {d}
                /\ \A b \in DeliveredIn(evs) : b.at < d.at
<1> DEFINE a == Append(evs, e)
<1> DEFINE n == Len(evs)
<1>1. /\ Len(a) = n + 1 /\ a[n + 1] = e /\ n \in Nat
      /\ \A i \in 1..n : a[i] = evs[i]
  OBVIOUS
<1> HIDE DEF a, n
<1>2. ASSUME NEW d
      PROVE  d \in DeliveredIn(evs) <=>
               \E i \in 1..n : evs[i].ev = "ClipArrived" /\ d = [at |-> i, clip |-> evs[i]]
  BY DEF DeliveredIn, n
<1>3. ASSUME NEW d
      PROVE  d \in DeliveredIn(a) <=>
               \E i \in 1..(n + 1) : a[i].ev = "ClipArrived" /\ d = [at |-> i, clip |-> a[i]]
  BY <1>1 DEF DeliveredIn
<1>4. \A i : i \in 1..(n + 1) <=> i \in 1..n \/ i = n + 1
  BY <1>1
<1>5. ASSUME NEW d
      PROVE  d \in DeliveredIn(a) <=>
               \/ d \in DeliveredIn(evs)
               \/ e.ev = "ClipArrived" /\ d = [at |-> n + 1, clip |-> e]
  BY <1>1, <1>2, <1>3, <1>4
<1>6. ASSUME e.ev # "ClipArrived"
      PROVE  DeliveredIn(a) = DeliveredIn(evs)
  BY <1>5, <1>6
<1>7. ASSUME e.ev = "ClipArrived"
      PROVE  \E d \in DeliveredIn(a) :
                /\ d.clip = e
                /\ DeliveredIn(a) = DeliveredIn(evs) \cup {d}
                /\ \A b \in DeliveredIn(evs) : b.at < d.at
  <2> DEFINE d == [at |-> n + 1, clip |-> e]
  <2>1. d \in DeliveredIn(a) /\ d.clip = e
    BY <1>5, <1>7
  <2>2. DeliveredIn(a) = DeliveredIn(evs) \cup {d}
    BY <1>5, <1>7
  <2>3. \A b \in DeliveredIn(evs) : b.at < d.at
    BY <1>1, <1>2
  <2> HIDE DEF d
  <2> QED
    BY <2>1, <2>2, <2>3
<1> QED
  BY <1>6, <1>7 DEF a

-----------------------------------------------------------------------------
(* The kinds of steps, as a connection sees them. *)

(* Nothing happens to the other connections, nor to the pause flag. *)
StepOf(c) == OnlyConn(c) /\ paused' = paused

(* The clips in the stream t were in s, in the same places or one further. *)
Fewer(s, t) ==
  \E k \in {0, 1} : \A i \in 1..Len(t) :
    IsPush(t[i]) => i + k \in 1..Len(s) /\ s[i + k] = t[i]

(* Nothing arrives. *)
NoArrival ==
  \/ events' = events
  \/ \E e \in Events : events' = Append(events, e) /\ e.ev # "ClipArrived"

(* Frames are taken or damaged, a task ends, the phone goes on waiting or  *)
(* lets go.                                                                *)
QuietStepOf(c) ==
  /\ StepOf(c) /\ done' = done /\ NoArrival
  /\ Fewer(toPc[c], toPc'[c])
  /\ task[c] = "gone" => task'[c] = "gone"
  /\ Errors(toPhone'[c]) => Errors(toPhone[c])
  /\ phone[c].st \in {"waiting", "closed"} => phone'[c].st \in {"waiting", "closed"}
  /\ phone'[c].st = "waiting" => phone[c].st = "waiting" /\ phone'[c].op = phone[c].op

(* The clip of the call in progress, or of the next call, is not under way *)
(* and has not arrived.                                                    *)
Unsent(c) ==
  /\ ~ArrivedIn(events, c, Len(done[c]) + 1)
  /\ task[c] # "gone" =>
       \A i \in 1..Len(toPc[c]) : IsPush(toPc[c][i]) => toPc[c][i].arg # Len(done[c]) + 1

(* A call returns r. *)
ReturnStepOf(c, r) ==
  /\ StepOf(c) /\ UNCHANGED <<turn, sessPaused>> /\ toPc' = toPc /\ task' = task /\ events' = events
  /\ Len(done[c]) < MaxOps /\ done' = [done EXCEPT ![c] = Append(@, r)]
  /\ phone'[c].st \in {"ready", "closed"}
  /\ Errors(toPhone'[c]) => Errors(toPhone[c])
  /\ r.op.kind = "beam" =>
       /\ r.op.arg = Len(done[c]) + 1
       /\ r.out = "Ok" => ArrivedIn(events, c, r.op.arg)
       /\ r.out \in {"Refused", "TooLarge"} => Unsent(c)

(* A call sends its request f. *)
RequestStepOf(c, f) ==
  /\ StepOf(c) /\ UNCHANGED <<turn, sessPaused>> /\ done' = done /\ task' = task /\ toPhone' = toPhone /\ events' = events
  /\ phone[c].st = "ready" /\ Len(done[c]) < MaxOps /\ phone'[c].st = "waiting"
  /\ phone'[c].op.kind = "beam" => phone'[c].op.arg = Len(done[c]) + 1
  /\ toPc' = [toPc EXCEPT ![c] = Append(@, f)]
  /\ IsPush(f) => f.arg = Len(done[c]) + 1

(* The PC handles a clip. *)
TakesClip(c) ==
  /\ StepOf(c) /\ phone' = phone /\ done' = done
  /\ toPc[c] # <<>> /\ IsPush(Head(toPc[c])) /\ toPc' = [toPc EXCEPT ![c] = Tail(@)]
  /\ task[c] # "gone"

(* It hands the clip on, in a session that saw the agent unpaused. *)
ArrivalStepOf(c) ==
  /\ TakesClip(c)
  /\ turn[c] /\ ~sessPaused[c]
  /\ turn' = [turn EXCEPT ![c] = FALSE] /\ sessPaused' = sessPaused
  /\ events' = Append(events, ClipOf(c, Head(toPc[c]).arg))
  /\ Errors(toPhone'[c]) => Errors(toPhone[c])

(* It refuses the clip with an ERROR and closes. *)
RefusalStepOf(c) ==
  TakesClip(c) /\ NoArrival /\ task'[c] = "gone"

-----------------------------------------------------------------------------
(* What these steps are to the delivery service. *)

(* Nothing arrives, so nothing more is delivered. *)
LEMMA NoDelivery ==
  ASSUME TypeOK, NoArrival
  PROVE  /\ DeliveredIn(events') = DeliveredIn(events)
         /\ \A c, n : ArrivedIn(events', c, n) => ArrivedIn(events, c, n)
<1>0. events \in Seq(Events)
  BY Typed
<1>1. DeliveredIn(events') = DeliveredIn(events)
  BY <1>0, DeliveredAppend DEF NoArrival
<1>2. ASSUME NEW c, NEW n, ArrivedIn(events', c, n)
      PROVE  ArrivedIn(events, c, n)
  BY <1>1, <1>2, InDelivered
<1> QED
  BY <1>1, <1>2

(* The clips under way after a step of one connection are the ones before, *)
(* if its own are.                                                         *)
LEMMA FewerUnderWay ==
  ASSUME NEW c \in Conns, OnlyConn(c),
         \/ task'[c] = "gone"
         \/ task[c] # "gone" /\ Fewer(toPc[c], toPc'[c])
  PROVE  UnderWayIn(task', toPc') \subseteq UnderWayIn(task, toPc)
<1> SUFFICES ASSUME NEW x \in UnderWayIn(task', toPc')
             PROVE  x \in UnderWayIn(task, toPc)
  OBVIOUS
<1>0. PICK d \in Conns :
        /\ task'[d] # "gone"
        /\ \E i \in 1..Len(toPc'[d]) : IsPush(toPc'[d][i]) /\ x = ClipOf(d, toPc'[d][i].arg)
  BY InUnderWay
<1>1. PICK i \in 1..Len(toPc'[d]) :
        task'[d] # "gone" /\ IsPush(toPc'[d][i]) /\ x = ClipOf(d, toPc'[d][i].arg)
  BY <1>0
<1>2. CASE d = c
  <2>1. PICK k \in {0, 1} :
          IsPush(toPc'[d][i]) => i + k \in 1..Len(toPc[d]) /\ toPc[d][i + k] = toPc'[d][i]
    BY <1>1, <1>2 DEF Fewer
  <2> QED
    BY <1>1, <1>2, <2>1, InUnderWay
<1>3. CASE d # c
  <2>1. toPc'[d] = toPc[d] /\ task'[d] = task[d]
    BY <1>3 DEF OnlyConn
  <2> QED
    BY <1>1, <2>1, InUnderWay
<1> QED
  BY <1>2, <1>3

(* Steps that deliver and report nothing. *)
LEMMA LosesOnly ==
  ASSUME UnderWayIn(task', toPc') \subseteq UnderWayIn(task, toPc),
         DeliveredIn(events') = DeliveredIn(events), done' = done, paused' = paused,
         BeamsLetIn' \subseteq BeamsLetIn
  PROVE  Delivery!Next
<1>1. BeamsUnderWay' \subseteq BeamsUnderWay /\ BeamsDelivered' = BeamsDelivered
  BY Mapping
<1>2. BeamsReturned({"Ok"})' = BeamsReturned({"Ok"})
      /\ BeamsReturned({"Refused", "TooLarge"})' = BeamsReturned({"Refused", "TooLarge"})
  BY Mapping
<1> QED
  BY <1>1, <1>2 DEF Delivery!Next, Delivery!Lose

(* A quiet step. *)
LEMMA QuietDelivers ==
  ASSUME TypeOK, NEW c \in Conns, QuietStepOf(c), \A d \in Conns : Continues(d)
  PROVE  Delivery!Next
<1>1. DeliveredIn(events') = DeliveredIn(events)
  BY NoDelivery DEF QuietStepOf
<1>2. UnderWayIn(task', toPc') \subseteq UnderWayIn(task, toPc)
  BY FewerUnderWay DEF QuietStepOf, StepOf
<1> QED
  BY <1>1, <1>2, LosesOnly, LetInShrinks DEF QuietStepOf, StepOf

(* A refusal: what else was under way on the connection is lost. *)
LEMMA RefusalDelivers ==
  ASSUME TypeOK, NEW c \in Conns, RefusalStepOf(c), \A d \in Conns : Continues(d)
  PROVE  Delivery!Next
<1>1. DeliveredIn(events') = DeliveredIn(events)
  BY NoDelivery DEF RefusalStepOf
<1>2. UnderWayIn(task', toPc') \subseteq UnderWayIn(task, toPc)
  BY FewerUnderWay DEF RefusalStepOf, TakesClip, StepOf
<1> QED
  BY <1>1, <1>2, LosesOnly, LetInShrinks DEF RefusalStepOf, TakesClip, StepOf

(* The tail of a stream. *)
LEMMA TailOfStream ==
  ASSUME NEW s \in Seq(Frames), s # <<>>
  PROVE  /\ Len(s) \in Nat /\ 1 \in 1..Len(s) /\ Head(s) = s[1]
         /\ \A i \in 1..Len(Tail(s)) : i + 1 \in 1..Len(s) /\ Tail(s)[i] = s[i + 1]
OBVIOUS

(* So taking a frame off a stream leaves fewer. *)
LEMMA TailFewer ==
  ASSUME NEW s \in Seq(Frames), s # <<>>
  PROVE  Fewer(s, Tail(s))
<1>1. \A i \in 1..Len(Tail(s)) : i + 1 \in 1..Len(s) /\ s[i + 1] = Tail(s)[i]
  BY TailOfStream
<1> QED
  BY <1>1 DEF Fewer

(* A clip is handed on: it was under way and is no more. *)
LEMMA ArrivalDelivers ==
  ASSUME TypeOK, NEW c \in Conns, ConnOk(c), ArrivalStepOf(c)
  PROVE  Delivery!Next
<1> DEFINE f == Head(toPc[c])
<1> DEFINE x == ClipOf(c, f.arg)
<1>1. /\ OnlyConn(c) /\ paused' = paused /\ done' = done
      /\ toPc[c] # <<>> /\ IsPush(f) /\ toPc' = [toPc EXCEPT ![c] = Tail(@)] /\ task[c] # "gone"
      /\ events' = Append(events, x)
  BY DEF ArrivalStepOf, TakesClip, StepOf
<1>2. /\ toPc[c] \in Seq(Frames) /\ toPc'[c] = Tail(toPc[c]) /\ events \in Seq(Events)
      /\ f = toPc[c][1] /\ 1 \in 1..Len(toPc[c]) /\ f \in Frames /\ f.arg \in Nat
  <2>1. toPc \in [Conns -> Seq(Frames)] /\ toPc[c] \in Seq(Frames)
    BY Typed
  <2>2. f = toPc[c][1] /\ 1 \in 1..Len(toPc[c])
    BY <1>1, <2>1, TailOfStream
  <2>3. f \in Frames
    BY <2>1, <2>2
  <2>4. f.arg \in Nat
    BY <2>3 DEF Frames
  <2> QED
    BY <1>1, <2>1, <2>2, <2>3, <2>4, Typed
<1>3. x \in Events /\ x.ev = "ClipArrived"
  BY <1>2 DEF ClipOf, Event, Events
<1>4. /\ f.arg \in 1..MaxOps
      /\ \A j \in 1..Len(toPc[c]) : 1 < j /\ IsPush(toPc[c][j]) => f.arg < toPc[c][j].arg
  BY <1>1, <1>2 DEF ConnOk, PushesRise
<1> HIDE DEF f
<1>5. UnderWayIn(task', toPc') \subseteq UnderWayIn(task, toPc)
  BY <1>1, <1>2, TailFewer, FewerUnderWay
<1>6. x \in UnderWayIn(task, toPc)
  BY <1>1, <1>2, InUnderWay
<1>7. x \notin UnderWayIn(task', toPc')
  <2> SUFFICES ASSUME x \in UnderWayIn(task', toPc')
               PROVE  FALSE
    OBVIOUS
  <2>1. PICK d \in Conns :
          \E i \in 1..Len(toPc'[d]) : IsPush(toPc'[d][i]) /\ x = ClipOf(d, toPc'[d][i].arg)
    BY InUnderWay
  <2>2. PICK i \in 1..Len(toPc'[d]) : IsPush(toPc'[d][i]) /\ x = ClipOf(d, toPc'[d][i].arg)
    BY <2>1
  <2>3. d = c /\ toPc'[c][i].arg = f.arg
    BY <2>2, ClipOfInjective
  <2>4. /\ i \in 1..Len(Tail(toPc[c])) /\ toPc'[c][i] = Tail(toPc[c])[i]
        /\ toPc[c] \in Seq(Frames) /\ toPc[c] # <<>> /\ Len(toPc[c]) \in Nat
    BY <1>1, <1>2, <2>3, TailOfStream
  <2>5. i + 1 \in 1..Len(toPc[c]) /\ toPc'[c][i] = toPc[c][i + 1]
    BY <2>4, TailOfStream
  <2>6. 1 < i + 1
    <3>1. Tail(toPc[c]) \in Seq(Frames)
      BY <2>4
    <3> QED
      BY <2>4, <3>1
  <2>7. f.arg < toPc[c][i + 1].arg
    BY <1>4, <2>2, <2>3, <2>5, <2>6
  <2> QED
    BY <1>2, <2>3, <2>5, <2>7
<1>8. \E d \in DeliveredIn(events') : /\ d.clip = x
                                      /\ DeliveredIn(events') = DeliveredIn(events) \cup {d}
                                      /\ \A b \in DeliveredIn(events) : b.at < d.at
  BY <1>1, <1>2, <1>3, DeliveredAppend
<1>9. x \in {ClipOf(d, n) : d \in Conns, n \in 1..MaxOps}
  BY <1>4
<1> HIDE DEF x
<1>10. BeamsReturned({"Ok"})' = BeamsReturned({"Ok"})
       /\ BeamsReturned({"Refused", "TooLarge"})' = BeamsReturned({"Refused", "TooLarge"})
  BY <1>1, Mapping
<1>11. BeamsUnderWay' \subseteq BeamsUnderWay \ {x} /\ x \in BeamsUnderWay
  BY <1>5, <1>6, <1>7, Mapping
<1>12. \E d \in BeamsDelivered' : /\ d.clip = x
                                  /\ BeamsDelivered' = BeamsDelivered \cup {d}
                                  /\ \A b \in BeamsDelivered : b.at < d.at
  BY <1>8, Mapping
<1>13. BeamsLetIn' = BeamsLetIn \ {x} /\ x \in BeamsLetIn
  <2>1. /\ turn[c] /\ ~sessPaused[c] /\ turn'[c] = FALSE
        /\ \A d \in Conns \ {c} :
             turn'[d] = turn[d] /\ sessPaused'[d] = sessPaused[d] /\ toPc'[d] = toPc[d]
    <3>1. turn \in [Conns -> BOOLEAN]
      BY Typed
    <3> QED
      BY <1>1, <3>1 DEF ArrivalStepOf, OnlyConn
  <2>2. c \in LettingIn /\ x = ClipOf(c, Head(toPc[c]).arg)
    BY <1>1, <2>1, InLetIn DEF x, f
  <2>3. \A d : d \in LettingIn' <=> d \in LettingIn /\ d # c
    BY <2>1, InLetIn
  <2>4. \A d \in LettingIn : d # c => ClipOf(d, Head(toPc[d]).arg) # x
    BY <2>2, ClipOfInjective
  <2>5. \A d \in LettingIn : d # c => toPc'[d] = toPc[d]
    BY <2>1, InLetIn
  <2>6. \A y : y \in BeamsLetIn' <=> y \in BeamsLetIn /\ y # x
    BY <2>2, <2>3, <2>4, <2>5, InLetIn
  <2> QED
    BY <2>2, <2>6, InLetIn
<1>14. Delivery!Deliver(x)
  BY <1>1, <1>10, <1>11, <1>12, <1>13 DEF Delivery!Deliver
<1> QED
  BY <1>9, <1>14 DEF Delivery!Next

(* A task takes up a frame: a clip is let in if the agent is not paused. *)
LEMMA ReadsDelivers ==
  ASSUME TypeOK, DInv, NEW c \in Conns, Reads(c)
  PROVE  [Delivery!Next]_Delivery!vars
<1> DEFINE f == Head(toPc[c])
<1> DEFINE x == ClipOf(c, f.arg)
<1>1. /\ UNCHANGED <<done, task, toPc, events, paused>>
      /\ BeamsUnderWay' = BeamsUnderWay /\ BeamsDelivered' = BeamsDelivered
      /\ BeamsReturned({"Ok"})' = BeamsReturned({"Ok"})
      /\ BeamsReturned({"Refused", "TooLarge"})' = BeamsReturned({"Refused", "TooLarge"})
  BY Mapping DEF Reads, agentVars
<1>2. /\ ~turn[c] /\ turn'[c] /\ sessPaused'[c] = paused
      /\ task[c] # "gone" /\ toPc[c] # <<>> /\ paused \in BOOLEAN
      /\ \A d \in Conns \ {c} : turn'[d] = turn[d] /\ sessPaused'[d] = sessPaused[d]
  BY TurnBegins, Typed DEF Serving
<1>3. CASE ~paused /\ IsPush(f)
  <2>1. toPc[c] \in Seq(Frames) /\ f = toPc[c][1] /\ 1 \in 1..Len(toPc[c])
    <3>1. toPc[c] \in Seq(Frames)
      BY Typed
    <3> QED
      BY <1>2, <3>1, TailOfStream
  <2>2. f.arg \in 1..MaxOps
    BY <1>3, <2>1 DEF DInv, ConnOk, PushesRise
  <2>3. x \in {ClipOf(d, n) : d \in Conns, n \in 1..MaxOps}
    BY <2>2
  <2>4. x \in BeamsUnderWay
    BY <1>2, <1>3, <2>1, InUnderWay, Mapping
  <2>5. \A d : d \in LettingIn' <=> d \in LettingIn \/ d = c
    BY <1>1, <1>2, <1>3, InLetIn
  <2> HIDE DEF f
  <2>6. x = ClipOf(c, Head(toPc'[c]).arg)
    BY <1>1 DEF f
  <2> HIDE DEF x
  <2>7. \A y : y \in BeamsLetIn' <=> y \in BeamsLetIn \/ y = x
    BY <1>1, <2>5, <2>6, InLetIn
  <2>8. BeamsLetIn' = BeamsLetIn \cup {x}
    BY <2>7
  <2>9. Delivery!LetIn(x)
    BY <1>1, <1>3, <2>4, <2>8 DEF Delivery!LetIn
  <2> QED
    BY <2>3, <2>9 DEF Delivery!Next
<1>4. CASE ~(~paused /\ IsPush(f))
  <2>1. \A d : d \in LettingIn' <=> d \in LettingIn
    BY <1>1, <1>2, <1>4, InLetIn
  <2>2. \A y : y \in BeamsLetIn' <=> y \in BeamsLetIn
    BY <1>1, <2>1, InLetIn
  <2>3. BeamsLetIn' = BeamsLetIn
    BY <2>2
  <2> QED
    BY <1>1, <2>3 DEF Delivery!vars
<1> QED
  BY <1>3, <1>4

(* A request: of a clip that is new when it is a beam's and the PC reads. *)
LEMMA RequestDelivers ==
  ASSUME TypeOK, TurnInv, NEW c \in Conns, ConnOk(c), NEW f \in Frames, RequestStepOf(c, f)
  PROVE  [Delivery!Next]_Delivery!vars
<1> DEFINE n == Len(done[c]) + 1
<1> DEFINE x == ClipOf(c, n)
<1>0. /\ OnlyConn(c) /\ paused' = paused /\ done' = done /\ task' = task /\ events' = events
      /\ phone[c].st = "ready" /\ Len(done[c]) < MaxOps
      /\ toPc' = [toPc EXCEPT ![c] = Append(@, f)]
      /\ IsPush(f) => f.arg = n
  BY DEF RequestStepOf, StepOf
<1>1. /\ toPc \in [Conns -> Seq(Frames)] /\ toPc[c] \in Seq(Frames)
      /\ Len(done[c]) \in Nat /\ n \in Nat /\ n \in 1..MaxOps
  BY <1>0, SessionAssumption, Typed
<1>2. /\ toPc'[c] = Append(toPc[c], f) /\ Len(toPc'[c]) = Len(toPc[c]) + 1
      /\ toPc'[c][Len(toPc[c]) + 1] = f /\ Len(toPc[c]) \in Nat
      /\ \A i \in 1..Len(toPc[c]) : toPc'[c][i] = toPc[c][i] /\ i \in 1..Len(toPc'[c])
      /\ \A i \in 1..Len(toPc'[c]) : i \in 1..Len(toPc[c]) \/ i = Len(toPc[c]) + 1
      /\ Len(toPc[c]) + 1 \in 1..Len(toPc'[c])
      /\ \A d \in Conns \ {c} : toPc'[d] = toPc[d]
  BY <1>0, <1>1
<1>3. ASSUME NEW y
      PROVE  y \in UnderWayIn(task', toPc') <=>
               \/ y \in UnderWayIn(task, toPc)
               \/ task[c] # "gone" /\ IsPush(f) /\ y = x
  <2> DEFINE W(in, d) == task[d] # "gone" /\ \E i \in 1..Len(in[d]) :
                            IsPush(in[d][i]) /\ y = ClipOf(d, in[d][i].arg)
  <2>1. \A d \in Conns \ {c} : W(toPc', d) <=> W(toPc, d)
    BY <1>2
  <2>2. W(toPc', c) <=> W(toPc, c) \/ (task[c] # "gone" /\ IsPush(f) /\ y = ClipOf(c, f.arg))
    BY <1>2
  <2>3. y \in UnderWayIn(task', toPc') <=> \E d \in Conns : W(toPc', d)
    <3>1. UnderWayIn(task', toPc') = UnderWayIn(task, toPc')
      BY <1>0
    <3>2. y \in UnderWayIn(task, toPc') <=> \E d \in Conns : W(toPc', d)
      BY InUnderWay
    <3> QED
      BY <3>1, <3>2
  <2>4. y \in UnderWayIn(task, toPc) <=> \E d \in Conns : W(toPc, d)
    BY InUnderWay
  <2> HIDE DEF W
  <2> QED
    BY <1>0, <2>1, <2>2, <2>3, <2>4
<1>4. /\ BeamsReturned({"Ok"})' = BeamsReturned({"Ok"})
      /\ BeamsReturned({"Refused", "TooLarge"})' = BeamsReturned({"Refused", "TooLarge"})
      /\ BeamsDelivered' = BeamsDelivered
  BY <1>0, Mapping
<1>7. BeamsLetIn' = BeamsLetIn
  <2>1. toPc[c] # <<>> => toPc'[c] # <<>> /\ Head(toPc'[c]) = Head(toPc[c])
    BY <1>1, <1>2
  <2>2. UNCHANGED <<turn, sessPaused>>
    BY DEF RequestStepOf
  <2> QED
    BY <1>2, <2>1, <2>2, LetInStays
<1>5. CASE task[c] # "gone" /\ IsPush(f)
  <2>1. UnderWayIn(task', toPc') = UnderWayIn(task, toPc) \cup {x}
    BY <1>3, <1>5
  <2>2. x \notin UnderWayIn(task, toPc)
    <3> SUFFICES ASSUME x \in UnderWayIn(task, toPc)
                 PROVE  FALSE
      OBVIOUS
    <3>1. PICK d \in Conns :
            \E i \in 1..Len(toPc[d]) : IsPush(toPc[d][i]) /\ x = ClipOf(d, toPc[d][i].arg)
      BY InUnderWay
    <3>2. PICK i \in 1..Len(toPc[d]) : IsPush(toPc[d][i]) /\ x = ClipOf(d, toPc[d][i].arg)
      BY <3>1
    <3>3. d = c /\ toPc[c][i].arg = n
      BY <3>2, ClipOfInjective
    <3>4. toPc[c][i].arg <= Len(done[c])
      BY <1>0, <3>2, <3>3 DEF ConnOk, PushesRise, Sent
    <3> QED
      BY <1>1, <3>3, <3>4
  <2>3. x \notin ReturnedIn(done, {"Refused", "TooLarge"})
    <3> SUFFICES ASSUME x \in ReturnedIn(done, {"Refused", "TooLarge"})
                 PROVE  FALSE
      OBVIOUS
    <3>1. PICK d \in Conns : \E i \in 1..Len(done[d]) :
            done[d][i].op.kind = "beam" /\ x = ClipOf(d, done[d][i].op.arg)
      BY InReturned
    <3>2. PICK i \in 1..Len(done[d]) :
            done[d][i].op.kind = "beam" /\ x = ClipOf(d, done[d][i].op.arg)
      BY <3>1
    <3>3. d = c /\ done[c][i].op.arg = n
      BY <3>2, ClipOfInjective
    <3>4. done[c][i].op.arg = i
      BY <3>2, <3>3 DEF ConnOk, Numbered
    <3> QED
      BY <1>1, <3>3, <3>4
  <2>4. ~ArrivedIn(events, c, n)
    BY <1>0, <1>1 DEF ConnOk, ArrivedEarlier, Sent
  <2>5. ~\E d \in DeliveredIn(events) : d.clip = x
    BY <2>4, InDelivered
  <2>6. x \in {ClipOf(d, m) : d \in Conns, m \in 1..MaxOps}
    BY <1>1
  <2> HIDE DEF x
  <2>7. /\ BeamsUnderWay' = BeamsUnderWay \cup {x} /\ x \notin BeamsUnderWay
        /\ x \notin BeamsReturned({"Refused", "TooLarge"})
        /\ ~\E d \in BeamsDelivered : d.clip = x
    BY <2>1, <2>2, <2>3, <2>5, Mapping
  <2>8. Delivery!Beam(x)
    BY <1>0, <1>4, <1>7, <2>7 DEF Delivery!Beam, Delivery!Delivered
  <2> QED
    BY <2>6, <2>8 DEF Delivery!Next
<1>6. CASE ~(task[c] # "gone" /\ IsPush(f))
  <2>1. UnderWayIn(task', toPc') = UnderWayIn(task, toPc)
    BY <1>3, <1>6
  <2>2. BeamsUnderWay' = BeamsUnderWay
    BY <2>1, Mapping
  <2> QED
    BY <1>0, <1>4, <1>7, <2>2 DEF Delivery!vars
<1> QED
  BY <1>5, <1>6

(* A call returns: acknowledged, refused, or with nothing to report. *)
LEMMA ReturnDelivers ==
  ASSUME TypeOK, TurnInv, NEW c \in Conns, ConnOk(c), NEW r \in Results, ReturnStepOf(c, r)
  PROVE  [Delivery!Next]_Delivery!vars
<1> DEFINE n == Len(done[c]) + 1
<1> DEFINE x == ClipOf(c, n)
<1>0. /\ paused' = paused /\ toPc' = toPc /\ task' = task /\ events' = events
      /\ Len(done[c]) < MaxOps /\ done' = [done EXCEPT ![c] = Append(@, r)]
      /\ r.op.kind = "beam" => /\ r.op.arg = n
                               /\ r.out = "Ok" => ArrivedIn(events, c, n)
                               /\ r.out \in {"Refused", "TooLarge"} => Unsent(c)
  BY DEF ReturnStepOf, StepOf
<1>1. done \in [Conns -> Seq(Results)] /\ Len(done[c]) \in Nat /\ n \in 1..MaxOps
  BY <1>0, SessionAssumption, Typed
<1>2. x \in {ClipOf(d, m) : d \in Conns, m \in 1..MaxOps}
  BY <1>1
<1>3. /\ BeamsUnderWay' = BeamsUnderWay /\ BeamsDelivered' = BeamsDelivered
      /\ BeamsLetIn' = BeamsLetIn
  BY <1>0, Mapping, LetInStays DEF ReturnStepOf
<1>4. ASSUME NEW outs, NEW y
      PROVE  y \in ReturnedIn(done', outs) <=>
               \/ y \in ReturnedIn(done, outs)
               \/ r.op.kind = "beam" /\ r.out \in outs /\ y = ClipOf(c, r.op.arg)
  <2> DEFINE R(dn, d) == \E i \in 1..Len(dn[d]) :
               /\ dn[d][i].op.kind = "beam" /\ dn[d][i].out \in outs
               /\ y = ClipOf(d, dn[d][i].op.arg)
  <2>1. /\ Len(done'[c]) = n /\ done'[c][n] = r
        /\ \A i \in 1..Len(done[c]) : done'[c][i] = done[c][i]
        /\ \A d \in Conns \ {c} : done'[d] = done[d]
        /\ \A i : i \in 1..n <=> i \in 1..Len(done[c]) \/ i = n
    BY <1>0, <1>1
  <2>2. \A d \in Conns \ {c} : R(done', d) <=> R(done, d)
    BY <2>1
  <2> HIDE DEF n
  <2>3. R(done', c) <=> \/ R(done, c)
                        \/ r.op.kind = "beam" /\ r.out \in outs /\ y = ClipOf(c, r.op.arg)
    BY <2>1
  <2>4. y \in ReturnedIn(done', outs) <=> \E d \in Conns : R(done', d)
    BY InReturned
  <2>5. y \in ReturnedIn(done, outs) <=> \E d \in Conns : R(done, d)
    BY InReturned
  <2> HIDE DEF R
  <2> QED
    BY <2>2, <2>3, <2>4, <2>5
<1>5. CASE r.op.kind = "beam" /\ r.out = "Ok"
  <2>1. ReturnedIn(done', {"Ok"}) = ReturnedIn(done, {"Ok"}) \cup {x}
    BY <1>0, <1>4, <1>5
  <2>2. ReturnedIn(done', {"Refused", "TooLarge"}) = ReturnedIn(done, {"Refused", "TooLarge"})
    <3>1. r.out \notin {"Refused", "TooLarge"}
      BY <1>5
    <3>2. \A y : y \in ReturnedIn(done', {"Refused", "TooLarge"}) <=>
                  y \in ReturnedIn(done, {"Refused", "TooLarge"})
      BY <1>4, <3>1
    <3> QED
      BY <3>2
  <2>3. \E d \in DeliveredIn(events) : d.clip = x
    BY <1>0, <1>5, InDelivered
  <2> HIDE DEF x
  <2>4. Delivery!Ack(x)
    BY <1>0, <1>3, <2>1, <2>2, <2>3, Mapping DEF Delivery!Ack, Delivery!Delivered
  <2> QED
    BY <1>2, <2>4 DEF Delivery!Next
<1>6. CASE r.op.kind = "beam" /\ r.out \in {"Refused", "TooLarge"}
  <2>1. ReturnedIn(done', {"Refused", "TooLarge"}) =
          ReturnedIn(done, {"Refused", "TooLarge"}) \cup {x}
    BY <1>0, <1>4, <1>6
  <2>2. ReturnedIn(done', {"Ok"}) = ReturnedIn(done, {"Ok"})
    <3>1. r.out \notin {"Ok"}
      BY <1>6
    <3>2. \A y : y \in ReturnedIn(done', {"Ok"}) <=> y \in ReturnedIn(done, {"Ok"})
      BY <1>4, <3>1
    <3> QED
      BY <3>2
  <2>3. ~\E d \in DeliveredIn(events) : d.clip = x
    BY <1>0, <1>6, InDelivered DEF Unsent
  <2>4. x \notin UnderWayIn(task, toPc)
    <3> SUFFICES ASSUME x \in UnderWayIn(task, toPc)
                 PROVE  FALSE
      OBVIOUS
    <3>1. PICK d \in Conns :
            /\ task[d] # "gone"
            /\ \E i \in 1..Len(toPc[d]) : IsPush(toPc[d][i]) /\ x = ClipOf(d, toPc[d][i].arg)
      BY InUnderWay
    <3>2. PICK i \in 1..Len(toPc[d]) : IsPush(toPc[d][i]) /\ x = ClipOf(d, toPc[d][i].arg)
      BY <3>1
    <3>3. d = c /\ toPc[c][i].arg = n
      BY <3>2, ClipOfInjective
    <3> QED
      BY <1>0, <1>6, <3>1, <3>2, <3>3 DEF Unsent
  <2> HIDE DEF x
  <2>5. Delivery!Refuse(x)
    BY <1>0, <1>3, <2>1, <2>2, <2>3, <2>4, Mapping DEF Delivery!Refuse, Delivery!Delivered
  <2> QED
    BY <1>2, <2>5 DEF Delivery!Next
<1>7. CASE ~(r.op.kind = "beam" /\ r.out \in {"Ok", "Refused", "TooLarge"})
  <2>1. ReturnedIn(done', {"Refused", "TooLarge"}) = ReturnedIn(done, {"Refused", "TooLarge"})
        /\ ReturnedIn(done', {"Ok"}) = ReturnedIn(done, {"Ok"})
    <3>1. /\ \A y : y \in ReturnedIn(done', {"Refused", "TooLarge"}) <=>
                    y \in ReturnedIn(done, {"Refused", "TooLarge"})
          /\ \A y : y \in ReturnedIn(done', {"Ok"}) <=> y \in ReturnedIn(done, {"Ok"})
      BY <1>4, <1>7
    <3> QED
      BY <3>1
  <2> QED
    BY <1>0, <1>3, <2>1, Mapping DEF Delivery!vars
<1> QED
  BY <1>5, <1>6, <1>7

-----------------------------------------------------------------------------
(* The invariant is kept by these steps. *)

(* The lengths and numbers of a connection are numbers. *)
LEMMA ConnTypes ==
  ASSUME TypeOK, NEW c \in Conns
  PROVE  /\ done \in [Conns -> Seq(Results)] /\ done[c] \in Seq(Results) /\ Len(done[c]) \in Nat
         /\ toPc \in [Conns -> Seq(Frames)] /\ toPc[c] \in Seq(Frames) /\ Len(toPc[c]) \in Nat
         /\ \A i \in 1..Len(toPc[c]) : toPc[c][i].arg \in Nat
         /\ MaxOps \in Nat /\ events \in Seq(Events)
<1>1. done \in [Conns -> Seq(Results)] /\ toPc \in [Conns -> Seq(Frames)] /\ events \in Seq(Events)
  BY Typed
<1>2. done[c] \in Seq(Results) /\ toPc[c] \in Seq(Frames)
  BY <1>1
<1>3. \A i \in 1..Len(toPc[c]) : toPc[c][i] \in Frames
  BY <1>2
<1>4. \A i \in 1..Len(toPc[c]) : toPc[c][i].arg \in Nat
  BY <1>3 DEF Frames
<1>5. Len(done[c]) \in Nat /\ Len(toPc[c]) \in Nat
  BY <1>2
<1> QED
  BY <1>1, <1>2, <1>4, <1>5, SessionAssumption

(* A step of one connection is none of the others'. *)
LEMMA OtherKeeps ==
  ASSUME NEW c \in Conns, OnlyConn(c), NEW d \in Conns \ {c}, ConnOk(d),
         \A n : ArrivedIn(events', d, n) => ArrivedIn(events, d, n)
  PROVE  ConnOk(d)'
<1>1. /\ phone'[d] = phone[d] /\ done'[d] = done[d] /\ task'[d] = task[d]
      /\ toPc'[d] = toPc[d] /\ toPhone'[d] = toPhone[d]
  BY DEF OnlyConn
<1>2. Numbered(phone'[d], done'[d]) /\ PushesRise(phone'[d], done'[d], toPc'[d])
  BY <1>1 DEF ConnOk
<1>3. ArrivedEarlier(d)'
  BY <1>1 DEF ConnOk, ArrivedEarlier
<1>4. ErrorIsLast(d)'
  BY <1>1 DEF ConnOk, ErrorIsLast
<1> QED
  BY <1>2, <1>3, <1>4 DEF ConnOk

(* A quiet step. *)
LEMMA QuietKeeps ==
  ASSUME TypeOK, NEW c \in Conns, ConnOk(c), QuietStepOf(c)
  PROVE  ConnOk(c)'
<1>1. /\ done' = done /\ \A n : ArrivedIn(events', c, n) => ArrivedIn(events, c, n)
      /\ \A n : Sent(phone[c], done[c], n) => Sent(phone'[c], done'[c], n)
      /\ task[c] = "gone" => task'[c] = "gone"
  BY NoDelivery DEF QuietStepOf, Sent
<1>2. PICK k \in {0, 1} :
        \A i \in 1..Len(toPc'[c]) :
          IsPush(toPc'[c][i]) => i + k \in 1..Len(toPc[c]) /\ toPc[c][i + k] = toPc'[c][i]
  BY DEF QuietStepOf, Fewer
<1>3. Numbered(phone'[c], done'[c])
  BY <1>1 DEF ConnOk, QuietStepOf, Numbered
<1>4. PushesRise(phone'[c], done'[c], toPc'[c])
  <2> SUFFICES ASSUME NEW i \in 1..Len(toPc'[c]), IsPush(toPc'[c][i])
               PROVE  /\ toPc'[c][i].arg \in 1..MaxOps
                      /\ Sent(phone'[c], done'[c], toPc'[c][i].arg)
                      /\ \A j \in 1..Len(toPc'[c]) :
                           i < j /\ IsPush(toPc'[c][j]) => toPc'[c][i].arg < toPc'[c][j].arg
    BY DEF PushesRise
  <2>1. i + k \in 1..Len(toPc[c]) /\ toPc[c][i + k] = toPc'[c][i]
    BY <1>2
  <2>2. toPc'[c][i].arg \in 1..MaxOps /\ Sent(phone'[c], done'[c], toPc'[c][i].arg)
    BY <1>1, <2>1 DEF ConnOk, PushesRise
  <2>3. ASSUME NEW j \in 1..Len(toPc'[c]), i < j, IsPush(toPc'[c][j])
        PROVE  toPc'[c][i].arg < toPc'[c][j].arg
    <3>1. j + k \in 1..Len(toPc[c]) /\ toPc[c][j + k] = toPc'[c][j]
      BY <1>2, <2>3
    <3>2. i + k < j + k
      BY <2>3
    <3> QED
      BY <2>1, <2>3, <3>1, <3>2 DEF ConnOk, PushesRise
  <2> QED
    BY <2>2, <2>3
<1>5. ArrivedEarlier(c)'
  <2> SUFFICES ASSUME NEW n \in Nat, ArrivedIn(events', c, n)
               PROVE  /\ Sent(phone'[c], done'[c], n)
                      /\ task'[c] # "gone" =>
                           \A i \in 1..Len(toPc'[c]) : IsPush(toPc'[c][i]) => n < toPc'[c][i].arg
    BY DEF ArrivedEarlier
  <2>1. ArrivedIn(events, c, n)
    BY <1>1
  <2> QED
    BY <1>1, <1>2, <2>1 DEF ConnOk, ArrivedEarlier
<1>6. ErrorIsLast(c)'
  BY <1>1 DEF ConnOk, ErrorIsLast, QuietStepOf
<1> QED
  BY <1>3, <1>4, <1>5, <1>6 DEF ConnOk

(* A call returns. *)
LEMMA ReturnKeeps ==
  ASSUME TypeOK, NEW c \in Conns, ConnOk(c), NEW r \in Results, ReturnStepOf(c, r)
  PROVE  ConnOk(c)'
<1> DEFINE m == Len(done[c])
<1>0. /\ toPc' = toPc /\ task' = task /\ events' = events
      /\ m < MaxOps /\ phone'[c].st \in {"ready", "closed"}
      /\ Errors(toPhone'[c]) => Errors(toPhone[c])
      /\ r.op.kind = "beam" => r.op.arg = m + 1
  BY DEF ReturnStepOf
<1>1. /\ Len(done'[c]) = m + 1 /\ done'[c][m + 1] = r /\ m \in Nat
      /\ \A i \in 1..m : done'[c][i] = done[c][i]
      /\ MaxOps \in Nat /\ \A i : i \in 1..(m + 1) <=> i \in 1..m \/ i = m + 1
  BY ConnTypes DEF ReturnStepOf
<1>2. \A i \in 1..m : done[c][i].op.kind = "beam" => done[c][i].op.arg = i
  BY DEF ConnOk, Numbered
<1>3. \A n : Sent(phone[c], done[c], n) => n <= m \/ n = m + 1
  BY DEF Sent
<1>4. \A n \in Nat : Sent(phone'[c], done'[c], n) <=>
                        n <= m + 1 \/ (n = m + 2 /\ phone'[c].st = "closed")
  BY <1>0, <1>1 DEF Sent
<1>5. \A n \in Nat : Sent(phone[c], done[c], n) => n <= m + 1
  BY <1>1, <1>3
<1>6. \A i \in 1..Len(toPc[c]) : toPc[c][i].arg \in Nat
  BY ConnTypes
<1> HIDE DEF m
<1>7. Numbered(phone'[c], done'[c])
  BY <1>0, <1>1, <1>2 DEF Numbered
<1>8. PushesRise(phone'[c], done'[c], toPc'[c])
  BY <1>0, <1>4, <1>5, <1>6 DEF ConnOk, PushesRise
<1>9. ArrivedEarlier(c)'
  BY <1>0, <1>4, <1>5 DEF ConnOk, ArrivedEarlier
<1>10. ErrorIsLast(c)'
  <2>1. m + 2 \in Nat /\ ~(m + 2 <= m + 1) /\ Len(done'[c]) + 1 = m + 2
    BY <1>1
  <2>2. ~ArrivedIn(events, c, m + 2)
    BY <1>5, <2>1 DEF ConnOk, ArrivedEarlier
  <2> QED
    BY <1>0, <2>1, <2>2 DEF ConnOk, ErrorIsLast
<1> QED
  BY <1>7, <1>8, <1>9, <1>10 DEF ConnOk

(* A call sends its request, of a clip later than all before. *)
LEMMA RequestKeepsConn ==
  ASSUME TypeOK, NEW c \in Conns, ConnOk(c), NEW f \in Frames, RequestStepOf(c, f)
  PROVE  ConnOk(c)'
<1> DEFINE m == Len(done[c])
<1> DEFINE l == Len(toPc[c])
<1>0. /\ done' = done /\ task' = task /\ toPhone' = toPhone /\ events' = events
      /\ m < MaxOps /\ phone[c].st = "ready" /\ phone'[c].st = "waiting"
      /\ phone'[c].op.kind = "beam" => phone'[c].op.arg = m + 1
      /\ IsPush(f) => f.arg = m + 1
  BY DEF RequestStepOf
<1>1. /\ Len(toPc'[c]) = l + 1 /\ toPc'[c][l + 1] = f /\ m \in Nat /\ l \in Nat /\ MaxOps \in Nat
      /\ \A i \in 1..l : toPc'[c][i] = toPc[c][i] /\ toPc[c][i].arg \in Nat /\ i < l + 1
      /\ \A i : i \in 1..(l + 1) <=> i \in 1..l \/ i = l + 1
      /\ \A i \in 1..l : ~(l + 1 < i)
  BY ConnTypes DEF RequestStepOf
<1>2. \A n : Sent(phone[c], done[c], n) <=> n <= m
  BY <1>0 DEF Sent
<1>3. \A n : Sent(phone'[c], done'[c], n) <=> n <= m \/ n = m + 1
  BY <1>0 DEF Sent
<1> HIDE DEF m, l
<1>4. Numbered(phone'[c], done'[c])
  BY <1>0 DEF ConnOk, Numbered, m
<1>5. PushesRise(phone'[c], done'[c], toPc'[c])
  <2> SUFFICES ASSUME NEW i \in 1..(l + 1), IsPush(toPc'[c][i])
               PROVE  /\ toPc'[c][i].arg \in 1..MaxOps
                      /\ Sent(phone'[c], done'[c], toPc'[c][i].arg)
                      /\ \A j \in 1..(l + 1) :
                           i < j /\ IsPush(toPc'[c][j]) => toPc'[c][i].arg < toPc'[c][j].arg
    BY <1>1 DEF PushesRise
  <2>1. CASE i \in 1..l
    <3>1. /\ toPc[c][i] = toPc'[c][i] /\ toPc[c][i].arg \in 1..MaxOps /\ toPc[c][i].arg <= m
          /\ \A j \in 1..l : i < j /\ IsPush(toPc[c][j]) => toPc[c][i].arg < toPc[c][j].arg
      BY <1>1, <1>2, <2>1 DEF ConnOk, PushesRise, l
    <3>2. toPc[c][i].arg < m + 1
      BY <1>1, <3>1
    <3> QED
      BY <1>0, <1>1, <1>3, <3>1, <3>2
  <2>2. CASE i = l + 1
    <3>1. toPc'[c][i].arg = m + 1 /\ m + 1 \in 1..MaxOps
      BY <1>0, <1>1, <2>2
    <3>2. \A j \in 1..(l + 1) : ~(i < j)
      BY <1>1, <2>2
    <3> QED
      BY <1>3, <3>1, <3>2
  <2> QED
    BY <1>1, <2>1, <2>2
<1>6. ArrivedEarlier(c)'
  <2> SUFFICES ASSUME NEW n \in Nat, ArrivedIn(events, c, n)
               PROVE  /\ Sent(phone'[c], done'[c], n)
                      /\ task[c] # "gone" =>
                           \A i \in 1..(l + 1) : IsPush(toPc'[c][i]) => n < toPc'[c][i].arg
    BY <1>0, <1>1 DEF ArrivedEarlier
  <2>1. /\ n <= m
        /\ task[c] # "gone" => \A i \in 1..l : IsPush(toPc[c][i]) => n < toPc[c][i].arg
    BY <1>2 DEF ConnOk, ArrivedEarlier, l
  <2>2. n < m + 1
    BY <1>1, <2>1
  <2> QED
    BY <1>0, <1>1, <1>3, <2>1, <2>2
<1>7. ErrorIsLast(c)'
  BY <1>0 DEF ConnOk, ErrorIsLast
<1> QED
  BY <1>4, <1>5, <1>6, <1>7 DEF ConnOk

(* The clip the PC reads was sent, after all that have arrived and before  *)
(* those that follow it.                                                   *)
LEMMA ReadClip ==
  ASSUME TypeOK, NEW c \in Conns, ConnOk(c), TakesClip(c)
  PROVE  LET f == Head(toPc[c]) IN
           /\ f.arg \in Nat /\ Sent(phone[c], done[c], f.arg)
           /\ \A n \in Nat : ArrivedIn(events, c, n) => n < f.arg
           /\ \A i \in 1..Len(toPc'[c]) : IsPush(toPc'[c][i]) => f.arg < toPc'[c][i].arg
           /\ PushesRise(phone'[c], done'[c], toPc'[c])
<1> DEFINE f == Head(toPc[c])
<1> DEFINE t == Tail(toPc[c])
<1>0. /\ phone' = phone /\ done' = done /\ task[c] # "gone"
      /\ toPc[c] # <<>> /\ IsPush(f) /\ toPc'[c] = t
  BY ConnTypes DEF TakesClip
<1>1. /\ f = toPc[c][1] /\ 1 \in 1..Len(toPc[c])
      /\ \A i \in 1..Len(t) : i + 1 \in 1..Len(toPc[c]) /\ t[i] = toPc[c][i + 1]
  BY <1>0, ConnTypes, TailOfStream
<1>2. \A i \in 1..Len(t) : i \in Nat /\ 1 < i + 1
  <2>1. t \in Seq(Frames)
    BY <1>0, ConnTypes
  <2> QED
    BY <2>1
<1> HIDE DEF f, t
<1>3. f.arg \in Nat /\ Sent(phone[c], done[c], f.arg)
  BY <1>0, <1>1, ConnTypes DEF ConnOk, PushesRise
<1>4. \A n \in Nat : ArrivedIn(events, c, n) => n < f.arg
  BY <1>0, <1>1 DEF ConnOk, ArrivedEarlier
<1>5. \A i \in 1..Len(t) : IsPush(t[i]) => f.arg < t[i].arg
  BY <1>0, <1>1, <1>2 DEF ConnOk, PushesRise
<1>6. PushesRise(phone[c], done[c], t)
  <2> SUFFICES ASSUME NEW i \in 1..Len(t), IsPush(t[i])
               PROVE  /\ t[i].arg \in 1..MaxOps /\ Sent(phone[c], done[c], t[i].arg)
                      /\ \A j \in 1..Len(t) : i < j /\ IsPush(t[j]) => t[i].arg < t[j].arg
    BY DEF PushesRise
  <2>1. i + 1 \in 1..Len(toPc[c]) /\ t[i] = toPc[c][i + 1]
    BY <1>1
  <2>2. ASSUME NEW j \in 1..Len(t), i < j, IsPush(t[j])
        PROVE  t[i].arg < t[j].arg
    <3>1. j + 1 \in 1..Len(toPc[c]) /\ t[j] = toPc[c][j + 1] /\ i + 1 < j + 1
      BY <1>1, <1>2, <2>2
    <3> QED
      BY <2>1, <2>2, <3>1 DEF ConnOk, PushesRise
  <2> QED
    BY <2>1, <2>2 DEF ConnOk, PushesRise
<1> QED
  BY <1>0, <1>3, <1>4, <1>5, <1>6 DEF f

(* A clip is handed on. *)
LEMMA ArrivalKeeps ==
  ASSUME TypeOK, NEW c \in Conns, ConnOk(c), ArrivalStepOf(c)
  PROVE  /\ ConnOk(c)'
         /\ \A d \in Conns \ {c} : \A n : ArrivedIn(events', d, n) => ArrivedIn(events, d, n)
<1> DEFINE f == Head(toPc[c])
<1>0. /\ TakesClip(c) /\ phone' = phone /\ done' = done /\ task[c] # "gone"
      /\ events' = Append(events, ClipOf(c, f.arg))
      /\ Errors(toPhone'[c]) => Errors(toPhone[c])
  BY DEF ArrivalStepOf, TakesClip
<1>1. /\ f.arg \in Nat /\ Sent(phone[c], done[c], f.arg)
      /\ \A n \in Nat : ArrivedIn(events, c, n) => n < f.arg
      /\ \A i \in 1..Len(toPc'[c]) : IsPush(toPc'[c][i]) => f.arg < toPc'[c][i].arg
      /\ PushesRise(phone'[c], done'[c], toPc'[c])
  BY <1>0, ReadClip
<1> HIDE DEF f
<1>2. ASSUME NEW d, NEW n, ArrivedIn(events', d, n)
      PROVE  ArrivedIn(events, d, n) \/ (d = c /\ n = f.arg)
  <2>1. PICK i \in 1..Len(events') : events'[i] = Event("ClipArrived", d, n)
    BY <1>2 DEF ArrivedIn
  <2>2. (i \in 1..Len(events) /\ events'[i] = events[i]) \/ events'[i] = ClipOf(c, f.arg)
    BY <1>0, <2>1, ConnTypes
  <2> QED
    BY <2>1, <2>2 DEF ArrivedIn, ClipOf, Event
<1>3. Numbered(phone'[c], done'[c])
  BY <1>0 DEF ConnOk
<1>4. ArrivedEarlier(c)'
  <2> SUFFICES ASSUME NEW n \in Nat, ArrivedIn(events', c, n)
               PROVE  /\ Sent(phone'[c], done'[c], n)
                      /\ \A i \in 1..Len(toPc'[c]) : IsPush(toPc'[c][i]) => n < toPc'[c][i].arg
    BY DEF ArrivedEarlier
  <2>1. CASE n = f.arg
    BY <1>0, <1>1, <2>1
  <2>2. CASE ArrivedIn(events, c, n)
    <3>1. n < f.arg /\ Sent(phone[c], done[c], n)
      BY <1>1, <2>2 DEF ConnOk, ArrivedEarlier
    <3>2. \A i \in 1..Len(toPc'[c]) :
            IsPush(toPc'[c][i]) => toPc'[c][i].arg \in Nat /\ f.arg < toPc'[c][i].arg
      <4>1. \A k \in 1..MaxOps : k \in Nat
        BY ConnTypes
      <4>2. \A i \in 1..Len(toPc'[c]) : IsPush(toPc'[c][i]) => toPc'[c][i].arg \in 1..MaxOps
        BY <1>1 DEF PushesRise
      <4> QED
        BY <1>1, <4>1, <4>2
    <3>3. \A k \in Nat : f.arg < k => n < k
      BY <1>1, <3>1
    <3> QED
      BY <1>0, <3>1, <3>2, <3>3
  <2> QED
    BY <1>2, <2>1, <2>2
<1>5. ErrorIsLast(c)'
  BY <1>0 DEF ConnOk, ErrorIsLast
<1> QED
  BY <1>1, <1>2, <1>3, <1>4, <1>5 DEF ConnOk

(* A clip is refused. *)
LEMMA RefusalKeeps ==
  ASSUME TypeOK, NEW c \in Conns, ConnOk(c), RefusalStepOf(c)
  PROVE  ConnOk(c)'
<1> DEFINE f == Head(toPc[c])
<1>0. /\ TakesClip(c) /\ phone' = phone /\ done' = done /\ task'[c] = "gone"
      /\ \A n : ArrivedIn(events', c, n) => ArrivedIn(events, c, n)
  BY NoDelivery DEF RefusalStepOf, TakesClip
<1>1. /\ f.arg \in Nat /\ Sent(phone[c], done[c], f.arg)
      /\ \A n \in Nat : ArrivedIn(events, c, n) => n < f.arg
      /\ PushesRise(phone'[c], done'[c], toPc'[c])
  BY <1>0, ReadClip
<1> HIDE DEF f
<1>2. Numbered(phone'[c], done'[c])
  BY <1>0 DEF ConnOk
<1>3. ArrivedEarlier(c)'
  BY <1>0 DEF ConnOk, ArrivedEarlier
<1>4. ErrorIsLast(c)'
  <2> DEFINE m == Len(done[c])
  <2>1. f.arg <= m \/ f.arg = m + 1
    BY <1>1, ConnTypes DEF Sent
  <2>2. m \in Nat
    BY ConnTypes
  <2> HIDE DEF m
  <2>3. m + 1 \in Nat /\ ~(m + 1 < f.arg)
    BY <1>1, <2>1, <2>2
  <2>4. ~ArrivedIn(events, c, m + 1)
    BY <1>1, <2>3
  <2> QED
    BY <1>0, <2>4 DEF ErrorIsLast, m
<1> QED
  BY <1>1, <1>2, <1>3, <1>4 DEF ConnOk

-----------------------------------------------------------------------------
(* Every step of Session is of one of these kinds. *)

StepKind(c) ==
  \/ QuietStepOf(c) \/ ArrivalStepOf(c) \/ RefusalStepOf(c)
  \/ \E r \in Results : ReturnStepOf(c, r)
  \/ \E f \in Frames : RequestStepOf(c, f)

(* The ways a stream to the PC keeps its clips. *)
LEMMA StreamsFewer ==
  ASSUME NEW s \in Seq(Frames)
  PROVE  /\ Fewer(s, s)
         /\ \A f : ~IsPush(f) => Fewer(s, <<f>>)
         /\ \A k \in DOMAIN s, ty \in Broken : Fewer(s, [s EXCEPT ![k].ty = ty])
<1>1. Fewer(s, s)
  BY DEF Fewer
<1>2. ASSUME NEW f, ~IsPush(f)
      PROVE  Fewer(s, <<f>>)
  BY <1>2 DEF Fewer
<1>3. ASSUME NEW k \in DOMAIN s, NEW ty \in Broken
      PROVE  Fewer(s, [s EXCEPT ![k].ty = ty])
  <2> DEFINE t == [s EXCEPT ![k].ty = ty]
  <2>1. Len(t) = Len(s) /\ t[k].ty = ty /\ \A i \in 1..Len(s) : i # k => t[i] = s[i]
    BY <1>3, DamagedStream
  <2>2. ~IsPush(t[k])
    BY <2>1 DEF IsPush, Broken
  <2> HIDE DEF t
  <2>3. \A i \in 1..Len(t) : IsPush(t[i]) => i + 0 \in 1..Len(s) /\ s[i + 0] = t[i]
    BY <2>1, <2>2
  <2>4. Fewer(s, t)
    BY <2>3 DEF Fewer
  <2> QED
    BY <2>4 DEF t
<1> QED
  BY <1>1, <1>2, <1>3

(* The ways a stream to the phone gets no ERROR. *)
LEMMA StreamsErrors ==
  ASSUME NEW s \in Seq(Frames)
  PROVE  /\ s # <<>> /\ Errors(Tail(s)) => Errors(s)
         /\ \A f : f.ty # "Error" /\ Errors(Append(s, f)) => Errors(s)
         /\ \A ty \in Broken : s # <<>> /\ Errors([s EXCEPT ![1].ty = ty]) => Errors(s)
<1>1. ASSUME s # <<>>, Errors(Tail(s))
      PROVE  Errors(s)
  BY <1>1, TailOfStream DEF Errors
<1>2. ASSUME NEW f, f.ty # "Error", Errors(Append(s, f))
      PROVE  Errors(s)
  <2>1. PICK i \in 1..Len(Append(s, f)) : Append(s, f)[i].ty = "Error"
    BY <1>2 DEF Errors
  <2>2. \/ i \in 1..Len(s) /\ Append(s, f)[i] = s[i]
        \/ Append(s, f)[i] = f
    OBVIOUS
  <2> QED
    BY <1>2, <2>1, <2>2 DEF Errors
<1>3. ASSUME NEW ty \in Broken, s # <<>>, Errors([s EXCEPT ![1].ty = ty])
      PROVE  Errors(s)
  <2> DEFINE t == [s EXCEPT ![1].ty = ty]
  <2>1. Len(t) = Len(s) /\ t[1].ty = ty /\ \A i \in 2..Len(s) : t[i] = s[i]
    <3>1. 1 \in DOMAIN s
      BY <1>3
    <3> HIDE DEF t
    <3> QED
      BY <3>1, DamagedStream DEF t
  <2>2. \A i \in 1..Len(s) : i = 1 \/ i \in 2..Len(s)
    OBVIOUS
  <2>3. t[1].ty # "Error"
    BY <2>1 DEF Broken
  <2>4. Errors(t)
    BY <1>3
  <2> HIDE DEF t
  <2> QED
    BY <2>1, <2>2, <2>3, <2>4 DEF Errors
<1> QED
  BY <1>1, <1>2, <1>3

(* The phone's end moves without a call returning. *)
LEMMA PhoneQuiet ==
  ASSUME TypeOK, NEW c \in Conns, NEW e, phone' = [phone EXCEPT ![c] = e],
         e.st # "waiting", phone[c].st \in {"waiting", "closed"} => e.st = "closed",
         UNCHANGED <<done, task, toPc, events, paused>>,
         \/ toPhone' = toPhone
         \/ toPhone[c] # <<>> /\ toPhone' = [toPhone EXCEPT ![c] = Tail(@)]
  PROVE  QuietStepOf(c)
<1>0. /\ phone \in [Conns -> Ends] /\ toPhone \in [Conns -> Seq(Frames)]
      /\ toPhone[c] \in Seq(Frames) /\ toPc[c] \in Seq(Frames)
  BY Typed
<1>1. phone'[c] = e /\ \A d \in Conns \ {c} : phone'[d] = phone[d]
  BY <1>0
<1>2. /\ \A d \in Conns \ {c} : toPhone'[d] = toPhone[d]
      /\ Errors(toPhone'[c]) => Errors(toPhone[c])
  BY <1>0, StreamsErrors
<1>3. StepOf(c) /\ NoArrival
  BY <1>1, <1>2 DEF StepOf, OnlyConn, NoArrival
<1>4. Fewer(toPc[c], toPc'[c])
  BY <1>0, StreamsFewer
<1> QED
  BY <1>1, <1>2, <1>3, <1>4 DEF QuietStepOf

(* The PC's task moves, writing no ERROR and handing nothing on. *)
LEMMA PcQuiet ==
  ASSUME TypeOK, NEW c \in Conns, UNCHANGED pcFrame, UNCHANGED agentVars, NoArrival,
         \/ toPc' = toPc
         \/ toPc[c] # <<>> /\ toPc' = [toPc EXCEPT ![c] = Tail(@)],
         \/ task' = task
         \/ task[c] # "gone" /\ \E s : task' = [task EXCEPT ![c] = s],
         \/ toPhone' = toPhone
         \/ \E f : f.ty # "Error" /\ toPhone' = [toPhone EXCEPT ![c] = Append(@, f)]
  PROVE  QuietStepOf(c)
<1>0. /\ task \in [Conns -> TaskStates] /\ toPc \in [Conns -> Seq(Frames)]
      /\ toPhone \in [Conns -> Seq(Frames)]
      /\ toPhone[c] \in Seq(Frames) /\ toPc[c] \in Seq(Frames)
  BY Typed
<1>1. phone' = phone /\ done' = done /\ paused' = paused
  BY DEF pcFrame, agentVars
<1>2. /\ \A d \in Conns \ {c} : toPhone'[d] = toPhone[d]
      /\ Errors(toPhone'[c]) => Errors(toPhone[c])
  <2>1. CASE toPhone' = toPhone
    BY <2>1
  <2>2. ASSUME NEW f, f.ty # "Error", toPhone' = [toPhone EXCEPT ![c] = Append(@, f)]
        PROVE  /\ \A d \in Conns \ {c} : toPhone'[d] = toPhone[d]
               /\ Errors(toPhone'[c]) => Errors(toPhone[c])
    <3>1. toPhone'[c] = Append(toPhone[c], f) /\ \A d \in Conns \ {c} : toPhone'[d] = toPhone[d]
      BY <1>0, <2>2
    <3> QED
      BY <1>0, <2>2, <3>1, StreamsErrors
  <2> QED
    BY <2>1, <2>2
<1>3. /\ \A d \in Conns \ {c} : toPc'[d] = toPc[d]
      /\ Fewer(toPc[c], toPc'[c])
  BY <1>0, StreamsFewer, TailFewer
<1>4. /\ \A d \in Conns \ {c} : task'[d] = task[d]
      /\ task[c] = "gone" => task'[c] = "gone"
  BY <1>0
<1>5. StepOf(c)
  BY <1>1, <1>2, <1>3, <1>4 DEF StepOf, OnlyConn
<1> QED
  BY <1>1, <1>2, <1>3, <1>4, <1>5 DEF QuietStepOf

(* A connection is opened, its handshake ends, or it is dropped. *)
LEMMA OpenKind ==
  ASSUME TypeOK, TaskTells, NEW c \in Conns,
         PhoneOpen(c) \/ PhoneHelloAck(c) \/ PhoneOpenFails(c) \/ PhoneDrop(c)
  PROVE  QuietStepOf(c)
<1>0. phone \in [Conns -> Ends] /\ phone[c] \in Ends /\ task \in [Conns -> TaskStates]
      /\ toPc \in [Conns -> Seq(Frames)] /\ toPc[c] \in Seq(Frames)
  BY Typed
<1>1. CASE PhoneOpen(c)
  <2>1. /\ task[c] = "none" /\ phone[c].st = "new" /\ phone'[c].st = "opening"
        /\ \A d \in Conns \ {c} : phone'[d] = phone[d]
    BY <1>0, <1>1 DEF PhoneOpen, TaskTells, Ends
  <2>2. \E v : toPc' = [toPc EXCEPT ![c] = <<Frame("Hello", v, 0, <<>>)>>]
    BY <1>1 DEF PhoneOpen
  <2>3. PICK v : toPc' = [toPc EXCEPT ![c] = <<Frame("Hello", v, 0, <<>>)>>]
    BY <2>2
  <2>4. ~IsPush(Frame("Hello", v, 0, <<>>))
    BY DEF IsPush, Frame
  <2>5. Fewer(toPc[c], toPc'[c]) /\ \A d \in Conns \ {c} : toPc'[d] = toPc[d]
    BY <1>0, <2>3, <2>4, StreamsFewer
  <2>6. /\ \A d \in Conns \ {c} : task'[d] = task[d]
        /\ done' = done /\ toPhone' = toPhone /\ events' = events /\ paused' = paused
    BY <1>0, <1>1 DEF PhoneOpen, agentVars
  <2> QED
    BY <2>1, <2>5, <2>6 DEF QuietStepOf, StepOf, OnlyConn, NoArrival
<1>2. CASE PhoneHelloAck(c)
  <2> DEFINE e == [phone[c] EXCEPT !.st = "ready", !.sess = "Established"]
  <2>1. phone' = [phone EXCEPT ![c] = e] /\ e.st = "ready" /\ phone[c].st = "opening"
    BY <1>0, <1>2 DEF PhoneHelloAck, Ends
  <2>2. /\ UNCHANGED <<done, task, toPc, events, paused>>
        /\ toPhone[c] # <<>> /\ toPhone' = [toPhone EXCEPT ![c] = Tail(@)]
    BY <1>2 DEF PhoneHelloAck, agentVars
  <2> HIDE DEF e
  <2> QED
    BY <2>1, <2>2, PhoneQuiet
<1>3. CASE PhoneOpenFails(c)
  <2> DEFINE e == [phone[c] EXCEPT !.st = "closed"]
  <2>1. phone' = [phone EXCEPT ![c] = e] /\ e.st = "closed"
    BY <1>0, <1>3 DEF PhoneOpenFails, Ends
  <2>2. UNCHANGED <<done, task, toPc, toPhone, events, paused>>
    BY <1>3 DEF PhoneOpenFails, pcVars, agentVars
  <2> HIDE DEF e
  <2> QED
    BY <2>1, <2>2, PhoneQuiet
<1>4. CASE PhoneDrop(c)
  <2> DEFINE e == [phone[c] EXCEPT !.st = "closed", !.op = NoCall]
  <2>1. phone' = [phone EXCEPT ![c] = e] /\ e.st = "closed"
    BY <1>0, <1>4 DEF PhoneDrop, Ends
  <2>2. UNCHANGED <<done, task, toPc, toPhone, events, paused>>
    BY <1>4 DEF PhoneDrop, pcVars, agentVars
  <2> HIDE DEF e
  <2> QED
    BY <2>1, <2>2, PhoneQuiet
<1> QED
  BY <1>1, <1>2, <1>3, <1>4

(* A call returns; the phone may have read a frame. *)
LEMMA ReturnKind ==
  ASSUME TypeOK, NEW c \in Conns, NEW op \in Calls, NEW out \in Outcomes, NEW ids \in Seq(Nat),
         Len(done[c]) < MaxOps, Returned(c, op, out, ids),
         NEW e, phone' = [phone EXCEPT ![c] = e], e.st \in {"ready", "closed"},
         UNCHANGED <<task, turn, sessPaused, toPc, events, paused>>,
         \/ toPhone' = toPhone
         \/ toPhone[c] # <<>> /\ toPhone' = [toPhone EXCEPT ![c] = Tail(@)],
         op.kind = "beam" =>
           /\ op.arg = Len(done[c]) + 1
           /\ out = "Ok" => ArrivedIn(events, c, op.arg)
           /\ out \in {"Refused", "TooLarge"} => Unsent(c)
  PROVE  \E r \in Results : ReturnStepOf(c, r)
<1> DEFINE r == [op |-> op, out |-> out, ids |-> ids]
<1>0. /\ phone \in [Conns -> Ends] /\ done \in [Conns -> Seq(Results)]
      /\ toPhone \in [Conns -> Seq(Frames)] /\ toPhone[c] \in Seq(Frames)
  BY Typed
<1>1. r \in Results /\ r.op = op /\ r.out = out /\ done' = [done EXCEPT ![c] = Append(@, r)]
  BY DEF Results, Returned
<1> HIDE DEF r
<1>2. phone'[c] = e /\ \A d \in Conns \ {c} : phone'[d] = phone[d] /\ done'[d] = done[d]
  BY <1>0, <1>1
<1>3. /\ \A d \in Conns \ {c} : toPhone'[d] = toPhone[d]
      /\ Errors(toPhone'[c]) => Errors(toPhone[c])
  BY <1>0, StreamsErrors
<1>4. StepOf(c)
  BY <1>2, <1>3 DEF StepOf, OnlyConn
<1>5. ReturnStepOf(c, r)
  BY <1>1, <1>2, <1>3, <1>4 DEF ReturnStepOf
<1> QED
  BY <1>1, <1>5

(* A call writes its request, or fails to. *)
LEMMA RequestKind ==
  ASSUME TypeOK, NEW c \in Conns, NEW op \in Calls, NEW f \in Frames,
         CanCall(c), PhoneRequest(c, op, f), UNCHANGED pcVars, UNCHANGED agentVars,
         op.kind = "beam" => op.arg = Len(done[c]) + 1,
         IsPush(f) => f.arg = Len(done[c]) + 1
  PROVE  StepKind(c)
<1>0. /\ phone \in [Conns -> Ends] /\ phone[c] \in Ends /\ toPc \in [Conns -> Seq(Frames)]
      /\ phone[c].st = "ready" /\ Len(done[c]) < MaxOps
  BY Typed DEF CanCall
<1>1. UNCHANGED <<task, turn, sessPaused, toPhone, events, paused>>
  BY DEF pcVars, agentVars
<1>2. CASE /\ toPc' = [toPc EXCEPT ![c] = Append(@, f)]
           /\ phone' = [phone EXCEPT ![c].st = "waiting", ![c].op = op]
           /\ UNCHANGED done
  <2>1. /\ phone'[c].st = "waiting" /\ phone'[c].op = op
        /\ \A d \in Conns \ {c} : phone'[d] = phone[d] /\ toPc'[d] = toPc[d]
    BY <1>0, <1>2 DEF Ends
  <2>2. RequestStepOf(c, f)
    BY <1>0, <1>1, <1>2, <2>1 DEF RequestStepOf, StepOf, OnlyConn
  <2> QED
    BY <2>2 DEF StepKind
<1>3. CASE /\ Returned(c, op, "Protocol", <<>>)
           /\ phone' = [phone EXCEPT ![c].st = "closed"]
           /\ UNCHANGED toPc
  <2> DEFINE e == [phone[c] EXCEPT !.st = "closed"]
  <2>1. phone' = [phone EXCEPT ![c] = e] /\ e.st = "closed"
    BY <1>0, <1>3 DEF Ends
  <2>2. "Protocol" \in Outcomes /\ <<>> \in Seq(Nat)
    BY DEF Outcomes
  <2>3. /\ UNCHANGED <<task, turn, sessPaused, toPc, events, paused>> /\ toPhone' = toPhone
        /\ Returned(c, op, "Protocol", <<>>) /\ e.st \in {"ready", "closed"}
        /\ op.kind = "beam" =>
             /\ op.arg = Len(done[c]) + 1
             /\ "Protocol" = "Ok" => ArrivedIn(events, c, op.arg)
             /\ "Protocol" \in {"Refused", "TooLarge"} => Unsent(c)
    BY <1>1, <1>3, <2>1
  <2> HIDE DEF e
  <2>4. \E r \in Results : ReturnStepOf(c, r)
    BY <1>0, <2>1, <2>2, <2>3, ReturnKind
  <2> QED
    BY <2>4 DEF StepKind
<1> QED
  BY <1>2, <1>3 DEF PhoneRequest

(* A clip that was not sent is not under way and has not arrived. *)
LEMMA NotSent ==
  ASSUME TypeOK, NEW c \in Conns, ConnOk(c), ~Sent(phone[c], done[c], Len(done[c]) + 1)
  PROVE  Unsent(c)
<1>1. Len(done[c]) + 1 \in Nat
  BY ConnTypes
<1> QED
  BY <1>1 DEF ConnOk, ArrivedEarlier, PushesRise, Unsent

(* beam: a clip too large never leaves the phone. *)
LEMMA BeamKind ==
  ASSUME TypeOK, NEW c \in Conns, ConnOk(c), NEW n \in Lens, PhoneBeam(c, n)
  PROVE  StepKind(c)
<1> DEFINE m == Len(done[c]) + 1
<1> DEFINE op == Call("beam", m)
<1> DEFINE f == Frame("ClipPush", op.arg, n, <<>>)
<1>1. m \in Nat /\ phone \in [Conns -> Ends] /\ phone[c] \in Ends
  BY ConnTypes, Typed
<1>2. op \in Calls /\ op.arg = m /\ op.kind = "beam"
  BY <1>1, CallType DEF Call
<1>3. f \in Frames /\ f.arg = m
  BY <1>1, <1>2, SessionAssumption DEF Frame, Frames, PcBound
<1>4. CanCall(c) /\ UNCHANGED pcVars /\ UNCHANGED agentVars
  BY DEF PhoneBeam
<1>5. CASE PhoneRequest(c, op, f)
  <2> HIDE DEF op, f
  <2> QED
    BY <1>2, <1>3, <1>4, <1>5, RequestKind
<1>6. CASE Returned(c, op, "TooLarge", <<>>) /\ UNCHANGED <<phone, toPc>>
  <2>1. phone' = [phone EXCEPT ![c] = phone[c]] /\ phone[c].st = "ready" /\ Len(done[c]) < MaxOps
    BY <1>1, <1>4, <1>6 DEF CanCall
  <2>2. Len(done[c]) \in Nat /\ ~(Len(done[c]) + 1 <= Len(done[c]))
    BY ConnTypes
  <2>3. Unsent(c)
    BY <2>1, <2>2, NotSent DEF Sent
  <2>4. "TooLarge" \in Outcomes /\ <<>> \in Seq(Nat)
    BY DEF Outcomes
  <2>5. UNCHANGED <<task, turn, sessPaused, toPc, events, paused>> /\ toPhone' = toPhone
    BY <1>4, <1>6 DEF pcVars, agentVars
  <2> HIDE DEF op
  <2>6. \E r \in Results : ReturnStepOf(c, r)
    BY <1>2, <1>6, <2>1, <2>3, <2>4, <2>5, ReturnKind
  <2> QED
    BY <2>6 DEF StepKind
<1> QED
  BY <1>5, <1>6 DEF PhoneBeam

(* stage_list and stage_item. *)
LEMMA StageKind ==
  ASSUME TypeOK, NEW c \in Conns,
         PhoneStageList(c) \/ \E id \in 1..copies : PhoneStageItem(c, id)
  PROVE  StepKind(c)
<1>1. copies \in Nat
  BY Typed
<1>2. CASE PhoneStageList(c)
  <2> DEFINE op == Call("list", 0)
  <2> DEFINE f == Frame("StageListReq", 0, 0, <<>>)
  <2>1. op \in Calls /\ op.kind # "beam" /\ f \in Frames /\ ~IsPush(f)
    BY CallType DEF Call, Frame, Frames, PcBound, IsPush
  <2>2. CanCall(c) /\ PhoneRequest(c, op, f) /\ UNCHANGED pcVars /\ UNCHANGED agentVars
    BY <1>2 DEF PhoneStageList
  <2> HIDE DEF op, f
  <2> QED
    BY <2>1, <2>2, RequestKind
<1>3. ASSUME NEW id \in 1..copies, PhoneStageItem(c, id)
      PROVE  StepKind(c)
  <2> DEFINE op == Call("item", id)
  <2> DEFINE f == Frame("StageGet", id, 0, <<>>)
  <2>1. op \in Calls /\ op.kind # "beam" /\ f \in Frames /\ ~IsPush(f)
    <3>1. id \in Nat
      BY <1>1
    <3> QED
      BY <3>1, CallType DEF Call, Frame, Frames, PcBound, IsPush
  <2>2. CanCall(c) /\ PhoneRequest(c, op, f) /\ UNCHANGED pcVars /\ UNCHANGED agentVars
    BY <1>3 DEF PhoneStageItem
  <2> HIDE DEF op, f
  <2> QED
    BY <2>1, <2>2, RequestKind
<1> QED
  BY <1>2, <1>3

(* What beam makes of a frame is "Refused" only on an ERROR. *)
LEMMA RefusedOnError ==
  ASSUME NEW op, NEW sess, NEW f
  PROVE  /\ OnReply(op, sess, f) # "TooLarge"
         /\ OnReply(op, sess, f) = "Refused" => f.ty = "Error"
BY DEF OnReply

(* A call reads a frame. *)
LEMMA ReceiveKind ==
  ASSUME IInv, NEW c \in Conns, ConnOk(c), PhoneReceive(c)
  PROVE  StepKind(c)
<1> DEFINE f == Head(toPhone[c])
<1> DEFINE op == phone[c].op
<1> DEFINE out == OnReply(op, phone[c].sess, f)
<1>0. TypeOK
  BY DEF IInv
<1>1. /\ phone \in [Conns -> Ends] /\ phone[c] \in Ends /\ op \in Calls
      /\ phone[c].sess \in SessStates
      /\ toPhone \in [Conns -> Seq(Frames)] /\ toPhone[c] \in Seq(Frames)
      /\ toPc[c] \in Seq(Frames)
  BY <1>0, Typed, EndType
<1>2. /\ phone[c].st = "waiting"
      /\ toPhone[c] # <<>> /\ toPhone' = [toPhone EXCEPT ![c] = Tail(@)]
      /\ UNCHANGED <<task, turn, sessPaused, toPc, events, paused>>
  BY DEF PhoneReceive, agentVars
<1>3. f \in Frames /\ f = toPhone[c][1] /\ 1 \in 1..Len(toPhone[c]) /\ f.ids \in Seq(Nat)
  <2>1. f \in Frames /\ f = toPhone[c][1] /\ 1 \in 1..Len(toPhone[c])
    BY <1>0, <1>1, <1>2, HeadOfStream
  <2> QED
    BY <2>1 DEF Frames
<1>4. CASE out = "Wait"
  <2>1. UNCHANGED <<phone, done>>
    BY <1>4 DEF PhoneReceive
  <2>2. /\ \A d \in Conns \ {c} : toPhone'[d] = toPhone[d]
        /\ Errors(toPhone'[c]) => Errors(toPhone[c])
    BY <1>1, <1>2, StreamsErrors
  <2>3. Fewer(toPc[c], toPc'[c])
    BY <1>1, <1>2, StreamsFewer
  <2>4. QuietStepOf(c)
    BY <1>2, <2>1, <2>2, <2>3 DEF QuietStepOf, StepOf, OnlyConn, NoArrival
  <2> QED
    BY <2>4 DEF StepKind
<1>5. CASE out # "Wait"
  <2> DEFINE e == [st |-> AfterReturn(out), sess |-> SessAfter(phone[c].sess, f), op |-> NoCall]
  <2>1. Returned(c, op, out, f.ids) /\ phone' = [phone EXCEPT ![c] = e]
    BY <1>5 DEF PhoneReceive
  <2>2. e.st \in {"ready", "closed"}
    BY DEF AfterReturn
  <2>3. /\ out \in Outcomes
        /\ op.kind = "beam" /\ out = "Ok" => f.ty = "ClipAck" /\ f.arg = op.arg
    BY <1>1, <1>3, <1>5, OnReplyResult
  <2>4. out # "TooLarge" /\ (out = "Refused" => f.ty = "Error")
    BY RefusedOnError
  <2> HIDE DEF out, e, f
  <2>5. /\ Len(done[c]) < MaxOps
        /\ op.kind = "beam" => op.arg = Len(done[c]) + 1
    BY <1>2 DEF ConnOk, Numbered
  <2>6. op.kind = "beam" /\ out = "Ok" => ArrivedIn(events, c, op.arg)
    BY <1>3, <2>3 DEF IInv, AcksArrived
  <2>7. out \in {"Refused", "TooLarge"} => Unsent(c)
    BY <1>3, <2>4 DEF ConnOk, ErrorIsLast, Errors, Unsent
  <2> HIDE DEF op
  <2>8. \E r \in Results : ReturnStepOf(c, r)
    BY <1>0, <1>1, <1>2, <1>3, <2>1, <2>2, <2>3, <2>5, <2>6, <2>7, ReturnKind
  <2> QED
    BY <2>8 DEF StepKind
<1> QED
  BY <1>4, <1>5

(* A call returns without a frame. *)
LEMMA EmptyKind ==
  ASSUME TypeOK, NEW c \in Conns, ConnOk(c), NEW out \in {"Closed", "Protocol", "TimedOut"},
         PhoneReturnsEmpty(c, out)
  PROVE  StepKind(c)
<1> DEFINE op == phone[c].op
<1> DEFINE e == [phone[c] EXCEPT !.st = AfterReturn(out), !.op = NoCall]
<1>1. phone \in [Conns -> Ends] /\ phone[c] \in Ends /\ op \in Calls
  BY Typed, EndType
<1>2. /\ phone' = [phone EXCEPT ![c] = e] /\ e.st = AfterReturn(out) /\ phone[c].st = "waiting"
      /\ Returned(c, op, out, <<>>)
  BY <1>1 DEF PhoneReturnsEmpty, Ends
<1>3. UNCHANGED <<task, turn, sessPaused, toPc, events, paused>> /\ toPhone' = toPhone
  BY DEF PhoneReturnsEmpty, pcVars, agentVars
<1>4. /\ Len(done[c]) < MaxOps
      /\ op.kind = "beam" => op.arg = Len(done[c]) + 1
  BY <1>2 DEF ConnOk, Numbered
<1>5. AfterReturn(out) \in {"ready", "closed"} /\ out \in Outcomes /\ <<>> \in Seq(Nat)
  BY DEF AfterReturn, Outcomes
<1>6. out \notin {"Ok", "Refused", "TooLarge"}
  OBVIOUS
<1> HIDE DEF op, e
<1>7. \E r \in Results : ReturnStepOf(c, r)
  BY <1>1, <1>2, <1>3, <1>4, <1>5, <1>6, ReturnKind
<1> QED
  BY <1>7 DEF StepKind

(* The phone's steps. *)
LEMMA PhoneKind ==
  ASSUME IInv, TaskTells, NEW c \in Conns, ConnOk(c), PhoneNext(c)
  PROVE  StepKind(c)
<1>0. TypeOK
  BY DEF IInv
<1>1. CASE PhoneOpen(c) \/ PhoneHelloAck(c) \/ PhoneOpenFails(c) \/ PhoneDrop(c)
  BY <1>0, <1>1, OpenKind DEF StepKind
<1>2. CASE \E n \in Lens : PhoneBeam(c, n)
  BY <1>0, <1>2, BeamKind
<1>3. CASE PhoneStageList(c) \/ \E id \in 1..copies : PhoneStageItem(c, id)
  BY <1>0, <1>3, StageKind
<1>4. CASE PhoneReceive(c)
  BY <1>4, ReceiveKind
<1>5. CASE PhoneEof(c) \/ PhoneReset(c) \/ PhoneTimeout(c)
  BY <1>0, <1>5, EmptyKind DEF PhoneEof, PhoneReset, PhoneTimeout
<1> QED
  BY <1>1, <1>2, <1>3, <1>4, <1>5 DEF PhoneNext

(* The PC hands a clip on, and acknowledges it or fails to. *)
LEMMA ClipPushKind ==
  ASSUME TypeOK, NEW c \in Conns, NEW ok \in BOOLEAN, PcClipPush(c, ok)
  PROVE  ArrivalStepOf(c)
<1> DEFINE f == Head(toPc[c])
<1> DEFINE g == Frame("ClipAck", f.arg, 0, <<>>)
<1>0. /\ task \in [Conns -> TaskStates] /\ toPc \in [Conns -> Seq(Frames)]
      /\ toPhone \in [Conns -> Seq(Frames)] /\ toPhone[c] \in Seq(Frames)
  BY Typed
<1>1. /\ Handles(c, "Established", "ClipPush") /\ ~sessPaused[c] /\ sessPaused' = sessPaused
      /\ phone' = phone /\ done' = done /\ paused' = paused
      /\ events' = Append(events, ClipOf(c, f.arg))
  BY DEF PcClipPush, ClipOf, pcFrame, agentVars
<1>2. turn[c] /\ turn' = [turn EXCEPT ![c] = FALSE]
  BY <1>1 DEF Handles
<1>3. /\ toPc[c] # <<>> /\ IsPush(f) /\ toPc' = [toPc EXCEPT ![c] = Tail(@)] /\ task[c] # "gone"
  BY <1>1 DEF Handles, IsPush
<1>4. /\ \A d \in Conns \ {c} : toPhone'[d] = toPhone[d] /\ task'[d] = task[d]
      /\ toPhone'[c] \in {toPhone[c], Append(toPhone[c], g)}
  BY <1>0 DEF PcClipPush
<1>5. g.ty # "Error"
  BY DEF Frame
<1>6. \A d \in Conns \ {c} : toPc'[d] = toPc[d]
  BY <1>0, <1>3
<1> HIDE DEF f, g
<1>7. Errors(toPhone'[c]) => Errors(toPhone[c])
  <2>1. CASE toPhone'[c] = toPhone[c]
    BY <2>1
  <2>2. CASE toPhone'[c] = Append(toPhone[c], g)
    <3>1. Errors(Append(toPhone[c], g)) => Errors(toPhone[c])
      BY <1>0, <1>5, StreamsErrors
    <3> QED
      BY <2>2, <3>1
  <2> QED
    BY <1>4, <2>1, <2>2
<1> QED
  BY <1>1, <1>2, <1>3, <1>4, <1>6, <1>7 DEF ArrivalStepOf, TakesClip, StepOf, OnlyConn, f

(* The PC refuses a clip. *)
LEMMA RefuseKind ==
  ASSUME TypeOK, NEW c \in Conns, NEW ok \in BOOLEAN, PcRefuseClip(c, ok)
  PROVE  RefusalStepOf(c)
<1> DEFINE e == Event("PeerDisconnected", c, 0)
<1>0. /\ task \in [Conns -> TaskStates] /\ toPc \in [Conns -> Seq(Frames)]
      /\ toPhone \in [Conns -> Seq(Frames)]
  BY Typed
<1>1. /\ Handles(c, "Established", "ClipPush")
      /\ phone' = phone /\ done' = done /\ paused' = paused
      /\ task' = [task EXCEPT ![c] = "gone"]
  BY DEF PcRefuseClip, pcFrame, agentVars
<1>2. /\ toPc[c] # <<>> /\ IsPush(Head(toPc[c])) /\ toPc' = [toPc EXCEPT ![c] = Tail(@)]
      /\ task[c] # "gone"
  BY <1>1 DEF Handles, IsPush
<1>3. \A d \in Conns \ {c} : toPhone'[d] = toPhone[d]
  BY <1>0 DEF PcRefuseClip
<1>4. e \in Events /\ e.ev # "ClipArrived"
  BY EventType DEF Event
<1>5. events' = events \/ events' = Append(events, e)
  BY DEF PcRefuseClip
<1> HIDE DEF e
<1>6. NoArrival
  BY <1>4, <1>5 DEF NoArrival
<1>7. /\ task'[c] = "gone"
      /\ \A d \in Conns \ {c} : toPc'[d] = toPc[d] /\ task'[d] = task[d]
  BY <1>0, <1>1, <1>2
<1> QED
  BY <1>1, <1>2, <1>3, <1>6, <1>7 DEF RefusalStepOf, TakesClip, StepOf, OnlyConn

(* The PC's other steps. *)
LEMMA PcOtherKind ==
  ASSUME TypeOK, NEW c \in Conns,
         \/ \E ok \in BOOLEAN : PcHello(c, ok) \/ PcStage(c, ok)
         \/ PcHelloRefused(c)
         \/ PcDamaged(c) \/ PcUndecodable(c) \/ PcEof(c) \/ PcReset(c) \/ PcIdle(c)
  PROVE  QuietStepOf(c)
<1>1. ASSUME NEW ok \in BOOLEAN, PcHello(c, ok)
      PROVE  QuietStepOf(c)
  <2> DEFINE e == Event("PeerConnected", c, 0)
  <2> DEFINE g == Frame("HelloAck", 0, 0, <<>>)
  <2>1. e \in Events /\ e.ev # "ClipArrived" /\ g.ty # "Error"
    BY EventType DEF Event, Frame
  <2>2. /\ events' = events \/ events' = Append(events, e)
        /\ toPhone' = toPhone \/ toPhone' = [toPhone EXCEPT ![c] = Append(@, g)]
        /\ \E s : task' = [task EXCEPT ![c] = s]
        /\ task[c] # "gone" /\ toPc[c] # <<>> /\ toPc' = [toPc EXCEPT ![c] = Tail(@)]
        /\ UNCHANGED pcFrame /\ UNCHANGED agentVars
    BY <1>1 DEF PcHello, Handles
  <2> HIDE DEF e, g
  <2>3. NoArrival
    BY <2>1, <2>2 DEF NoArrival
  <2> QED
    BY <2>1, <2>2, <2>3, PcQuiet
<1>2. ASSUME NEW ok \in BOOLEAN, PcStage(c, ok)
      PROVE  QuietStepOf(c)
  <2> DEFINE g == StageReply(Head(toPc[c]))
  <2>1. g.ty # "Error"
    BY DEF StageReply, Frame
  <2>2. /\ events' = events
        /\ toPhone' = toPhone \/ toPhone' = [toPhone EXCEPT ![c] = Append(@, g)]
        /\ task' = task \/ task' = [task EXCEPT ![c] = "gone"]
        /\ task[c] # "gone" /\ toPc[c] # <<>> /\ toPc' = [toPc EXCEPT ![c] = Tail(@)]
        /\ UNCHANGED pcFrame /\ UNCHANGED agentVars
    BY <1>2 DEF PcStage, Handles
  <2> HIDE DEF g
  <2>3. NoArrival
    BY <2>2 DEF NoArrival
  <2> QED
    BY <2>1, <2>2, <2>3, PcQuiet
<1>3. CASE \/ PcHelloRefused(c) \/ PcDamaged(c) \/ PcUndecodable(c)
           \/ PcEof(c) \/ PcReset(c) \/ PcIdle(c)
  <2> DEFINE e == Event("PeerDisconnected", c, 0)
  <2>1. e \in Events /\ e.ev # "ClipArrived"
    BY EventType DEF Event
  <2>2. /\ events' = events \/ events' = Append(events, e)
        /\ toPhone' = toPhone /\ task' = [task EXCEPT ![c] = "gone"]
        /\ task[c] # "gone"
        /\ \/ toPc' = toPc
           \/ toPc[c] # <<>> /\ toPc' = [toPc EXCEPT ![c] = Tail(@)]
        /\ UNCHANGED pcFrame /\ UNCHANGED agentVars
    BY <1>3 DEF PcHelloRefused, PcDamaged, PcUndecodable, PcEof, PcReset, PcIdle, TaskEnds,
       TaskErrs, Handles, CanRead, Serving
  <2> HIDE DEF e
  <2>3. NoArrival
    BY <2>1, <2>2 DEF NoArrival
  <2> QED
    BY <2>2, <2>3, PcQuiet
<1> QED
  BY <1>1, <1>2, <1>3

(* A frame is damaged in transit. *)
LEMMA DamageKind ==
  ASSUME TypeOK, NEW c \in Conns, NEW ty \in Broken, Damage(c, ty)
  PROVE  QuietStepOf(c)
<1>0. /\ toPc \in [Conns -> Seq(Frames)] /\ toPhone \in [Conns -> Seq(Frames)]
      /\ toPc[c] \in Seq(Frames) /\ toPhone[c] \in Seq(Frames)
  BY Typed
<1>1. phone' = phone /\ done' = done /\ task' = task /\ events' = events /\ paused' = paused
  BY DEF Damage, agentVars
<1>2. CASE DamagesPc(c, ty)
  <2>1. PICK k \in DOMAIN toPc[c] :
          toPc' = [toPc EXCEPT ![c] = [toPc[c] EXCEPT ![k].ty = ty]] /\ UNCHANGED toPhone
    BY <1>2 DEF DamagesPc
  <2>2. /\ toPc'[c] = [toPc[c] EXCEPT ![k].ty = ty]
        /\ \A d \in Conns \ {c} : toPc'[d] = toPc[d]
    BY <1>0, <2>1
  <2>3. Fewer(toPc[c], toPc'[c])
    BY <1>0, <2>2, StreamsFewer
  <2> QED
    BY <1>1, <2>1, <2>2, <2>3 DEF QuietStepOf, StepOf, OnlyConn, NoArrival
<1>3. CASE DamagesPhone(c, ty)
  <2>1. /\ toPhone[c] # <<>> /\ UNCHANGED toPc
        /\ toPhone'[c] = [toPhone[c] EXCEPT ![1].ty = ty]
        /\ \A d \in Conns \ {c} : toPhone'[d] = toPhone[d]
    BY <1>0, <1>3 DEF DamagesPhone
  <2>2. Errors(toPhone'[c]) => Errors(toPhone[c])
    BY <1>0, <2>1, StreamsErrors
  <2>3. Fewer(toPc[c], toPc'[c])
    BY <1>0, <2>1, StreamsFewer
  <2> QED
    BY <1>1, <2>1, <2>2, <2>3 DEF QuietStepOf, StepOf, OnlyConn, NoArrival
<1> QED
  BY <1>2, <1>3, DamageSides

(* A step of any of these kinds keeps the invariant and is one the service *)
(* allows.                                                                 *)
LEMMA KindDelivers ==
  ASSUME TypeOK, TurnInv, DInv, NEW c \in Conns, StepKind(c), \A d \in Conns : Continues(d)
  PROVE  DInv' /\ [Delivery!Next]_Delivery!vars
<1>0. ConnOk(c)
  BY DEF DInv
<1>1. OnlyConn(c)
  BY DEF StepKind, QuietStepOf, ArrivalStepOf, RefusalStepOf, TakesClip, ReturnStepOf,
     RequestStepOf, StepOf
<1>2. CASE QuietStepOf(c) \/ RefusalStepOf(c)
  <2>1. \A d, n : ArrivedIn(events', d, n) => ArrivedIn(events, d, n)
    BY <1>2, NoDelivery DEF QuietStepOf, RefusalStepOf
  <2>2. ConnOk(c)'
    BY <1>0, <1>2, QuietKeeps, RefusalKeeps
  <2>3. DInv'
    BY <1>1, <2>1, <2>2, OtherKeeps DEF DInv
  <2> QED
    BY <1>2, <2>3, QuietDelivers, RefusalDelivers
<1>3. CASE ArrivalStepOf(c)
  <2>1. /\ ConnOk(c)'
        /\ \A d \in Conns \ {c} : \A n : ArrivedIn(events', d, n) => ArrivedIn(events, d, n)
    BY <1>0, <1>3, ArrivalKeeps
  <2>2. DInv'
    BY <1>1, <2>1, OtherKeeps DEF DInv
  <2> QED
    BY <1>0, <1>3, <2>2, ArrivalDelivers
<1>4. ASSUME NEW r \in Results, ReturnStepOf(c, r)
      PROVE  DInv' /\ [Delivery!Next]_Delivery!vars
  <2>1. events' = events /\ ConnOk(c)'
    BY <1>0, <1>4, ReturnKeeps DEF ReturnStepOf
  <2>2. DInv'
    BY <1>1, <2>1, OtherKeeps DEF DInv
  <2> QED
    BY <1>0, <1>4, <2>2, ReturnDelivers
<1>5. ASSUME NEW f \in Frames, RequestStepOf(c, f)
      PROVE  DInv' /\ [Delivery!Next]_Delivery!vars
  <2>1. events' = events /\ ConnOk(c)'
    BY <1>0, <1>5, RequestKeepsConn DEF RequestStepOf
  <2>2. DInv'
    BY <1>1, <2>1, OtherKeeps DEF DInv
  <2> QED
    BY <1>0, <1>5, <2>2, RequestDelivers
<1> QED
  BY <1>2, <1>3, <1>4, <1>5 DEF StepKind

(* Steps that leave the connections alone leave the invariant alone. *)
LEMMA IdleKeeps ==
  ASSUME DInv, UNCHANGED <<phone, done, task, toPc, toPhone, events>>
  PROVE  DInv'
<1> SUFFICES ASSUME NEW c \in Conns
             PROVE  ConnOk(c)'
  BY DEF DInv
<1>1. ConnOk(c)
  BY DEF DInv
<1> QED
  BY <1>1 DEF ConnOk, ArrivedEarlier, ErrorIsLast

(* Every step. *)
LEMMA StepDelivers ==
  ASSUME IInv, TaskTells, TurnInv, DInv, [Next]_vars
  PROVE  DInv' /\ [Delivery!Next]_Delivery!vars
<1>0. TypeOK
  BY DEF IInv
<1>1. ASSUME NEW c \in Conns, PhoneNext(c)
      PROVE  DInv' /\ [Delivery!Next]_Delivery!vars
  <2>1. StepKind(c)
    BY <1>1, PhoneKind DEF DInv
  <2> QED
    BY <1>0, <1>1, <2>1, PhoneTurn, KindDelivers
<1>2. ASSUME NEW c \in Conns, PcNext(c), ~Reads(c)
      PROVE  DInv' /\ [Delivery!Next]_Delivery!vars
  <2>1. StepKind(c)
    BY <1>0, <1>2, ClipPushKind, RefuseKind, PcOtherKind DEF PcNext, StepKind
  <2> QED
    BY <1>0, <1>2, <2>1, PcTurn, KindDelivers
<1>3. ASSUME NEW c \in Conns, Reads(c)
      PROVE  DInv' /\ [Delivery!Next]_Delivery!vars
  <2>1. DInv'
    BY <1>3, IdleKeeps DEF Reads
  <2> QED
    BY <1>0, <1>3, <2>1, ReadsDelivers
<1>4. ASSUME NEW c \in Conns, NEW ty \in Broken, Damage(c, ty)
      PROVE  DInv' /\ [Delivery!Next]_Delivery!vars
  <2>1. StepKind(c)
    BY <1>0, <1>4, DamageKind DEF StepKind
  <2> QED
    BY <1>0, <1>4, <2>1, DamageTurn, KindDelivers
<1>5. ASSUME UNCHANGED <<phone, done, task, turn, sessPaused, toPc, toPhone, events>>
      PROVE  /\ DInv'
             /\ BeamsUnderWay' = BeamsUnderWay /\ BeamsDelivered' = BeamsDelivered
             /\ BeamsLetIn' = BeamsLetIn
             /\ BeamsReturned({"Ok"})' = BeamsReturned({"Ok"})
             /\ BeamsReturned({"Refused", "TooLarge"})' = BeamsReturned({"Refused", "TooLarge"})
  BY <1>5, IdleKeeps, LetInStays, Mapping
<1>6. CASE SetPaused
  <2>1. /\ paused' = ~paused
        /\ UNCHANGED <<phone, done, task, turn, sessPaused, toPc, toPhone, events>>
    BY <1>6 DEF SetPaused, pcVars
  <2>2. Delivery!SetPaused
    BY <1>5, <2>1 DEF Delivery!SetPaused
  <2> QED
    BY <1>5, <2>1, <2>2 DEF Delivery!Next
<1>7. CASE Copy \/ UNCHANGED vars
  <2>1. /\ paused' = paused
        /\ UNCHANGED <<phone, done, task, turn, sessPaused, toPc, toPhone, events>>
    BY <1>7 DEF Copy, vars, pcVars
  <2> QED
    BY <1>5, <2>1 DEF Delivery!vars
<1> QED
  BY <1>1, <1>2, <1>3, <1>4, <1>6, <1>7 DEF Next

(* Nothing has happened yet. *)
LEMMA InitDelivers ==
  ASSUME Init
  PROVE  DInv /\ Delivery!Init
<1>1. /\ events = <<>> /\ paused = FALSE
      /\ \A c \in Conns : /\ phone[c].st = "new" /\ done[c] = <<>>
                           /\ toPc[c] = <<>> /\ toPhone[c] = <<>>
  BY DEF Init
<1>2. \A c, n : ~ArrivedIn(events, c, n)
  BY <1>1 DEF ArrivedIn
<1>3. ASSUME NEW c \in Conns
      PROVE  ConnOk(c)
  <2>1. Numbered(phone[c], done[c])
    BY <1>1, SessionAssumption DEF Numbered
  <2>2. PushesRise(phone[c], done[c], toPc[c])
    BY <1>1 DEF PushesRise
  <2>3. ArrivedEarlier(c) /\ ErrorIsLast(c)
    BY <1>1, <1>2 DEF ArrivedEarlier, ErrorIsLast, Errors
  <2> QED
    BY <2>1, <2>2, <2>3 DEF ConnOk
<1>4. BeamsUnderWay = {}
  <2>1. \A x : x \notin UnderWayIn(task, toPc)
    BY <1>1, InUnderWay
  <2> QED
    BY <2>1, Mapping
<1>5. BeamsDelivered = {}
  BY <1>1 DEF BeamsDelivered
<1>6. \A outs : BeamsReturned(outs) = {}
  <2>1. \A outs, x : x \notin ReturnedIn(done, outs)
    BY <1>1, InReturned
  <2> QED
    BY <2>1, Mapping
<1>7. BeamsLetIn = {}
  BY DEF Init, BeamsLetIn, LettingIn
<1> QED
  BY <1>1, <1>3, <1>4, <1>5, <1>6, <1>7 DEF DInv, Delivery!Init

(* The invariant the refinement rests on holds. *)
THEOREM DeliveryInvariant == Spec => []DInv
<1>1. Init => DInv
  BY InitDelivers
<1>2. IInv /\ OrderInv /\ TurnInv /\ DInv /\ [Next]_vars => DInv'
  BY StepDelivers DEF OrderInv
<1> QED
  BY <1>1, <1>2, SessionInvariant, Ordered, Turns, PTL DEF Spec

(* beam is the delivery service BeamDelivery promises: a clip is handed on *)
(* at most once, and while the PC is paused only if it was let in before;  *)
(* Ok is said only of a clip that was handed on, and a refusal only of one *)
(* that was not and never will be, over any number of connections,         *)
(* timeouts, late answers, damaged frames and dropped connections.         *)
THEOREM DeliversAsPromised == Spec => ImplementsDelivery
<1>1. Init => Delivery!Init
  BY InitDelivers
<1>2. IInv /\ OrderInv /\ TurnInv /\ DInv /\ [Next]_vars => [Delivery!Next]_Delivery!vars
  BY StepDelivers DEF OrderInv
<1> QED
  BY <1>1, <1>2, SessionInvariant, Ordered, Turns, DeliveryInvariant, PTL
     DEF Spec, ImplementsDelivery, Delivery!Spec

=============================================================================
