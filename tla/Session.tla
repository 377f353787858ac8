------------------------------- MODULE Session -------------------------------
(***************************************************************************)
(* Sessions between one phone and one PC agent: the phone's Connection     *)
(* (crates/airclip-core/src/client.rs), the Session state machine both     *)
(* sides run (session.rs), and the PC's task per connection (run_session   *)
(* and handle_event in apps/windows/src/server.rs).                        *)
(*                                                                         *)
(* The phone opens connections one after another or side by side; on each  *)
(* it calls beam, stage_list and stage_item, at most one call at a time.   *)
(* Every connection is a pair of FIFO byte streams; either end may close   *)
(* or break it, frames may arrive damaged, and every wait of the phone may *)
(* time out although the answer is under way.  Meanwhile the PC's user     *)
(* copies text (which stages it) and pauses and resumes the agent.         *)
(*                                                                         *)
(* Counters, keys and nonces are the subject of AeadChannel and are left   *)
(* out here: a frame either opens or is "Damaged".                         *)
(***************************************************************************)
EXTENDS StageOps

CONSTANTS
  Conns,      \* connections the phone may open
  MaxOps,     \* bound: calls made on one Connection
  Lens,       \* body lengths a beamed clip may have
  MaxCopies,  \* bound: copies on the PC
  MaxFaults   \* bound: frames damaged in transit

ASSUME SessionAssumption ==
  Lens \subseteq Nat /\ MaxOps \in Nat /\ MaxCopies \in Nat /\ MaxFaults \in Nat

VARIABLES
  phone,    \* phone[c]: the phone's end, [st, sess, op]
  done,     \* done[c]: history of the calls that have returned on c
  task,     \* task[c]: the PC's task for c
  toPc,     \* toPc[c]: frames under way to the PC
  toPhone,  \* toPhone[c]: frames under way to the phone
  paused,   \* AgentState::paused
  turn,     \* turn[c]: whether c's task has read the frame at the head of toPc[c]
            \* and is handling it; the frame leaves toPc[c] when it is done
  sessPaused, \* sessPaused[c]: the copy of paused in the Session of c's task
  ring,     \* AgentState::stage
  copies,   \* number of texts copied on the PC so far
  events,   \* every AgentEvent emitted, in order
  faults    \* frames damaged so far

vars == <<phone, done, task, turn, toPc, toPhone, paused, sessPaused, ring, copies, events, faults>>

-----------------------------------------------------------------------------
(* Frames, calls and events. *)

PcBound == {"Hello", "ClipPush", "StageListReq", "StageGet"}
PhoneBound == {"HelloAck", "ClipAck", "StageList", "StageItem", "Error"}
Broken == {"Damaged", "Undecodable"}

Frame(ty, arg, len, ids) == [ty |-> ty, arg |-> arg, len |-> len, ids |-> ids]

Frames == [ty : PcBound \cup PhoneBound \cup Broken, arg : Nat, len : Nat, ids : Seq(Nat)]

(* A call: what it asks for (the clip it pushes, the stage id it wants) and *)
(* how many texts had been copied when it was made.                         *)
Call(kind, arg) == [kind |-> kind, arg |-> arg, since |-> copies]
NoCall == [kind |-> "none", arg |-> 0, since |-> 0]
Calls == [kind : {"none", "beam", "list", "item"}, arg : Nat, since : Nat]

(* How a call returns.  "Refused" is a PeerError; "Closed" is Rejected by  *)
(* a Close action or by the end of the stream; "Gone" is "clip no longer   *)
(* staged"; "Wait" means the call goes on waiting.                         *)
Outcomes == {"Ok", "TooLarge", "Refused", "Closed", "Gone", "TimedOut", "Protocol"}

Event(ev, c, clip) == [ev |-> ev, conn |-> c, clip |-> clip]
Events == [ev : {"PeerConnected", "PeerDisconnected", "ClipArrived"}, conn : Conns, clip : Nat]

PhoneStates == {"new", "opening", "ready", "waiting", "closed"}
SessStates == {"AwaitingHelloAck", "Established", "Closed"}
TaskStates == {"none", "AwaitingHello", "Established", "gone"}

TypeOK ==
  /\ phone \in [Conns -> [st : PhoneStates, sess : SessStates, op : Calls]]
  /\ done \in [Conns -> Seq([op : Calls, out : Outcomes, ids : Seq(Nat)])]
  /\ task \in [Conns -> TaskStates]
  /\ toPc \in [Conns -> Seq(Frames)]
  /\ toPhone \in [Conns -> Seq(Frames)]
  /\ paused \in BOOLEAN
  /\ turn \in [Conns -> BOOLEAN] /\ sessPaused \in [Conns -> BOOLEAN]
  /\ ring \in Seq([id : Nat, len : Nat]) /\ Len(ring) <= RingDepth
  /\ copies \in Nat
  /\ events \in Seq(Events)
  /\ faults \in Nat

Init ==
  /\ phone = [c \in Conns |-> [st |-> "new", sess |-> "AwaitingHelloAck", op |-> NoCall]]
  /\ done = [c \in Conns |-> <<>>]
  /\ task = [c \in Conns |-> "none"]
  /\ toPc = [c \in Conns |-> <<>>]
  /\ toPhone = [c \in Conns |-> <<>>]
  /\ paused = FALSE
  /\ turn = [c \in Conns |-> FALSE]
  /\ sessPaused = [c \in Conns |-> FALSE]
  /\ ring = <<>>
  /\ copies = 0
  /\ events = <<>>
  /\ faults = 0

pcVars == <<task, turn, toPhone, sessPaused, events>>
agentVars == <<paused, ring, copies>>

-----------------------------------------------------------------------------
(* The phone: Connection::open and the three calls. *)

(* dial and start_phone.  The PC's accept loop admits the connection or    *)
(* drops it at once (its rate limiter); whether the HELLO will be accepted *)
(* (pairing known, clocks within the window, MAC right) is its argument.   *)
PhoneOpen(c) ==
  /\ phone[c].st = "new"
  /\ \E admitted \in BOOLEAN, valid \in {0, 1} :
       /\ task' = [task EXCEPT ![c] = IF admitted THEN "AwaitingHello" ELSE "gone"]
       /\ toPc' = [toPc EXCEPT ![c] = <<Frame("Hello", valid, 0, <<>>)>>]
  /\ phone' = [phone EXCEPT ![c].st = "opening"]
  /\ UNCHANGED <<done, turn, toPhone, sessPaused, events, faults>> /\ UNCHANGED agentVars

PhoneHelloAck(c) ==
  /\ phone[c].st = "opening"
  /\ toPhone[c] # <<>> /\ Head(toPhone[c]).ty = "HelloAck"
  /\ toPhone' = [toPhone EXCEPT ![c] = Tail(@)]
  /\ phone' = [phone EXCEPT ![c].st = "ready", ![c].sess = "Established"]
  /\ UNCHANGED <<done, task, turn, toPc, sessPaused, events, faults>> /\ UNCHANGED agentVars

(* The handshake fails: a timeout, a damaged answer or the end of the      *)
(* stream.  Connection::open returns an error and drops the socket.        *)
PhoneOpenFails(c) ==
  /\ phone[c].st = "opening"
  /\ phone' = [phone EXCEPT ![c].st = "closed"]
  /\ UNCHANGED <<done, toPc, faults>> /\ UNCHANGED pcVars /\ UNCHANGED agentVars

CanCall(c) == phone[c].st = "ready" /\ Len(done[c]) < MaxOps

(* The n-th call on c returns; a Protocol error makes the caller give the  *)
(* connection up.                                                          *)
Returned(c, op, out, ids) ==
  /\ done' = [done EXCEPT ![c] = Append(@, [op |-> op, out |-> out, ids |-> ids])]

AfterReturn(out) == IF out = "Protocol" THEN "closed" ELSE "ready"

(* A call seals its request and writes it; the write can only fail when    *)
(* the PC's end is gone.                                                   *)
PhoneRequest(c, op, f) ==
  \/ /\ toPc' = [toPc EXCEPT ![c] = Append(@, f)]
     /\ phone' = [phone EXCEPT ![c].st = "waiting", ![c].op = op]
     /\ UNCHANGED done
  \/ /\ task[c] = "gone"
     /\ Returned(c, op, "Protocol", <<>>)
     /\ phone' = [phone EXCEPT ![c].st = "closed"]
     /\ UNCHANGED toPc

PhoneBeam(c, n) ==
  LET op == Call("beam", Len(done[c]) + 1) IN
    /\ CanCall(c)
    /\ \/ /\ n > MaxLen
          /\ Returned(c, op, "TooLarge", <<>>)
          /\ UNCHANGED <<phone, toPc>>
       \/ /\ n <= MaxLen
          /\ PhoneRequest(c, op, Frame("ClipPush", op.arg, n, <<>>))
    /\ UNCHANGED faults /\ UNCHANGED pcVars /\ UNCHANGED agentVars

PhoneStageList(c) ==
  /\ CanCall(c)
  /\ PhoneRequest(c, Call("list", 0), Frame("StageListReq", 0, 0, <<>>))
  /\ UNCHANGED faults /\ UNCHANGED pcVars /\ UNCHANGED agentVars

(* The user picks an id from an earlier list: any text copied so far. *)
PhoneStageItem(c, id) ==
  /\ CanCall(c)
  /\ PhoneRequest(c, Call("item", id), Frame("StageGet", id, 0, <<>>))
  /\ UNCHANGED faults /\ UNCHANGED pcVars /\ UNCHANGED agentVars

OnReply_AnyAck(op, sess, f) ==  \* mutant: the clip id of an ACK is not compared
  IF f.ty = "Undecodable" THEN "Protocol"
  ELSE IF sess = "Closed" \/ f.ty \in {"Damaged", "HelloAck"} THEN "Closed"
  ELSE CASE f.ty = "Error" -> IF op.kind = "item" THEN "Closed" ELSE "Refused"
         [] f.ty = "ClipAck" -> IF op.kind = "beam" THEN "Ok" ELSE "Wait"
         [] OTHER -> IF op.kind = "beam" THEN "Wait" ELSE "Ok"

(* What Session::on_frame and the loop of the call make of a frame.  Any   *)
(* other frame, a damaged one or a second HELLO_ACK, fails the session.    *)
OnReply(op, sess, f) ==
  IF f.ty = "Undecodable" THEN "Protocol"
  ELSE IF sess = "Closed" THEN "Closed"
  ELSE CASE f.ty = "Error"     -> IF op.kind = "item" THEN "Closed" ELSE "Refused"
         [] f.ty = "ClipAck"   -> IF op.kind = "beam" /\ f.arg = op.arg THEN "Ok" ELSE "Wait"
         [] f.ty = "StageList" -> IF op.kind = "list" THEN "Ok"
                                  ELSE IF op.kind = "item" THEN "Gone" ELSE "Wait"
         [] f.ty = "StageItem" -> IF op.kind = "item" /\ f.arg = op.arg THEN "Ok" ELSE "Wait"
         [] OTHER              -> "Closed"

(* Session::fail and on_error close the phone's state machine. *)
SessAfter(sess, f) == IF f.ty \in {"Damaged", "HelloAck", "Error"} THEN "Closed" ELSE sess

PhoneReceive(c) ==
  /\ phone[c].st = "waiting"
  /\ toPhone[c] # <<>>
  /\ LET f == Head(toPhone[c])
         op == phone[c].op
         out == OnReply(op, phone[c].sess, f)
     IN  \/ /\ out = "Wait"
            /\ UNCHANGED <<phone, done>>
         \/ /\ out # "Wait"
            /\ Returned(c, op, out, f.ids)
            /\ phone' = [phone EXCEPT ![c] = [st |-> AfterReturn(out),
                                              sess |-> SessAfter(@.sess, f),
                                              op |-> NoCall]]
  /\ toPhone' = [toPhone EXCEPT ![c] = Tail(@)]
  /\ UNCHANGED <<task, turn, toPc, sessPaused, events, faults>> /\ UNCHANGED agentVars

(* A call returns without a frame: the read reaches the end of the stream, *)
(* or fails because the PC closed with our frames unread, or times out.    *)
PhoneReturnsEmpty(c, out) ==
  /\ phone[c].st = "waiting"
  /\ Returned(c, phone[c].op, out, <<>>)
  /\ phone' = [phone EXCEPT ![c].st = AfterReturn(out), ![c].op = NoCall]
  /\ UNCHANGED <<toPc, faults>> /\ UNCHANGED pcVars /\ UNCHANGED agentVars

PhoneTimeout_Resends(c) ==  \* mutant: a late answer makes the phone push again
  /\ phone[c].st = "waiting" /\ phone[c].op.kind = "beam" /\ toPc[c] = <<>>
  /\ toPc' = [toPc EXCEPT ![c] = <<Frame("ClipPush", phone[c].op.arg, 0, <<>>)>>]
  /\ UNCHANGED <<phone, done, faults>> /\ UNCHANGED pcVars /\ UNCHANGED agentVars

PhoneEof(c) == task[c] = "gone" /\ toPhone[c] = <<>> /\ PhoneReturnsEmpty(c, "Closed")
PhoneReset(c) == task[c] = "gone" /\ toPc[c] # <<>> /\ PhoneReturnsEmpty(c, "Protocol")
PhoneTimeout(c) == PhoneReturnsEmpty(c, "TimedOut")

(* The Connection is dropped: the caller is done with it, or the app or    *)
(* its keyboard extension is stopped in the middle of a call.              *)
PhoneDrop(c) ==
  /\ phone[c].st \in {"ready", "waiting"}
  /\ phone' = [phone EXCEPT ![c].st = "closed", ![c].op = NoCall]
  /\ UNCHANGED <<done, toPc, faults>> /\ UNCHANGED pcVars /\ UNCHANGED agentVars

-----------------------------------------------------------------------------
(* The PC's task: handle_connection and run_session. *)

Serving == {"AwaitingHello", "Established"}

(* wire.next() has a frame for the task, which is not handling another. *)
CanRead(c) == task[c] \in Serving /\ ~turn[c] /\ toPc[c] # <<>>

Reads_PauseOnce(c) ==  \* mutant: Pause is looked at when the session starts
  /\ CanRead(c) /\ Head(toPc[c]).ty # "Undecodable"
  /\ turn' = [turn EXCEPT ![c] = TRUE]
  /\ sessPaused' = [sessPaused EXCEPT ![c] = IF task[c] = "AwaitingHello" THEN paused ELSE @]
  /\ UNCHANGED <<phone, done, task, toPc, toPhone, events, faults>> /\ UNCHANGED agentVars

(* The task reads its next frame and brings the session's copy of the      *)
(* agent's pause flag up to date.  The flag's lock is released before the  *)
(* session sees the frame: the user may pause in between.                  *)
Reads(c) ==
  /\ CanRead(c) /\ Head(toPc[c]).ty # "Undecodable"
  /\ turn' = [turn EXCEPT ![c] = TRUE]
  /\ sessPaused' = [sessPaused EXCEPT ![c] = paused]
  /\ UNCHANGED <<phone, done, task, toPc, toPhone, events, faults>> /\ UNCHANGED agentVars

(* The session handles the frame the task has read. *)
Handles(c, st, ty) ==
  /\ turn[c] /\ task[c] = st
  /\ toPc[c] # <<>> /\ Head(toPc[c]).ty = ty
  /\ toPc' = [toPc EXCEPT ![c] = Tail(@)]
  /\ turn' = [turn EXCEPT ![c] = FALSE]

(* ok says whether the write of a reply succeeds; it can fail only when    *)
(* the phone's end is closed.                                              *)

WriteMay(c, ok) == ok \/ phone[c].st = "closed"

pcFrame == <<phone, done, sessPaused, faults>>

(* on_hello answers and only then announces the phone, so a failed write   *)
(* leaves no trace.                                                        *)
PcHello(c, ok) ==
  /\ Handles(c, "AwaitingHello", "Hello")
  /\ Head(toPc[c]).arg = 1
  /\ WriteMay(c, ok)
  /\ IF ok
     THEN /\ toPhone' = [toPhone EXCEPT ![c] = Append(@, Frame("HelloAck", 0, 0, <<>>))]
          /\ task' = [task EXCEPT ![c] = "Established"]
          /\ events' = Append(events, Event("PeerConnected", c, 0))
     ELSE /\ task' = [task EXCEPT ![c] = "gone"]
          /\ UNCHANGED <<toPhone, events>>
  /\ UNCHANGED pcFrame /\ UNCHANGED agentVars

(* Every refusal of a HELLO is silent. *)
PcHelloRefused(c) ==
  /\ Handles(c, "AwaitingHello", "Hello")
  /\ Head(toPc[c]).arg = 0
  /\ task' = [task EXCEPT ![c] = "gone"]
  /\ UNCHANGED <<toPhone, events>> /\ UNCHANGED pcFrame /\ UNCHANGED agentVars

(* on_clip_push: the clip is handed on first and acknowledged after. *)
PcClipPush(c, ok) ==
  LET f == Head(toPc[c]) IN
    /\ Handles(c, "Established", "ClipPush")
    /\ ~sessPaused[c] /\ f.len <= MaxLen
    /\ WriteMay(c, ok)
    /\ events' = Append(events, Event("ClipArrived", c, f.arg))
    /\ IF ok
       THEN /\ toPhone' = [toPhone EXCEPT ![c] = Append(@, Frame("ClipAck", f.arg, 0, <<>>))]
            /\ UNCHANGED task
       ELSE /\ task' = [task EXCEPT ![c] = "gone"]
            /\ UNCHANGED toPhone
    /\ UNCHANGED pcFrame /\ UNCHANGED agentVars

(* wire_error: an ERROR frame (code 5 when paused, 4 when too large), then *)
(* Close.  The disconnection is announced on Close, which a failed write   *)
(* never reaches.                                                          *)
PcRefuseClip(c, ok) ==
  LET f == Head(toPc[c]) IN
    /\ Handles(c, "Established", "ClipPush")
    /\ sessPaused[c] \/ f.len > MaxLen
    /\ WriteMay(c, ok)
    /\ task' = [task EXCEPT ![c] = "gone"]
    /\ IF ok
       THEN /\ toPhone' = [toPhone EXCEPT ![c] =
                             Append(@, Frame("Error", IF sessPaused[c] THEN 5 ELSE 4, 0, <<>>))]
            /\ events' = Append(events, Event("PeerDisconnected", c, 0))
       ELSE UNCHANGED <<toPhone, events>>
    /\ UNCHANGED pcFrame /\ UNCHANGED agentVars

(* handle_event's reply to STAGE_LIST_REQ and STAGE_GET; an id that is no  *)
(* longer staged is answered with an empty list.                           *)
IdsOf(l) == [i \in 1..Len(l) |-> l[i].id]

StageReply_NoAnswer(f) ==  \* mutant: an evicted id gets an answer stage_item ignores
  IF f.ty = "StageListReq" THEN Frame("StageList", 0, 0, IdsOf(ListOf(ring)))
  ELSE IF Holds(ring, f.arg) THEN Frame("StageItem", f.arg, 0, <<>>)
  ELSE Frame("StageItem", 0, 0, <<>>)

StageReply(f) ==
  IF f.ty = "StageListReq" THEN Frame("StageList", 0, 0, IdsOf(ListOf(ring)))
  ELSE IF Holds(ring, f.arg) THEN Frame("StageItem", f.arg, 0, <<>>)
  ELSE Frame("StageList", 0, 0, <<>>)

PcStage(c, ok) ==
  /\ \E ty \in {"StageListReq", "StageGet"} : Handles(c, "Established", ty)
  /\ WriteMay(c, ok)
  /\ IF ok
     THEN /\ toPhone' = [toPhone EXCEPT ![c] = Append(@, StageReply(Head(toPc[c])))]
          /\ UNCHANGED task
     ELSE /\ task' = [task EXCEPT ![c] = "gone"]
          /\ UNCHANGED toPhone
  /\ UNCHANGED events /\ UNCHANGED pcFrame /\ UNCHANGED agentVars

(* The task ends with Close, end of stream or idle timeout: a phone that   *)
(* was announced is announced as gone.                                     *)
TaskEnds_Twice(c) ==  \* mutant: connected_id is not taken, so every end is announced
  /\ task' = [task EXCEPT ![c] = IF task[c] = "Established" /\ phone[c].st # "closed"
                               THEN @ ELSE "gone"]
  /\ events' = IF task[c] = "Established"
               THEN Append(events, Event("PeerDisconnected", c, 0)) ELSE events
  /\ UNCHANGED toPhone /\ UNCHANGED pcFrame /\ UNCHANGED agentVars

TaskEnds(c) ==
  /\ task' = [task EXCEPT ![c] = "gone"]
  /\ events' = IF task[c] = "Established"
               THEN Append(events, Event("PeerDisconnected", c, 0)) ELSE events
  /\ UNCHANGED toPhone /\ UNCHANGED pcFrame /\ UNCHANGED agentVars

(* The task ends through `?`: nothing is announced. *)
TaskErrs(c) ==
  /\ task' = [task EXCEPT ![c] = "gone"]
  /\ UNCHANGED <<toPhone, events>> /\ UNCHANGED pcFrame /\ UNCHANGED agentVars

PcDamaged(c) == (\E st \in Serving : Handles(c, st, "Damaged")) /\ TaskEnds(c)

(* The codec refuses what it reads: no frame gets to the session. *)
PcUndecodable(c) ==
  /\ CanRead(c) /\ Head(toPc[c]).ty = "Undecodable"
  /\ toPc' = [toPc EXCEPT ![c] = Tail(@)] /\ UNCHANGED turn
  /\ TaskErrs(c)

PcEof_AfterDrain(c) ==  \* mutant: noticed only once every reply was read
  /\ task[c] = "Established"
  /\ phone[c].st = "closed" /\ toPc[c] = <<>> /\ toPhone[c] = <<>>
  /\ UNCHANGED <<toPc, turn>>
  /\ TaskEnds(c)

PcEof(c) ==
  /\ task[c] \in Serving /\ ~turn[c]
  /\ phone[c].st = "closed" /\ toPc[c] = <<>>
  /\ UNCHANGED <<toPc, turn>>
  /\ TaskEnds(c)

(* A phone that closed with our frames unread resets the stream: the read  *)
(* fails, and frames it sent before may be lost.                           *)
PcReset(c) ==
  /\ task[c] = "Established" /\ ~turn[c]
  /\ phone[c].st = "closed" /\ toPhone[c] # <<>>
  /\ UNCHANGED <<toPc, turn>>
  /\ TaskErrs(c)

(* Only an established session has an idle timeout. *)
PcIdle(c) ==
  /\ task[c] = "Established" /\ ~turn[c]
  /\ UNCHANGED <<toPc, turn>>
  /\ TaskEnds(c)

-----------------------------------------------------------------------------
(* The agent's user, and the network. *)

SetPaused ==
  /\ paused' = ~paused
  /\ UNCHANGED <<phone, done, toPc, ring, copies, faults>> /\ UNCHANGED pcVars

(* The clipboard watcher stages a copied text. *)
Copy ==
  /\ copies < MaxCopies
  /\ copies' = copies + 1
  /\ ring' = PushInto(ring, [id |-> copies + 1, len |-> 0])
  /\ UNCHANGED <<phone, done, toPc, paused, faults>> /\ UNCHANGED pcVars

(* The next frame to be read on one side of c is damaged. *)
NextToRead(c) == IF turn[c] THEN 2 ELSE 1

Damage(c, ty) ==
  /\ faults < MaxFaults
  /\ faults' = faults + 1
  /\ \/ /\ NextToRead(c) \in DOMAIN toPc[c]
        /\ toPc' = [toPc EXCEPT ![c][NextToRead(c)].ty = ty]
        /\ UNCHANGED toPhone
     \/ /\ toPhone[c] # <<>>
        /\ toPhone' = [toPhone EXCEPT ![c][1].ty = ty]
        /\ UNCHANGED toPc
  /\ UNCHANGED <<phone, done, task, turn, sessPaused, events>> /\ UNCHANGED agentVars

PhoneNext(c) ==
  \/ PhoneOpen(c) \/ PhoneHelloAck(c) \/ PhoneOpenFails(c)
  \/ \E n \in Lens : PhoneBeam(c, n)
  \/ PhoneStageList(c)
  \/ \E id \in 1..copies : PhoneStageItem(c, id)
  \/ PhoneReceive(c) \/ PhoneEof(c) \/ PhoneReset(c) \/ PhoneTimeout(c)
  \/ PhoneDrop(c)

PcNext(c) ==
  \/ Reads(c)
  \/ \E ok \in BOOLEAN :
       PcHello(c, ok) \/ PcClipPush(c, ok) \/ PcRefuseClip(c, ok) \/ PcStage(c, ok)
  \/ PcHelloRefused(c)
  \/ PcDamaged(c) \/ PcUndecodable(c) \/ PcEof(c) \/ PcReset(c) \/ PcIdle(c)

Next ==
  \/ \E c \in Conns : PhoneNext(c) \/ PcNext(c) \/ \E ty \in Broken : Damage(c, ty)
  \/ SetPaused \/ Copy

Spec == Init /\ [][Next]_vars

(* Fairness.  The runtime keeps polling a task that has a frame to read    *)
(* and a call whose answer has arrived; the end of a stream reaches the    *)
(* other side.  Nothing is assumed of timeouts, users or the network.      *)
PcRuns(c) ==
  \/ Reads(c)
  \/ \E ok \in BOOLEAN :
       PcHello(c, ok) \/ PcClipPush(c, ok) \/ PcRefuseClip(c, ok) \/ PcStage(c, ok)
  \/ PcHelloRefused(c) \/ PcDamaged(c) \/ PcUndecodable(c) \/ PcEof(c)

FairSpec ==
  /\ Spec
  /\ \A c \in Conns : WF_vars(PcRuns(c))
  /\ \A c \in Conns : WF_vars(PhoneReceive(c) \/ PhoneEof(c))
  /\ \A c \in Conns : WF_vars(PhoneHelloAck(c) \/ PhoneOpenFails(c))

-----------------------------------------------------------------------------
(* Properties. *)

Arrived(c, n) == \E i \in 1..Len(events) : events[i] = Event("ClipArrived", c, n)

(* beam returns Ok only for a clip the PC has handed on: the very clip of  *)
(* this call, not one an earlier call on the connection gave up on (SPEC   *)
(* R9, no silent failure).                                                 *)
BeamAcked ==
  \A c \in Conns : \A i \in 1..Len(done[c]) :
    LET r == done[c][i] IN
      r.op.kind = "beam" /\ r.out = "Ok" => Arrived(c, r.op.arg)

(* The connections whose session is about to let a clip in: it saw the     *)
(* agent unpaused when it read the frame.                                  *)
LettingIn ==
  {c \in Conns : turn[c] /\ ~sessPaused[c] /\ toPc[c] # <<>> /\ Head(toPc[c]).ty = "ClipPush"}

(* Once the user has paused the agent, the only clips that still arrive    *)
(* are those whose frame a task had read before, one for each connection   *)
(* at most: every frame read later meets a paused session, also on         *)
(* sessions established and with clips under way before the pause.         *)
PauseHolds ==
  [][/\ \A i \in 1..Len(events') :
          i > Len(events) /\ events'[i].ev = "ClipArrived" => events'[i].conn \in LettingIn
     /\ paused => LettingIn' \subseteq LettingIn]_vars

(* The events of a connection come in order: the phone connects, its clips *)
(* arrive, it disconnects, each end of it announced at most once.          *)
EventsInOrder ==
  \A i, j \in 1..Len(events) :
    i < j /\ events[i].conn = events[j].conn =>
      events[i].ev # "PeerDisconnected" /\ events[j].ev # "PeerConnected"

(* The identities a ring that saw k copies lists, newest first. *)
IdsAt(k) == [i \in 1..(IF k < RingDepth THEN k ELSE RingDepth) |-> k + 1 - i]

(* The first n calls on c all got their answer or the end of the stream:   *)
(* no answer to one of them is still under way.                            *)
NoneTimedOut(c, n) == \A i \in 1..n : done[c][i].out # "TimedOut"

(* What stage_list returns is what the PC staged at some moment of the     *)
(* call, complete and newest first, unless an earlier call on the same     *)
(* Connection timed out (CoreHandle makes a Connection per call): a        *)
(* STAGE_LIST carries nothing that ties it to its request.                 *)
ListIsCurrent ==
  \A c \in Conns : \A i \in 1..Len(done[c]) :
    LET r == done[c][i] IN
      r.op.kind = "list" /\ r.out = "Ok" /\ NoneTimedOut(c, i - 1)
        => \E k \in r.op.since..copies : r.ids = IdsAt(k)

(* stage_item reports "clip no longer staged" only of a clip that is no    *)
(* longer staged, under the same premise.                                  *)
GoneIsTrue ==
  \A c \in Conns : \A i \in 1..Len(done[c]) :
    LET r == done[c][i] IN
      r.op.kind = "item" /\ r.out = "Gone" /\ NoneTimedOut(c, i - 1)
        => ~Holds(ring, r.op.arg)

(* What the phone is told of the staged clips is true. *)
StageAnswersTrue == ListIsCurrent /\ GoneIsTrue

(* Every call returns even if no timeout ever fires: each request is       *)
(* answered, or its connection closed, by the PC.                          *)
RequestsAnswered ==
  \A c \in Conns : (phone[c].st = "waiting") ~> (phone[c].st # "waiting")

(* A connection the phone has let go of is let go of by the PC as well. *)
TasksEnd ==
  \A c \in Conns : (phone[c].st = "closed") ~> (task[c] = "gone")

-----------------------------------------------------------------------------
(* Session implements BeamDelivery.  A clip is named by the event that     *)
(* announces it; it is under way while its CLIP_PUSH is on a stream whose  *)
(* task still reads or handles it, and let in when a session that saw the  *)
(* agent unpaused has it.                                                  *)

ClipOf(c, n) == Event("ClipArrived", c, n)

BeamsUnderWay ==
  UNION {{ClipOf(c, toPc[c][i].arg) : i \in {j \in 1..Len(toPc[c]) : toPc[c][j].ty = "ClipPush"}}
         : c \in {d \in Conns : task[d] # "gone"}}

BeamsLetIn == {ClipOf(c, Head(toPc[c]).arg) : c \in LettingIn}

BeamsDelivered ==
  {[at |-> i, clip |-> events[i]] : i \in {j \in 1..Len(events) : events[j].ev = "ClipArrived"}}

BeamsReturned(outs) ==
  UNION {{ClipOf(c, done[c][i].op.arg) :
            i \in {j \in 1..Len(done[c]) : done[c][j].op.kind = "beam" /\ done[c][j].out \in outs}}
         : c \in Conns}

Delivery ==
  INSTANCE BeamDelivery WITH
    Clips <- {ClipOf(c, n) : c \in Conns, n \in 1..MaxOps},
    underWay <- BeamsUnderWay,
    letIn <- BeamsLetIn,
    delivered <- BeamsDelivered,
    acked <- BeamsReturned({"Ok"}),
    refused <- BeamsReturned({"Refused", "TooLarge"})

(* Every step of the phones, the tasks, the streams and the agent's user   *)
(* is a step of the delivery service BeamDelivery promises, or invisible   *)
(* to it: no timeout, late answer, damage or dropped connection makes      *)
(* Connection::beam and run_session deliver twice, late or silently.       *)
ImplementsDelivery == Delivery!Spec

=============================================================================
