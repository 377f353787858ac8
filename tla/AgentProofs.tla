----------------------------- MODULE AgentProofs -----------------------------
(***************************************************************************)
(* Proofs about Agent, for any number of sessions, clicks, copies and      *)
(* clips, any lengths, any depth of the ring and any number of attempts to *)
(* open the clipboard; and about the ring alone (StageRing), for any depth *)
(* and limit.                                                              *)
(***************************************************************************)
EXTENDS Agent, TLAPS

-----------------------------------------------------------------------------
(* The ring alone keeps the newest clips.  KeepsNewest is inductive once   *)
(* the types are known; the work is in the push of an acceptable clip onto *)
(* a full ring, which shifts every index by one.                           *)

(* StageRing::new never makes a ring that can hold nothing. *)
LEMMA RingDepthPositive == RingDepth \in Nat \ {0}
BY StageAssumption DEF RingDepth

Fit == {c \in Clips : c.len <= MaxLen}

(* What push does to a ring of acceptable clips. *)
LEMMA PushIntoFits ==
  ASSUME NEW r \in Seq(Fit), NEW c \in Clips
  PROVE  PushInto(r, c) \in Seq(Fit)
<1>0. c.len \in Nat
  BY LensAssumption DEF Clips
<1>1. CASE Oversize(c)
  BY <1>1 DEF PushInto
<1>2. CASE ~Oversize(c) /\ Len(r) = RingDepth
  <2>1. c \in Fit
    BY <1>0, <1>2, StageAssumption DEF Fit, Oversize
  <2>2. r # <<>>
    BY <1>2, RingDepthPositive
  <2>3. Tail(r) \in Seq(Fit)
    BY <2>2
  <2>4. QED
    BY <1>2, <2>1, <2>3 DEF PushInto
<1>3. CASE ~Oversize(c) /\ Len(r) # RingDepth
  <2>1. c \in Fit
    BY <1>0, <1>3, StageAssumption DEF Fit, Oversize
  <2>2. QED
    BY <1>3, <2>1 DEF PushInto
<1>4. QED
  BY <1>1, <1>2, <1>3

(* Every call keeps the types. *)
LEMMA TypeStep == TypeOK /\ [Next]_vars => TypeOK'
<1> SUFFICES ASSUME TypeOK, [Next]_vars PROVE TypeOK'
  OBVIOUS
<1>1. CASE UNCHANGED vars
  BY <1>1 DEF TypeOK, vars
<1>2. ASSUME NEW n \in Lens, Push(n) PROVE TypeOK'
  <2> DEFINE c == [id |-> pushes, len |-> n]
  <2>1. c \in Clips
    BY DEF Clips, TypeOK
  <2>2. items' = PushInto(items, c) /\ (staged' = staged \/ staged' = Append(staged, c))
        /\ pushes' = pushes + 1
    BY <1>2 DEF Push
  <2> HIDE DEF c
  <2>3. items' \in Seq(Fit)
    BY <2>1, <2>2, PushIntoFits DEF TypeOK, Fit
  <2>4. QED
    BY <2>1, <2>2, <2>3 DEF TypeOK, Fit
<1>3. CASE Clear
  BY <1>3 DEF Clear, TypeOK
<1>4. QED
  BY <1>1, <1>2, <1>3 DEF Next

(* The ring's type: in particular no call ever stages an oversize clip. *)
THEOREM TypeCorrect == Spec => []TypeOK
<1>1. Init => TypeOK
  BY DEF Init, TypeOK
<1>2. QED
  BY <1>1, TypeStep, PTL DEF Spec

(* Indices counted from the end of a history, one clip later. *)
LEMMA ShiftIndex ==
  \A d, k \in Nat : \A i \in 1..(d - 1) :
    k >= d => k - d + (i + 1) \in 1..k /\ (k + 1) - d + i = k - d + (i + 1)
OBVIOUS

(* A clip pushed onto a full ring r that holds the end of history h. *)
LEMMA PushOntoFull ==
  ASSUME NEW r \in Seq(Clips), NEW h \in Seq(Clips), NEW c \in Clips,
         Len(r) > 0, Len(h) >= Len(r),
         \A i \in 1..Len(r) : r[i] = h[Len(h) - Len(r) + i]
  PROVE  /\ Len(Append(Tail(r), c)) = Len(r)
         /\ Len(Append(h, c)) = Len(h) + 1
         /\ \A i \in 1..Len(r) :
              Append(Tail(r), c)[i] = Append(h, c)[(Len(h) + 1) - Len(r) + i]
<1> DEFINE q == Append(Tail(r), c)
           g == Append(h, c)
           D == Len(r)
           k == Len(h)
<1>0. D \in Nat /\ k \in Nat /\ D > 0 /\ k >= D
  OBVIOUS
<1>1. Len(g) = k + 1 /\ g[k + 1] = c /\ \A i \in 1..k : g[i] = h[i]
  OBVIOUS
<1>2. Tail(r) \in Seq(Clips) /\ Len(Tail(r)) = D - 1 /\ \A i \in 1..(D - 1) : Tail(r)[i] = r[i + 1]
  OBVIOUS
<1>3. Len(q) = D /\ q[D] = c /\ \A i \in 1..(D - 1) : q[i] = r[i + 1]
  BY <1>2
<1>4. \A i \in 1..D : r[i] = h[k - D + i]
  OBVIOUS
<1> HIDE DEF q, g, D, k
<1>5. ASSUME NEW i \in 1..D PROVE q[i] = g[(k + 1) - D + i]
  <2>1. CASE i = D
    <3>1. (k + 1) - D + i = k + 1
      BY <1>0, <2>1
    <3>2. QED
      BY <1>1, <1>3, <2>1, <3>1
  <2>2. CASE i # D
    <3>1. i \in 1..(D - 1) /\ i + 1 \in 1..D
      BY <1>0, <2>2
    <3>2. q[i] = h[k - D + (i + 1)]
      BY <1>3, <1>4, <3>1
    <3>3. k - D + (i + 1) \in 1..k /\ (k + 1) - D + i = k - D + (i + 1)
      BY <1>0, <3>1, ShiftIndex
    <3>4. QED
      BY <1>1, <3>2, <3>3
  <2>3. QED
    BY <2>1, <2>2
<1>6. QED
  BY <1>1, <1>3, <1>5 DEF q, g, D, k

(* A clip pushed onto a ring with room, which still holds all of h. *)
LEMMA PushOntoRoom ==
  ASSUME NEW r \in Seq(Clips), NEW h \in Seq(Clips), NEW c \in Clips,
         Len(r) = Len(h),
         \A i \in 1..Len(r) : r[i] = h[i]
  PROVE  /\ Len(Append(r, c)) = Len(h) + 1
         /\ Len(Append(h, c)) = Len(h) + 1
         /\ \A i \in 1..(Len(h) + 1) : Append(r, c)[i] = Append(h, c)[i]
OBVIOUS

(* After any calls of push and clear, the ring is the newest RingDepth of  *)
(* the clips accepted since the last clear.                                *)
THEOREM NewestKept == Spec => []KeepsNewest
<1>1. Init => KeepsNewest
  BY RingDepthPositive DEF Init, KeepsNewest, Kept
<1>2. TypeOK /\ KeepsNewest /\ [Next]_vars => KeepsNewest'
  <2> SUFFICES ASSUME TypeOK, KeepsNewest, [Next]_vars PROVE KeepsNewest'
    OBVIOUS
  <2>1. CASE UNCHANGED vars
    BY <2>1 DEF KeepsNewest, Kept, vars
  <2>2. ASSUME NEW n \in Lens, Push(n) PROVE KeepsNewest'
    <3> DEFINE c == [id |-> pushes, len |-> n]
    <3>0. c \in Clips /\ c.len = n
      BY DEF Clips, TypeOK
    <3>1. items' = PushInto(items, c)
          /\ staged' = IF n > MaxLen THEN staged ELSE Append(staged, c)
      BY <2>2 DEF Push
    <3> HIDE DEF c
    <3>2. CASE n > MaxLen
      <4>1. items' = items /\ staged' = staged
        BY <3>0, <3>1, <3>2 DEF PushInto, Oversize
      <4>2. QED
        BY <4>1 DEF KeepsNewest, Kept
    <3>3. CASE ~(n > MaxLen)
      <4>1. /\ items' = IF Len(items) = RingDepth THEN Append(Tail(items), c)
                        ELSE Append(items, c)
            /\ staged' = Append(staged, c)
        BY <3>0, <3>1, <3>3 DEF PushInto, Oversize
      <4>2. items \in Seq(Clips) /\ staged \in Seq(Clips)
        BY DEF TypeOK
      <4>3. Len(items) = Kept
            /\ \A i \in 1..Len(items) : items[i] = staged[Len(staged) - Len(items) + i]
        BY DEF KeepsNewest
      <4>4. /\ Len(items) \in Nat /\ Len(staged) \in Nat /\ RingDepth \in Nat /\ RingDepth > 0
            /\ Len(items) = IF Len(staged) < RingDepth THEN Len(staged) ELSE RingDepth
        BY <4>2, <4>3, RingDepthPositive DEF Kept
      <4>5. CASE Len(items) = RingDepth
        <5>1. items' = Append(Tail(items), c)
          BY <4>1, <4>5
        <5>2. Len(staged) >= Len(items) /\ Len(items) > 0
          BY <4>4, <4>5
        <5>3. /\ Len(items') = Len(items)
              /\ Len(staged') = Len(staged) + 1
              /\ \A i \in 1..Len(items) : items'[i] = staged'[(Len(staged) + 1) - Len(items) + i]
          <6>1. staged' = Append(staged, c)
            BY <4>1
          <6>2. /\ Len(Append(Tail(items), c)) = Len(items)
                /\ Len(Append(staged, c)) = Len(staged) + 1
                /\ \A i \in 1..Len(items) :
                     Append(Tail(items), c)[i]
                       = Append(staged, c)[(Len(staged) + 1) - Len(items) + i]
            <7>1. \A i \in 1..Len(items) : items[i] = staged[Len(staged) - Len(items) + i]
              BY <4>3
            <7>2. QED
              BY <3>0, <4>2, <5>2, <7>1, PushOntoFull
          <6>3. QED
            BY <5>1, <6>1, <6>2, Zenon
        <5>4. Len(items') = Kept'
          BY <4>4, <4>5, <5>2, <5>3 DEF Kept, RingDepth
        <5>5. QED
          BY <5>3, <5>4 DEF KeepsNewest
      <4>6. CASE Len(items) # RingDepth
        <5>1. items' = Append(items, c)
          BY <4>1, <4>6
        <5>2. Len(items) = Len(staged) /\ Len(staged) < RingDepth
          BY <4>4, <4>6
        <5>3. \A i \in 1..Len(items) : items[i] = staged[i]
          BY <4>3, <4>4, <5>2
        <5>4. /\ Len(items') = Len(staged) + 1
              /\ Len(staged') = Len(staged) + 1
              /\ \A i \in 1..(Len(staged) + 1) : items'[i] = staged'[i]
          BY <3>0, <4>1, <4>2, <5>1, <5>2, <5>3, PushOntoRoom
        <5>5. Len(items') = Kept'
          BY <4>4, <5>2, <5>4 DEF Kept, RingDepth
        <5>6. QED
          BY <4>4, <5>4, <5>5 DEF KeepsNewest
      <4>7. QED
        BY <4>5, <4>6
    <3>4. QED
      BY <3>2, <3>3
  <2>3. CASE Clear
    BY <2>3, RingDepthPositive DEF Clear, KeepsNewest, Kept, RingDepth
  <2>4. QED
    BY <2>1, <2>2, <2>3 DEF Next
<1>3. QED
  BY <1>1, <1>2, TypeCorrect, PTL DEF Spec

-----------------------------------------------------------------------------
(* The types of the agent. *)

Boards == [text : Texts, seq : Nat]
Readers == [st : ReaderStates, tries : 0..OpenRetries, failed : BOOLEAN]
Writers == [st : WriterStates, tries : 0..OpenRetries, text : Texts]
Guards == [watcher : Nat, writer : Nat]
Menus == [paused : BOOLEAN, autostart : BOOLEAN]

-----------------------------------------------------------------------------
(* The steps of the agent, as its parts see them. *)

SetTextStep ==
  /\ writer.st = "idle"
  /\ \E x \in Texts : SetText(x)
  /\ UNCHANGED <<board, holder, ticks, reader, guards, out>> /\ UNCHANGED ringVars

ClipStep ==
  \/ \E x \in Texts : Copy(x)
  \/ OtherOpens \/ OtherCloses
  \/ ReaderNext \/ ReaderReadFails \/ Stage
  \/ SetTextStep \/ WriterNext \/ WriterFails

(* The pump sends a status to the tray, or changes the window's view. *)
StatusStep(s) ==
  /\ SetStatus(s)
  /\ UNCHANGED <<menu, cmds, main, paused, runKey, keyErr, idle, tip, view>>

ViewStep ==
  /\ view' \in Views
  /\ UNCHANGED <<menu, cmds, main, paused, runKey, keyErr, idle, tips, tip>>

Items == {"pair", "pause", "autostart", "quit"}

ShellStep ==
  \/ \E item \in Items : Click(item)
  \/ TrayWakes \/ WindowCloses \/ MainNext
  \/ \E s \in Statuses : StatusStep(s)
  \/ ViewStep

(* The clipboard as clipboard.rs knows it. *)
LEMMA NoTextType == NoText \in Texts
BY DEF NoText, Text, Texts

(* A text that is copied or beamed now has its type. *)
LEMMA TextType ==
  ASSUME NEW b \in BOOLEAN, NEW n \in Nat, NEW len \in Lens
  PROVE  Text(b, n, len) \in Texts
BY DEF Text, Texts

(* The event the pump handles next. *)
LEMMA HeadEvent ==
  ASSUME AgentTypeOK, evq # <<>>
  PROVE  /\ Head(evq) \in AgentEvents /\ Head(evq).text \in Texts
         /\ Tail(evq) \in Seq(AgentEvents)
<1>1. evq \in Seq(AgentEvents)
  BY DEF AgentTypeOK
<1>2. Head(evq) \in AgentEvents /\ Tail(evq) \in Seq(AgentEvents)
  BY <1>1
<1> QED
  BY <1>2 DEF AgentEvents

(* Every step of the agent is a step of the clipboard's users or none of   *)
(* their business.                                                         *)
LEMMA ClipMoves ==
  ASSUME AgentTypeOK, AgentNext
  PROVE  ClipStep \/ UNCHANGED clipVars
<1>0. texts + 1 \in Nat
  BY DEF AgentTypeOK
<1>1. ASSUME NEW len \in Lens, ClipArrives(len) \/ CopyText(len)
      PROVE  ClipStep \/ UNCHANGED clipVars
  <2>1. CASE ClipArrives(len)
    BY <2>1 DEF ClipArrives
  <2>2. CASE CopyText(len)
    <3>1. Text(FALSE, texts + 1, len) \in Texts
      BY <1>0, TextType
    <3> QED
      BY <2>2, <3>1 DEF CopyText, ClipStep
  <2> QED
    BY <1>1, <2>1, <2>2
<1>2. CASE CopyImage \/ ClipboardFaults
  BY <1>2, NoTextType DEF CopyImage, ClipboardFaults, ClipStep
<1>3. CASE ReaderSteps \/ StageSteps \/ OtherSteps \/ PumpWrites
  BY <1>3 DEF ReaderSteps, StageSteps, OtherSteps, PumpWrites, ClipStep
<1>4. CASE PumpClip
  <2>1. evq # <<>> /\ pump = "ready" /\ SetText(Head(evq).text)
    BY <1>4 DEF PumpClip, Receives
  <2>2. writer.st = "idle"
    BY <2>1 DEF AgentTypeOK
  <2> QED
    BY <1>4, <2>1, <2>2, HeadEvent DEF PumpClip, ClipStep, SetTextStep
<1>5. CASE \/ PeerConnects \/ PeerLeaves
           \/ PumpConnected \/ PumpDisconnected \/ PumpSendsStatus \/ PumpPairing
           \/ MainSteps \/ ScreenSteps
  BY <1>5 DEF PeerConnects, PeerLeaves, PumpConnected, PumpDisconnected, PumpSendsStatus,
              PumpPairing, MainSteps, ScreenSteps
<1>6. CASE \/ \E ev \in PairingEvents : PairingProceeds(ev)
           \/ \E item \in Items : UserClicks(item)
  BY <1>6 DEF PairingProceeds, UserClicks
<1> QED
  BY <1>1, <1>2, <1>3, <1>4, <1>5, <1>6 DEF AgentNext, PumpNext, Items

(* The same for the user interface. *)
LEMMA ShellMoves ==
  ASSUME AgentTypeOK, AgentNext
  PROVE  ShellStep \/ UNCHANGED shellVars
<1>1. ASSUME NEW len \in Lens, ClipArrives(len) \/ CopyText(len)
      PROVE  UNCHANGED shellVars
  BY <1>1 DEF ClipArrives, CopyText
<1>2. CASE CopyImage \/ ClipboardFaults \/ ReaderSteps \/ StageSteps \/ OtherSteps \/ PumpWrites
  BY <1>2 DEF CopyImage, ClipboardFaults, ReaderSteps, StageSteps, OtherSteps, PumpWrites
<1>3. CASE PeerConnects \/ PeerLeaves \/ PumpDisconnected \/ PumpClip
  BY <1>3 DEF PeerConnects, PeerLeaves, PumpDisconnected, PumpClip
<1>4. CASE PumpConnected \/ PumpSendsStatus
  BY <1>4 DEF PumpConnected, PumpSendsStatus, ShellStep, StatusStep, Statuses
<1>5. CASE PumpPairing
  <2>1. Head(evq).ev \in PairingEvents /\ view' = ViewAfter[Head(evq).ev]
    BY <1>5 DEF PumpPairing, Receives
  <2>2. view' \in Views
    BY <2>1 DEF PairingEvents, ViewAfter, Views
  <2> QED
    BY <1>5, <2>2 DEF PumpPairing, ShellStep, ViewStep
<1>6. CASE MainSteps \/ ScreenSteps
  BY <1>6 DEF MainSteps, ScreenSteps, ShellStep
<1>7. CASE \E ev \in PairingEvents : PairingProceeds(ev)
  BY <1>7 DEF PairingProceeds
<1>8. CASE \E item \in Items : UserClicks(item)
  BY <1>8 DEF UserClicks, ShellStep
<1> QED
  BY <1>1, <1>2, <1>3, <1>4, <1>5, <1>6, <1>7, <1>8 DEF AgentNext, PumpNext, Items

-----------------------------------------------------------------------------
(* The clipboard and the ring. *)

(* The reader hands on no empty text. *)
NoneEmpty == \A i \in 1..Len(out) : out[i].len > 0

ClipTypes == TypeOK /\ ClipTypeOK /\ NoneEmpty

(* The types of the clipboard's users with their sets named. *)
LEMMA ClipTyped ==
  ClipTypeOK <=>
    /\ board \in Boards
    /\ holder \in {"none", "reader", "writer", "other"}
    /\ ticks \in Nat
    /\ reader \in Readers
    /\ writer \in Writers
    /\ guards \in Guards
    /\ out \in Seq(Texts)
    /\ pushed \in Seq(Texts) /\ Len(pushed) = pushes
BY DEF ClipTypeOK, Boards, Readers, Writers, Guards

(* What the staging thread takes next. *)
LEMMA HeadOut ==
  ASSUME ClipTypes, out # <<>>
  PROVE  /\ Head(out) \in Texts /\ Head(out) = out[1] /\ Head(out).len \in Lens
         /\ Tail(out) \in Seq(Texts) /\ Len(Tail(out)) = Len(out) - 1
         /\ \A i \in 1..Len(Tail(out)) : i + 1 \in 1..Len(out) /\ Tail(out)[i] = out[i + 1]
<1>1. out \in Seq(Texts)
  BY ClipTyped DEF ClipTypes
<1>2. Head(out) \in Texts /\ Head(out) = out[1] /\ 1 \in 1..Len(out)
  BY <1>1
<1>3. Head(out).len \in Lens \cup {0} /\ Head(out).len > 0
  BY <1>2 DEF ClipTypes, NoneEmpty, Texts
<1>4. Head(out).len \in Lens
  BY <1>3
<1>5. Tail(out) \in Seq(Texts) /\ Len(Tail(out)) = Len(out) - 1
      /\ \A i \in 1..Len(Tail(out)) : i + 1 \in 1..Len(out) /\ Tail(out)[i] = out[i + 1]
  BY <1>1
<1> QED
  BY <1>2, <1>4, <1>5

(* The attempts to open the clipboard are counted down to zero. *)
LEMMA Attempts == 0 \in 0..OpenRetries /\ OpenRetries \in 0..OpenRetries
BY RetriesAssumption

(* A text has a length. *)
LEMMA TextLen ==
  ASSUME NEW x \in Texts
  PROVE  x.len \in Nat
<1>1. x.len \in Lens \cup {0}
  BY DEF Texts
<1>2. \A n \in Lens \cup {0} : n \in Nat
  BY LensAssumption
<1> QED
  BY <1>1, <1>2, Zenon

(* Only the staging thread touches the ring. *)
LEMMA RingSame ==
  ASSUME ClipTypes, UNCHANGED ringVars
  PROVE  TypeOK' /\ pushed' = pushed /\ pushes' = pushes /\ items' = items
BY DEF ClipTypes, TypeOK, ringVars

(* Steps of other applications. *)
LEMMA OtherTypes ==
  ASSUME ClipTypes,
         \/ \E x \in Texts : Copy(x)
         \/ OtherOpens \/ OtherCloses
  PROVE  ClipTypes'
<1>1. UNCHANGED ringVars /\ UNCHANGED <<reader, writer, guards, out>>
  BY DEF Copy, OtherOpens, OtherCloses
<1>2. board' \in Boards /\ ticks' \in Nat
  <2>1. CASE \E x \in Texts : Copy(x)
    <3>1. PICK x \in Texts : Copy(x)
      BY <2>1
    <3>2. board.seq + 1 \in Nat /\ ticks + 1 \in Nat
      BY ClipTyped DEF ClipTypes, Boards
    <3> QED
      BY <3>1, <3>2 DEF Copy, Boards
  <2>2. CASE OtherOpens \/ OtherCloses
    BY <2>2, ClipTyped DEF ClipTypes, OtherOpens, OtherCloses
  <2> QED
    BY <2>1, <2>2
<1>3. holder' \in {"none", "reader", "writer", "other"}
  BY ClipTyped DEF ClipTypes, Copy, OtherOpens, OtherCloses
<1>4. ClipTypeOK'
  BY <1>1, <1>2, <1>3, RingSame DEF ClipTypes, ClipTypeOK, Boards
<1> QED
  BY <1>1, <1>4, RingSame DEF ClipTypes, NoneEmpty

(* Steps of the reader thread. *)
LEMMA ReaderTypes ==
  ASSUME ClipTypes, ReaderNext \/ ReaderReadFails
  PROVE  ClipTypes'
<1>0. /\ reader \in Readers /\ ticks \in Nat /\ board \in Boards /\ out \in Seq(Texts)
      /\ holder \in {"none", "reader", "writer", "other"}
  BY ClipTyped DEF ClipTypes
<1>1. UNCHANGED ringVars /\ UNCHANGED readerRest
  BY DEF ReaderNext, ReaderTick, ReaderDrain, ReaderSeq, ReaderFormat, ReaderOpen, ReaderRead,
         ReaderReadFails
<1>2. \A b \in BOOLEAN : ReaderIdle(b) \in Readers
  BY RetriesAssumption DEF ReaderIdle, Readers, ReaderStates
<1>3. /\ ticks' \in Nat /\ reader' \in Readers /\ out' \in Seq(Texts)
      /\ holder' \in {"none", "reader", "writer", "other"} /\ NoneEmpty'
  <2>1. CASE ReaderTick
    BY <1>0, <2>1 DEF ReaderTick, Readers, ReaderStates, ClipTypes, NoneEmpty
  <2>2. CASE ReaderDrain
    BY <1>0, <2>2 DEF ReaderDrain, ClipTypes, NoneEmpty
  <2>3. CASE ReaderSeq
    <3>1. [reader EXCEPT !.st = "unowned"] \in Readers
      BY <1>0 DEF Readers, ReaderStates
    <3> QED
      BY <1>0, <1>2, <2>3, <3>1 DEF ReaderSeq, ClipTypes, NoneEmpty
  <2>4. CASE ReaderFormat
    <3>1. [reader EXCEPT !.st = "opening", !.tries = OpenRetries] \in Readers
      BY <1>0, Attempts DEF Readers, ReaderStates
    <3> QED
      BY <1>0, <1>2, <2>4, <3>1 DEF ReaderFormat, ClipTypes, NoneEmpty
  <2>5. CASE ReaderOpen
    <3>1. [reader EXCEPT !.st = "open", !.tries = 0] \in Readers
      BY <1>0, Attempts DEF Readers, ReaderStates
    <3>2. reader.tries > 1 => [reader EXCEPT !.tries = @ - 1] \in Readers
      <4>1. reader.tries > 1 => reader.tries - 1 \in 0..OpenRetries
        BY <1>0, RetriesAssumption DEF Readers
      <4> QED
        BY <1>0, <4>1 DEF Readers
    <3>3. reader' \in Readers
      BY <1>2, <2>5, <3>1, <3>2 DEF ReaderOpen
    <3> QED
      BY <1>0, <2>5, <3>3 DEF ReaderOpen, ClipTypes, NoneEmpty
  <2>6. CASE ReaderRead
    <3>1. board.text \in Texts /\ board.text.len \in Nat
      BY <1>0, TextLen DEF Boards
    <3>2. reader' \in Readers
      BY <1>2, <2>6 DEF ReaderRead
    <3>3. CASE board.text.len > 0
      <4>1. out' = Append(out, board.text)
        BY <2>6, <3>3 DEF ReaderRead
      <4>2. out' \in Seq(Texts) /\ NoneEmpty'
        BY <1>0, <3>1, <3>3, <4>1 DEF ClipTypes, NoneEmpty
      <4> QED
        BY <1>0, <2>6, <3>2, <4>2 DEF ReaderRead
    <3>4. CASE ~(board.text.len > 0)
      BY <1>0, <2>6, <3>2, <3>4 DEF ReaderRead, ClipTypes, NoneEmpty
    <3> QED
      BY <3>3, <3>4
  <2>7. CASE ReaderReadFails
    BY <1>0, <1>2, <2>7 DEF ReaderReadFails, ClipTypes, NoneEmpty
  <2> QED
    BY <2>1, <2>2, <2>3, <2>4, <2>5, <2>6, <2>7 DEF ReaderNext
<1>4. ClipTypeOK'
  BY <1>1, <1>3, RingSame DEF ClipTypes, ClipTypeOK, Readers, readerRest
<1> QED
  BY <1>1, <1>3, <1>4, RingSame DEF ClipTypes

(* The staging thread. *)
LEMMA StageTypes ==
  ASSUME ClipTypes, Stage
  PROVE  ClipTypes' /\ Next
<1>1. out # <<>> /\ Push(Head(out).len) /\ pushed' = Append(pushed, Head(out)) /\ out' = Tail(out)
  BY DEF Stage
<1>2. Next
  BY <1>1, HeadOut DEF Next
<1>3. TypeOK'
  BY <1>2, TypeStep DEF ClipTypes
<1>4. pushed' \in Seq(Texts) /\ Len(pushed') = pushes'
  <2>1. pushed \in Seq(Texts) /\ Len(pushed) = pushes
    BY ClipTyped DEF ClipTypes
  <2>2. pushes' = pushes + 1
    BY <1>1 DEF Push
  <2> QED
    BY <1>1, <2>1, <2>2, HeadOut
<1>5. out' \in Seq(Texts) /\ NoneEmpty'
  BY <1>1, HeadOut DEF ClipTypes, NoneEmpty
<1>6. ClipTypeOK'
  BY <1>4, <1>5 DEF ClipTypes, ClipTypeOK, Stage
<1> QED
  BY <1>2, <1>3, <1>5, <1>6 DEF ClipTypes

(* set_text. *)
LEMMA WriterTypes ==
  ASSUME ClipTypes, SetTextStep \/ WriterNext \/ WriterFails
  PROVE  ClipTypes'
<1>0. /\ writer \in Writers /\ ticks \in Nat /\ board \in Boards /\ guards \in Guards
      /\ board.seq \in Nat /\ board.text \in Texts /\ writer.text \in Texts
      /\ holder \in {"none", "reader", "writer", "other"}
  BY ClipTyped DEF ClipTypes, Boards, Writers
<1>1. UNCHANGED ringVars /\ UNCHANGED writerRest
  BY DEF SetTextStep, WriterNext, WriterOpen, WriterEmpty, WriterSet, WriterRecord, WriterFails,
         writerRest
<1>2. WriterIdle \in Writers
  BY NoTextType, RetriesAssumption DEF WriterIdle, Writers, WriterStates
<1>3. /\ ticks' \in Nat /\ writer' \in Writers /\ board' \in Boards /\ guards' \in Guards
      /\ holder' \in {"none", "reader", "writer", "other"}
  <2>1. CASE SetTextStep
    <3>1. PICK x \in Texts : writer' = [st |-> "opening", tries |-> OpenRetries, text |-> x]
      BY <2>1 DEF SetTextStep, SetText
    <3>2. writer' \in Writers
      BY <3>1, RetriesAssumption DEF Writers, WriterStates
    <3> QED
      BY <1>0, <2>1, <3>2 DEF SetTextStep
  <2>2. CASE WriterOpen
    <3>1. [writer EXCEPT !.st = "open", !.tries = 0] \in Writers
      BY <1>0, Attempts DEF Writers, WriterStates
    <3>2. writer.tries > 1 => [writer EXCEPT !.tries = @ - 1] \in Writers
      <4>1. writer.tries > 1 => writer.tries - 1 \in 0..OpenRetries
        BY <1>0, RetriesAssumption DEF Writers
      <4> QED
        BY <1>0, <4>1 DEF Writers
    <3>3. writer' \in Writers
      BY <1>2, <2>2, <3>1, <3>2 DEF WriterOpen
    <3> QED
      BY <1>0, <2>2, <3>3 DEF WriterOpen
  <2>3. CASE WriterEmpty
    <3>1. board' \in Boards
      BY <1>0, <2>3, NoTextType DEF WriterEmpty, Boards
    <3>2. writer' \in Writers
      BY <1>0, <2>3 DEF WriterEmpty, Writers, WriterStates
    <3> QED
      BY <1>0, <2>3, <3>1, <3>2 DEF WriterEmpty
  <2>4. CASE WriterSet
    <3>1. board' \in Boards
      BY <1>0, <2>4 DEF WriterSet, Boards
    <3>2. writer' \in Writers
      BY <1>0, <2>4 DEF WriterSet, Writers, WriterStates
    <3> QED
      BY <1>0, <2>4, <3>1, <3>2 DEF WriterSet
  <2>5. CASE WriterRecord
    <3>1. guards' \in Guards
      BY <1>0, <2>5 DEF WriterRecord, Guards
    <3> QED
      BY <1>0, <1>2, <2>5, <3>1 DEF WriterRecord
  <2>6. CASE WriterFails
    BY <1>0, <1>2, <2>6 DEF WriterFails
  <2> QED
    BY <2>1, <2>2, <2>3, <2>4, <2>5, <2>6 DEF WriterNext
<1>4. ClipTypeOK' /\ NoneEmpty'
  BY <1>1, <1>3, RingSame DEF ClipTypes, ClipTypeOK, NoneEmpty, Writers, Boards, Guards, writerRest
<1> QED
  BY <1>1, <1>4, RingSame DEF ClipTypes

(* All steps at the clipboard keep the types, and are calls of push or     *)
(* none of the ring's business.                                            *)
LEMMA ClipTypesStep ==
  ASSUME ClipTypes, ClipStep \/ UNCHANGED clipVars
  PROVE  ClipTypes' /\ [Next]_vars
<1>1. CASE \/ \E x \in Texts : Copy(x)
           \/ OtherOpens \/ OtherCloses
  <2>1. UNCHANGED ringVars
    BY <1>1 DEF Copy, OtherOpens, OtherCloses
  <2> QED
    BY <1>1, <2>1, OtherTypes DEF ringVars, vars
<1>2. CASE ReaderNext \/ ReaderReadFails
  <2>1. UNCHANGED ringVars
    BY <1>2 DEF ReaderNext, ReaderTick, ReaderDrain, ReaderSeq, ReaderFormat, ReaderOpen,
                ReaderRead, ReaderReadFails
  <2> QED
    BY <1>2, <2>1, ReaderTypes DEF ringVars, vars
<1>3. CASE Stage
  BY <1>3, StageTypes
<1>4. CASE SetTextStep \/ WriterNext \/ WriterFails
  <2>1. UNCHANGED ringVars
    BY <1>4 DEF SetTextStep, WriterNext, WriterOpen, WriterEmpty, WriterSet, WriterRecord,
                WriterFails
  <2> QED
    BY <1>4, <2>1, WriterTypes DEF ringVars, vars
<1>5. CASE UNCHANGED clipVars
  BY <1>5 DEF clipVars, vars, ClipTypes, TypeOK, ClipTypeOK, NoneEmpty
<1> QED
  BY <1>1, <1>2, <1>3, <1>4, <1>5 DEF ClipStep

(* The reader has read what the clipboard holds.  Only a read brings it    *)
(* here with an acceptable text: the watcher's guard is never given a      *)
(* sequence number, so no update is taken for our own.                     *)
HasRead ==
  /\ reader.st = "idle" /\ ~reader.failed /\ ticks = 0
  /\ Acceptable(board.text) /\ board.seq > 1

(* Then the text is the last one handed on, or the newest one staged. *)
ReadInv ==
  /\ guards.watcher = 0 /\ board.seq >= 1
  /\ HasRead => IF out = <<>> THEN NewestStaged = board.text ELSE out[Len(out)] = board.text

(* An accepted push leaves the new clip as the ring's newest. *)
LEMMA PushedLast ==
  ASSUME TypeOK, NEW c \in Clips, ~Oversize(c)
  PROVE  /\ PushInto(items, c) # <<>>
         /\ PushInto(items, c)[Len(PushInto(items, c))] = c
<1>1. items \in Seq(Clips)
  BY DEF TypeOK
<1>2. CASE Len(items) = RingDepth
  <2>1. items # <<>> /\ Tail(items) \in Seq(Clips)
    BY <1>1, <1>2, RingDepthPositive
  <2>2. PushInto(items, c) = Append(Tail(items), c)
    BY <1>2 DEF PushInto
  <2> QED
    BY <2>1, <2>2
<1>3. CASE Len(items) # RingDepth
  <2>1. PushInto(items, c) = Append(items, c)
    BY <1>3 DEF PushInto
  <2> QED
    BY <1>1, <2>1
<1> QED
  BY <1>2, <1>3

(* The staging thread pushes the last text handed on. *)
LEMMA StageReads ==
  ASSUME ClipTypes, ReadInv, Stage
  PROVE  ReadInv'
<1>1. /\ out # <<>> /\ Push(Head(out).len) /\ pushed' = Append(pushed, Head(out))
      /\ out' = Tail(out)
      /\ board' = board /\ ticks' = ticks /\ reader' = reader /\ guards' = guards
  BY DEF Stage
<1> SUFFICES ASSUME HasRead
             PROVE  IF out' = <<>> THEN NewestStaged' = board.text
                    ELSE out'[Len(out')] = board.text
  BY <1>1 DEF ReadInv, HasRead, Acceptable
<1>2. out[Len(out)] = board.text
  BY <1>1 DEF ReadInv
<1>3. out \in Seq(Texts) /\ Len(out) \in Nat /\ pushed \in Seq(Texts) /\ Len(pushed) = pushes
  BY ClipTyped DEF ClipTypes
<1>4. CASE out' = <<>>
  <2> DEFINE c == [id |-> pushes, len |-> Head(out).len]
  <2>1. Len(out) = 1
    <3>1. Len(Tail(out)) = Len(out) - 1 /\ Len(Tail(out)) = 0
      BY <1>1, <1>4, HeadOut
    <3> QED
      BY <1>3, <3>1
  <2>2. Head(out) = board.text
    BY <1>1, <1>2, <2>1, HeadOut
  <2>3. c \in Clips /\ c.id = pushes /\ ~Oversize(c)
    <3>1. Head(out).len <= MaxLen /\ Head(out).len \in Lens
      BY <1>1, <2>2, HeadOut DEF HasRead, Acceptable
    <3>2. ~(Head(out).len > MaxLen)
      <4> DEFINE n == Head(out).len
      <4>1. n \in Nat /\ n <= MaxLen /\ MaxLen \in Nat
        BY <1>1, <3>1, HeadOut, TextLen, StageAssumption
      <4> HIDE DEF n
      <4>2. ~(n > MaxLen)
        BY <4>1
      <4> QED
        BY <4>2 DEF n
    <3> QED
      BY <3>1, <3>2 DEF ClipTypes, TypeOK, Clips, Oversize
  <2>4. items' = PushInto(items, c)
    BY <1>1 DEF Push
  <2> HIDE DEF c
  <2>5. items' # <<>> /\ items'[Len(items')].id = pushes
    BY <2>3, <2>4, PushedLast DEF ClipTypes
  <2>6. pushed'[pushes + 1] = board.text
    BY <1>1, <1>3, <2>2, HeadOut
  <2>7. NewestStaged' = board.text
    BY <2>5, <2>6 DEF NewestStaged
  <2> QED
    BY <1>4, <2>7
<1>5. CASE out' # <<>>
  <2>1. Len(Tail(out)) \in Nat \ {0} /\ Len(Tail(out)) = Len(out) - 1
    BY <1>1, <1>5, HeadOut
  <2>2. Len(Tail(out)) \in 1..Len(Tail(out)) /\ Len(Tail(out)) + 1 = Len(out)
    <3> DEFINE n == Len(Tail(out))
    <3> DEFINE m == Len(out)
    <3>1. n \in Nat /\ n # 0 /\ m \in Nat /\ n = m - 1
      BY <1>3, <2>1
    <3> HIDE DEF n, m
    <3>2. n \in 1..n /\ n + 1 = m
      BY <3>1
    <3> QED
      BY <3>2 DEF n, m
  <2>3. Tail(out)[Len(Tail(out))] = out[Len(out)]
    BY <1>1, <2>2, HeadOut
  <2> QED
    BY <1>1, <1>2, <1>5, <2>3
<1> QED
  BY <1>4, <1>5

(* No text is not acceptable. *)
LEMMA NoTextRefused == ~Acceptable(NoText)
BY DEF Acceptable, NoText, Text

(* The steps that keep the clipboard, what was read of it and what was     *)
(* staged as they are.                                                     *)
LEMMA ReadSame ==
  ASSUME ReadInv, HasRead' => HasRead, guards'.watcher = guards.watcher,
         board' = board, out' = out, UNCHANGED ringVars
  PROVE  ReadInv'
BY DEF ReadInv, NewestStaged, ringVars

(* The steps after which the reader has something left to read. *)
LEMMA ReadLater ==
  ASSUME ReadInv, ~HasRead', guards'.watcher = guards.watcher, board'.seq >= 1
  PROVE  ReadInv'
BY DEF ReadInv

(* The reader thread. *)
LEMMA ReaderReads ==
  ASSUME ClipTypes, ReadInv, ReaderNext \/ ReaderReadFails
  PROVE  ReadInv'
<1>0. /\ reader \in Readers /\ board \in Boards /\ board.text \in Texts /\ out \in Seq(Texts)
      /\ board.text.len \in Nat
  BY ClipTyped, TextLen DEF ClipTypes, Boards
<1>1. board' = board /\ guards' = guards /\ board.seq >= 1 /\ UNCHANGED ringVars
  BY DEF ReaderNext, ReaderTick, ReaderDrain, ReaderSeq, ReaderFormat, ReaderOpen, ReaderRead,
         ReaderReadFails, readerRest, ReadInv
<1>2. CASE ReaderTick \/ ReaderDrain
  <2>1. reader'.st = "draining"
    BY <1>0, <1>2 DEF ReaderTick, ReaderDrain, Readers
  <2> QED
    BY <1>1, <2>1, ReadLater DEF HasRead
<1>3. CASE ReaderSeq
  <2>1. board.seq # guards.watcher
    BY <1>0 DEF ReadInv, Boards
  <2>2. reader'.st = "unowned"
    BY <1>0, <1>3, <2>1 DEF ReaderSeq, Readers
  <2> QED
    BY <1>1, <2>2, ReadLater DEF HasRead
<1>4. CASE ReaderFormat
  <2>1. board.text = NoText \/ reader'.st = "opening"
    BY <1>0, <1>4 DEF ReaderFormat, Readers
  <2> QED
    BY <1>1, <2>1, ReadLater, NoTextRefused DEF HasRead
<1>5. CASE ReaderOpen
  <2>1. reader'.st # "idle" \/ reader'.failed
    <3>1. \/ reader' = [reader EXCEPT !.st = "open", !.tries = 0]
          \/ reader' = [reader EXCEPT !.tries = @ - 1] /\ reader.st = "opening"
          \/ reader' = ReaderIdle(TRUE)
      BY <1>5 DEF ReaderOpen
    <3>2. CASE reader' = [reader EXCEPT !.st = "open", !.tries = 0]
      BY <1>0, <3>2 DEF Readers
    <3>3. CASE reader' = [reader EXCEPT !.tries = @ - 1] /\ reader.st = "opening"
      <4>1. reader'.st = reader.st
        BY <1>0, <3>3 DEF Readers
      <4> QED
        BY <3>3, <4>1
    <3>4. CASE reader' = ReaderIdle(TRUE)
      BY <3>4 DEF ReaderIdle
    <3> QED
      BY <3>1, <3>2, <3>3, <3>4
  <2> QED
    BY <1>1, <2>1, ReadLater DEF HasRead
<1>6. CASE ReaderReadFails
  <2>1. reader'.failed
    BY <1>6 DEF ReaderReadFails, ReaderIdle
  <2> QED
    BY <1>1, <2>1, ReadLater DEF HasRead
<1>7. CASE ReaderRead
  <2>1. CASE board.text.len > 0
    <3>1. out' = Append(out, board.text)
      BY <1>7, <2>1 DEF ReaderRead
    <3>2. out' # <<>> /\ out'[Len(out')] = board.text
      BY <1>0, <3>1
    <3> QED
      BY <1>1, <3>2 DEF ReadInv
  <2>2. CASE ~(board.text.len > 0)
    <3>1. ~Acceptable(board'.text)
      BY <1>0, <1>1, <2>2, StageAssumption DEF Acceptable
    <3> QED
      BY <1>1, <3>1, ReadLater DEF HasRead
  <2> QED
    BY <2>1, <2>2
<1> QED
  BY <1>2, <1>3, <1>4, <1>5, <1>6, <1>7 DEF ReaderNext

(* Other applications, and set_text. *)
LEMMA ChangesRead ==
  ASSUME ClipTypes, ReadInv,
         \/ \E x \in Texts : Copy(x)
         \/ OtherOpens \/ OtherCloses
         \/ SetTextStep \/ WriterNext \/ WriterFails
  PROVE  ReadInv'
<1>0. ticks \in Nat /\ board \in Boards /\ board.seq \in Nat /\ guards \in Guards
  BY ClipTyped DEF ClipTypes, Boards
<1>1. CASE \E x \in Texts : Copy(x)
  <2>1. ticks' # 0 /\ board'.seq >= 1 /\ guards' = guards
    BY <1>0, <1>1 DEF Copy
  <2> QED
    BY <2>1, ReadLater DEF HasRead
<1>2. CASE OtherOpens \/ OtherCloses \/ SetTextStep \/ WriterOpen
  <2>1. /\ board' = board /\ out' = out /\ UNCHANGED ringVars /\ guards' = guards
        /\ reader' = reader /\ ticks' = ticks
    BY <1>2 DEF OtherOpens, OtherCloses, SetTextStep, WriterOpen, writerRest
  <2> QED
    BY <2>1, ReadSame DEF HasRead
<1>3. CASE WriterEmpty
  <2>1. board'.text = NoText /\ board'.seq >= 1 /\ guards' = guards
    BY <1>0, <1>3 DEF WriterEmpty
  <2> QED
    BY <2>1, ReadLater, NoTextRefused DEF HasRead
<1>4. CASE WriterSet
  <2>1. ticks' # 0 /\ board'.seq >= 1 /\ guards' = guards
    BY <1>0, <1>4 DEF WriterSet
  <2> QED
    BY <2>1, ReadLater DEF HasRead
<1>5. CASE WriterRecord
  <2>1. /\ board' = board /\ out' = out /\ UNCHANGED ringVars
        /\ guards'.watcher = guards.watcher /\ reader' = reader /\ ticks' = ticks
    BY <1>0, <1>5 DEF WriterRecord, writerRest, Guards
  <2> QED
    BY <2>1, ReadSame DEF HasRead
<1>6. CASE WriterFails
  <2>1. /\ board' = board /\ out' = out /\ UNCHANGED ringVars /\ guards' = guards
        /\ reader' = reader
    BY <1>6 DEF WriterFails, writerRest
  <2>2. ticks' = 0 => ticks = 0
    BY <1>0, <1>6 DEF WriterFails
  <2> QED
    BY <2>1, <2>2, ReadSame DEF HasRead
<1> QED
  BY <1>1, <1>2, <1>3, <1>4, <1>5, <1>6 DEF WriterNext

(* Every step at the clipboard keeps the invariant. *)
LEMMA ReadStep ==
  ASSUME ClipTypes, ReadInv, ClipStep \/ UNCHANGED clipVars
  PROVE  ReadInv'
<1>1. CASE ReaderNext \/ ReaderReadFails
  BY <1>1, ReaderReads
<1>2. CASE Stage
  BY <1>2, StageReads
<1>3. CASE \/ \E x \in Texts : Copy(x)
           \/ OtherOpens \/ OtherCloses
           \/ SetTextStep \/ WriterNext \/ WriterFails
  BY <1>3, ChangesRead
<1>4. CASE UNCHANGED clipVars
  BY <1>4 DEF clipVars, ReadInv, HasRead, NewestStaged
<1> QED
  BY <1>1, <1>2, <1>3, <1>4 DEF ClipStep

-----------------------------------------------------------------------------
(* The tray and the main thread. *)

(* The types of the user interface with their sets named. *)
LEMMA ShellTyped ==
  ShellTypeOK <=>
    /\ menu \in Menus
    /\ cmds \in Seq(Cmds)
    /\ main \in {"loop", "window", "gone"}
    /\ paused \in BOOLEAN /\ runKey \in BOOLEAN /\ keyErr \in BOOLEAN
    /\ idle \in Statuses /\ tip \in Statuses /\ tips \in Seq(Statuses)
    /\ view \in Views
BY DEF ShellTypeOK, Menus

(* The command the main thread obeys. *)
LEMMA HeadCmd ==
  ASSUME ShellTypeOK, cmds # <<>>
  PROVE  /\ Head(cmds) \in Cmds /\ Head(cmds).on \in BOOLEAN
         /\ Tail(cmds) \in Seq(Cmds)
<1>1. cmds \in Seq(Cmds)
  BY ShellTyped
<1>2. Head(cmds) \in Cmds /\ Tail(cmds) \in Seq(Cmds)
  BY <1>1
<1> QED
  BY <1>2 DEF Cmds

(* What a click on an item of the menu does to the menu and the commands. *)
LEMMA ClassifyTypes ==
  ASSUME ShellTypeOK, NEW item, ClassifyMenuEvent(item)
  PROVE  menu' \in Menus /\ cmds' \in Seq(Cmds)
<1>0. menu \in Menus /\ cmds \in Seq(Cmds)
  BY ShellTyped
<1>1. \A c \in {"OpenPairing", "SetPaused", "SetAutostart", "Quit"}, b \in BOOLEAN :
        Append(cmds, Cmd(c, b)) \in Seq(Cmds)
  BY <1>0 DEF Cmd, Cmds
<1>2. menu' \in Menus
  BY <1>0 DEF ClassifyMenuEvent, Menus
<1>3. /\ menu.paused \in BOOLEAN /\ menu.autostart \in BOOLEAN
  BY <1>0 DEF Menus
<1>4. PICK c \in {"OpenPairing", "SetPaused", "SetAutostart", "Quit"}, b \in BOOLEAN :
        cmds' = Append(cmds, Cmd(c, b))
  BY <1>3 DEF ClassifyMenuEvent
<1> QED
  BY <1>1, <1>2, <1>4

(* Showing the last status sent. *)
LEMMA DrainTypes ==
  ASSUME ShellTypeOK, DrainTips
  PROVE  tip' \in Statuses /\ tips' \in Seq(Statuses)
<1>1. tip \in Statuses /\ tips \in Seq(Statuses)
  BY ShellTyped
<1>2. tips # <<>> => tips[Len(tips)] \in Statuses
  BY <1>1
<1>3. tips' \in Seq(Statuses)
  BY DEF DrainTips
<1> QED
  BY <1>1, <1>2, <1>3 DEF DrainTips

(* Sending a status. *)
LEMMA StatusTypes ==
  ASSUME ShellTypeOK, NEW s \in Statuses, SetStatus(s)
  PROVE  tips' \in Seq(Statuses)
<1>1. tips \in Seq(Statuses)
  BY ShellTyped
<1> QED
  BY <1>1 DEF SetStatus

(* Every step of the user interface keeps its types. *)
LEMMA ShellTypesStep ==
  ASSUME ShellTypeOK, ShellStep \/ UNCHANGED shellVars
  PROVE  ShellTypeOK'
<1>1. ASSUME NEW item \in Items, Click(item)
      PROVE  ShellTypeOK'
  <2>1. menu' \in Menus /\ cmds' \in Seq(Cmds)
    BY <1>1, ClassifyTypes DEF Click
  <2>2. tip' \in Statuses /\ tips' \in Seq(Statuses)
    <3>1. CASE item = "quit"
      BY <1>1, <3>1 DEF Click, ShellTypeOK
    <3>2. CASE item # "quit"
      BY <1>1, <3>2, DrainTypes DEF Click
    <3> QED
      BY <3>1, <3>2
  <2> QED
    BY <1>1, <2>1, <2>2 DEF Click, ShellTypeOK, Menus
<1>2. CASE TrayWakes
  BY <1>2, DrainTypes DEF TrayWakes, ShellTypeOK
<1>3. CASE WindowCloses
  BY <1>3 DEF WindowCloses, ShellTypeOK
<1>4. CASE MainOpenPairing
  BY <1>4, HeadCmd DEF MainOpenPairing, Obeys, ShellTypeOK, Views
<1>5. CASE MainSetPaused
  <2>1. cmds' \in Seq(Cmds) /\ paused' \in BOOLEAN
    BY <1>5, HeadCmd DEF MainSetPaused, Obeys
  <2>2. tips' \in Seq(Statuses)
    <3>1. (IF Head(cmds).on THEN "Paused" ELSE idle) \in Statuses
      BY DEF ShellTypeOK, Statuses
    <3> QED
      BY <1>5, <3>1, StatusTypes DEF MainSetPaused
  <2> QED
    BY <1>5, <2>1, <2>2 DEF MainSetPaused, ShellTypeOK
<1>6. CASE MainSetAutostart
  <2>1. cmds' \in Seq(Cmds) /\ runKey' \in BOOLEAN /\ keyErr' \in BOOLEAN
    BY <1>6, HeadCmd DEF MainSetAutostart, Obeys, ShellTypeOK
  <2> QED
    BY <1>6, <2>1 DEF MainSetAutostart, ShellTypeOK
<1>7. CASE MainQuit
  BY <1>7, HeadCmd DEF MainQuit, Obeys, ShellTypeOK
<1>8. ASSUME NEW s \in Statuses, StatusStep(s)
      PROVE  ShellTypeOK'
  BY <1>8, StatusTypes DEF StatusStep, ShellTypeOK
<1>9. CASE ViewStep
  BY <1>9 DEF ViewStep, ShellTypeOK
<1>10. CASE UNCHANGED shellVars
  BY <1>10 DEF shellVars, ShellTypeOK
<1> QED
  BY <1>1, <1>2, <1>3, <1>4, <1>5, <1>6, <1>7, <1>8, <1>9, <1>10 DEF ShellStep, MainNext

(* The last command c of the queue q asks for what the menu shows; without *)
(* one, that is how things stand.                                          *)
Follows(q, c, shown, is) ==
  /\ \A i \in 1..Len(q) :
       q[i].c = c /\ (\A j \in (i + 1)..Len(q) : q[j].c # c) => q[i].on = shown
  /\ (\A i \in 1..Len(q) : q[i].c # c) => is = shown

(* A new command asks for what the menu shows now. *)
LEMMA FollowsAsked ==
  ASSUME NEW q \in Seq(Cmds), NEW e \in Cmds, NEW is
  PROVE  Follows(Append(q, e), e.c, e.on, is)
<1>1. /\ Len(Append(q, e)) = Len(q) + 1 /\ Append(q, e)[Len(q) + 1] = e
      /\ Len(q) \in Nat /\ Len(q) + 1 \in 1..Len(Append(q, e))
  OBVIOUS
<1>2. ASSUME NEW i \in 1..Len(Append(q, e)),
             \A j \in (i + 1)..Len(Append(q, e)) : Append(q, e)[j].c # e.c
      PROVE  Append(q, e)[i].on = e.on
  <2>1. i = Len(q) + 1
    BY <1>1, <1>2
  <2> QED
    BY <1>1, <2>1
<1> QED
  BY <1>1, <1>2 DEF Follows

(* Other commands make no difference when they are given. *)
LEMMA FollowsOthers ==
  ASSUME NEW q \in Seq(Cmds), NEW e \in Cmds, NEW c, NEW shown, NEW is,
         Follows(q, c, shown, is), e.c # c
  PROVE  Follows(Append(q, e), c, shown, is)
<1>1. /\ Len(Append(q, e)) = Len(q) + 1 /\ Append(q, e)[Len(q) + 1] = e
      /\ Len(q) \in Nat
      /\ \A i \in 1..Len(q) : i \in 1..(Len(q) + 1) /\ Append(q, e)[i] = q[i]
  OBVIOUS
<1>2. ASSUME NEW i \in 1..Len(Append(q, e)), Append(q, e)[i].c = c,
             \A j \in (i + 1)..Len(Append(q, e)) : Append(q, e)[j].c # c
      PROVE  Append(q, e)[i].on = shown
  <2>1. i \in 1..Len(q)
    BY <1>1, <1>2
  <2>2. \A j \in (i + 1)..Len(q) : j \in 1..Len(q) /\ j \in (i + 1)..Len(Append(q, e))
    BY <1>1, <2>1
  <2>3. q[i].c = c /\ \A j \in (i + 1)..Len(q) : q[j].c # c
    BY <1>1, <1>2, <2>1, <2>2
  <2> QED
    BY <1>1, <2>1, <2>3 DEF Follows
<1>3. ASSUME \A i \in 1..Len(Append(q, e)) : Append(q, e)[i].c # c
      PROVE  is = shown
  BY <1>1, <1>3 DEF Follows
<1> QED
  BY <1>2, <1>3 DEF Follows

(* What the tail of a queue of commands is. *)
LEMMA TailCmds ==
  ASSUME NEW q \in Seq(Cmds), q # <<>>
  PROVE  /\ Tail(q) \in Seq(Cmds) /\ Len(q) \in Nat /\ 1 \in 1..Len(q)
         /\ Len(Tail(q)) = Len(q) - 1 /\ Head(q) = q[1]
         /\ \A i \in 1..Len(Tail(q)) : i + 1 \in 1..Len(q) /\ Tail(q)[i] = q[i + 1]
         /\ \A i \in 1..Len(q) : i # 1 => i - 1 \in 1..Len(Tail(q)) /\ Tail(q)[i - 1] = q[i]
OBVIOUS

(* A command that was not the last one is overruled by a later one. *)
LEMMA FollowsTail ==
  ASSUME NEW q \in Seq(Cmds), q # <<>>, NEW c, NEW shown, NEW is,
         Follows(q, c, shown, is)
  PROVE  Follows(Tail(q), c, shown, IF Head(q).c = c THEN Head(q).on ELSE is)
<1> DEFINE t == Tail(q)
<1>1. /\ Len(q) \in Nat /\ 1 \in 1..Len(q)
      /\ Len(t) = Len(q) - 1 /\ Head(q) = q[1]
      /\ \A i \in 1..Len(t) : i + 1 \in 1..Len(q) /\ t[i] = q[i + 1]
      /\ \A i \in 1..Len(q) : i # 1 => i - 1 \in 1..Len(t) /\ t[i - 1] = q[i]
  BY TailCmds
<1> HIDE DEF t
<1>2. ASSUME NEW i \in 1..Len(t), t[i].c = c, \A j \in (i + 1)..Len(t) : t[j].c # c
      PROVE  t[i].on = shown
  <2>1. i + 1 \in 1..Len(q) /\ q[i + 1] = t[i]
    BY <1>1
  <2>2. ASSUME NEW j \in (i + 1 + 1)..Len(q)
        PROVE  q[j].c # c
    <3>1. j \in 1..Len(q) /\ j # 1 /\ j - 1 \in (i + 1)..Len(t)
      BY <1>1
    <3> QED
      BY <1>1, <1>2, <3>1
  <2> QED
    BY <1>2, <2>1, <2>2 DEF Follows
<1>3. ASSUME \A i \in 1..Len(t) : t[i].c # c
      PROVE  (IF Head(q).c = c THEN Head(q).on ELSE is) = shown
  <2>1. \A j \in 1..Len(q) : j # 1 => q[j].c # c
    BY <1>1, <1>3
  <2>2. CASE Head(q).c = c
    <3>1. \A j \in (1 + 1)..Len(q) : q[j].c # c
      BY <1>1, <2>1
    <3> QED
      BY <1>1, <2>2, <3>1 DEF Follows
  <2>3. CASE Head(q).c # c
    BY <1>1, <2>1, <2>3 DEF Follows
  <2> QED
    BY <2>2, <2>3
<1>4. Follows(t, c, shown, IF Head(q).c = c THEN Head(q).on ELSE is)
  BY <1>2, <1>3 DEF Follows
<1> QED
  BY <1>4 DEF t

(* The menu against the pause flag and the Run value. *)
PauseFollows == Follows(cmds, "SetPaused", menu.paused, paused)
AutostartFollows == keyErr \/ Follows(cmds, "SetAutostart", menu.autostart, runKey)

CmdsInv == PauseFollows /\ AutostartFollows

(* Once no command is under way the menu agrees with what it switches. *)
LEMMA CmdsImplies == CmdsInv => MenuAgrees
BY DEF CmdsInv, PauseFollows, AutostartFollows, Follows, MenuAgrees

(* A click. *)
LEMMA ClickFollows ==
  ASSUME ShellTypeOK, CmdsInv, NEW item \in Items, Click(item)
  PROVE  CmdsInv'
<1>0. menu \in Menus /\ cmds \in Seq(Cmds) /\ menu.paused \in BOOLEAN /\ menu.autostart \in BOOLEAN
  BY ShellTyped DEF Menus
<1>1. UNCHANGED <<paused, runKey, keyErr>>
  BY DEF Click
<1> DEFINE follows(q, shownP, shownA) ==
      /\ Follows(q, "SetPaused", shownP, paused)
      /\ keyErr \/ Follows(q, "SetAutostart", shownA, runKey)
<1>2. SUFFICES follows(cmds', menu'.paused, menu'.autostart)
  BY <1>1 DEF CmdsInv, PauseFollows, AutostartFollows
<1>3. follows(cmds, menu.paused, menu.autostart)
  BY DEF CmdsInv, PauseFollows, AutostartFollows
<1>4. CASE menu' = [menu EXCEPT !.paused = ~@] /\ cmds' = Append(cmds, Cmd("SetPaused", ~menu.paused))
  <2> DEFINE e == Cmd("SetPaused", ~menu.paused)
  <2>1. e \in Cmds /\ e.c = "SetPaused" /\ e.on = ~menu.paused
    BY <1>0 DEF Cmd, Cmds
  <2>2. menu'.paused = ~menu.paused /\ menu'.autostart = menu.autostart
    BY <1>0, <1>4 DEF Menus
  <2>3. cmds' = Append(cmds, e)
    BY <1>4
  <2> HIDE DEF e
  <2>4. Follows(Append(cmds, e), e.c, e.on, paused)
    BY <1>0, <2>1, FollowsAsked
  <2>5. Follows(cmds, "SetAutostart", menu.autostart, runKey)
          => Follows(Append(cmds, e), "SetAutostart", menu.autostart, runKey)
    BY <1>0, <2>1, FollowsOthers
  <2> QED
    BY <1>3, <2>1, <2>2, <2>3, <2>4, <2>5
<1>5. CASE menu' = [menu EXCEPT !.autostart = ~@]
           /\ cmds' = Append(cmds, Cmd("SetAutostart", ~menu.autostart))
  <2> DEFINE e == Cmd("SetAutostart", ~menu.autostart)
  <2>1. e \in Cmds /\ e.c = "SetAutostart" /\ e.on = ~menu.autostart
    BY <1>0 DEF Cmd, Cmds
  <2>2. menu'.paused = menu.paused /\ menu'.autostart = ~menu.autostart
    BY <1>0, <1>5 DEF Menus
  <2>3. cmds' = Append(cmds, e)
    BY <1>5
  <2> HIDE DEF e
  <2>4. Follows(Append(cmds, e), e.c, e.on, runKey)
    BY <1>0, <2>1, FollowsAsked
  <2>5. Follows(Append(cmds, e), "SetPaused", menu.paused, paused)
    BY <1>0, <1>3, <2>1, FollowsOthers
  <2> QED
    BY <1>3, <2>1, <2>2, <2>3, <2>4, <2>5
<1>6. CASE menu' = menu /\ \E c \in {"OpenPairing", "Quit"} : cmds' = Append(cmds, Cmd(c, TRUE))
  <2>1. PICK c \in {"OpenPairing", "Quit"} : cmds' = Append(cmds, Cmd(c, TRUE))
    BY <1>6
  <2> DEFINE e == Cmd(c, TRUE)
  <2>2. e \in Cmds /\ e.c # "SetPaused" /\ e.c # "SetAutostart"
    BY DEF Cmd, Cmds
  <2>3. cmds' = Append(cmds, e)
    BY <2>1
  <2> HIDE DEF e
  <2>4. Follows(Append(cmds, e), "SetPaused", menu.paused, paused)
    BY <1>0, <1>3, <2>2, FollowsOthers
  <2>5. Follows(cmds, "SetAutostart", menu.autostart, runKey)
          => Follows(Append(cmds, e), "SetAutostart", menu.autostart, runKey)
    BY <1>0, <2>2, FollowsOthers
  <2> QED
    BY <1>3, <1>6, <2>3, <2>4, <2>5
<1> QED
  BY <1>4, <1>5, <1>6 DEF Click, ClassifyMenuEvent

(* The main thread. *)
LEMMA MainFollows ==
  ASSUME ShellTypeOK, CmdsInv, MainNext
  PROVE  CmdsInv'
<1>1. cmds \in Seq(Cmds) /\ cmds # <<>> /\ cmds' = Tail(cmds) /\ menu' = menu
  BY ShellTyped DEF MainNext, MainOpenPairing, MainSetPaused, MainSetAutostart, MainQuit, Obeys
<1> DEFINE c == Head(cmds).c
<1>2. Follows(cmds', "SetPaused", menu.paused, IF c = "SetPaused" THEN Head(cmds).on ELSE paused)
  BY <1>1, FollowsTail DEF CmdsInv, PauseFollows
<1>3. ~keyErr => Follows(cmds', "SetAutostart", menu.autostart,
                          IF c = "SetAutostart" THEN Head(cmds).on ELSE runKey)
  BY <1>1, FollowsTail DEF CmdsInv, AutostartFollows
<1>4. CASE MainOpenPairing \/ MainQuit
  <2>1. c # "SetPaused" /\ c # "SetAutostart" /\ UNCHANGED <<paused, runKey, keyErr>>
    BY <1>4 DEF MainOpenPairing, MainQuit, Obeys
  <2> QED
    BY <1>1, <1>2, <1>3, <2>1 DEF CmdsInv, PauseFollows, AutostartFollows
<1>5. CASE MainSetPaused
  <2>1. c = "SetPaused" /\ paused' = Head(cmds).on /\ UNCHANGED <<runKey, keyErr>>
    BY <1>5 DEF MainSetPaused, Obeys
  <2> QED
    BY <1>1, <1>2, <1>3, <2>1 DEF CmdsInv, PauseFollows, AutostartFollows
<1>6. CASE MainSetAutostart
  <2>1. c = "SetAutostart" /\ paused' = paused
    BY <1>6 DEF MainSetAutostart, Obeys
  <2>2. \/ runKey' = Head(cmds).on /\ keyErr' = keyErr
        \/ keyErr'
    BY <1>6 DEF MainSetAutostart
  <2> QED
    BY <1>1, <1>2, <1>3, <2>1, <2>2 DEF CmdsInv, PauseFollows, AutostartFollows
<1> QED
  BY <1>4, <1>5, <1>6 DEF MainNext

(* Every step of the user interface keeps the menu and the commands in     *)
(* line.                                                                   *)
LEMMA CmdsStep ==
  ASSUME ShellTypeOK, CmdsInv, ShellStep \/ UNCHANGED shellVars
  PROVE  CmdsInv'
<1>1. CASE \E item \in Items : Click(item)
  BY <1>1, ClickFollows
<1>2. CASE MainNext
  BY <1>2, MainFollows
<1>3. CASE \/ TrayWakes \/ WindowCloses
           \/ \E s \in Statuses : StatusStep(s)
           \/ ViewStep \/ UNCHANGED shellVars
  <2>1. UNCHANGED <<menu, cmds, paused, runKey, keyErr>>
    BY <1>3 DEF TrayWakes, WindowCloses, StatusStep, ViewStep, shellVars
  <2> QED
    BY <2>1 DEF CmdsInv, PauseFollows, AutostartFollows
<1> QED
  BY <1>1, <1>2, <1>3 DEF ShellStep

-----------------------------------------------------------------------------
(* The agent's types. *)

AgentTypes == AgentTypeOK /\ NoneEmpty

(* An event is added to the pump's queue. *)
LEMMA EmitTypes ==
  ASSUME AgentTypeOK, NEW x \in Texts,
         NEW ev \in PairingEvents \cup {"PeerConnected", "PeerDisconnected", "ClipArrived"},
         Emit(ev, x)
  PROVE  evq' \in Seq(AgentEvents)
<1>1. evq \in Seq(AgentEvents) /\ Ev(ev, x) \in AgentEvents
  BY DEF AgentTypeOK, Ev, AgentEvents
<1> QED
  BY <1>1 DEF Emit

(* The variables of the pump and of the server. *)
QueueTypeOK ==
  /\ evq \in Seq(AgentEvents)
  /\ live \in 0..MaxLive /\ silent \in BOOLEAN
  /\ peers \in Nat /\ texts \in Nat /\ used \in 0..MaxEvents

PumpTypeOK ==
  /\ pump \in {"ready", "clip"} \cup Statuses
  /\ (pump = "clip") = (writer.st # "idle")

(* The agent's types part by part. *)
LEMMA AgentTyped ==
  AgentTypeOK <=> TypeOK /\ ClipTypeOK /\ ShellTypeOK /\ QueueTypeOK /\ PumpTypeOK
BY DEF AgentTypeOK, QueueTypeOK, PumpTypeOK

(* The environment's events are counted up to their bound. *)
LEMMA UsesTypes ==
  ASSUME AgentTypeOK, Uses
  PROVE  used' \in 0..MaxEvents
<1>1. used \in 0..MaxEvents /\ used < MaxEvents /\ used' = used + 1
  BY DEF AgentTypeOK, Uses
<1> QED
  BY <1>1, AgentAssumption

(* The server's steps. *)
LEMMA ServerTypes ==
  ASSUME AgentTypeOK,
         \/ PeerConnects \/ PeerLeaves
         \/ \E len \in Lens : ClipArrives(len)
         \/ \E ev \in PairingEvents : PairingProceeds(ev)
  PROVE  QueueTypeOK' /\ pump' = pump /\ UNCHANGED clipVars
<1>0. QueueTypeOK /\ NoText \in Texts
  BY NoTextType, AgentTyped
<1>1. CASE PeerConnects
  <2>1. evq' \in Seq(AgentEvents) /\ used' \in 0..MaxEvents
    BY <1>0, <1>1, EmitTypes, UsesTypes DEF PeerConnects
  <2>2. live' \in 0..MaxLive
    BY <1>0, <1>1, AgentAssumption DEF PeerConnects, QueueTypeOK
  <2> QED
    BY <1>0, <1>1, <2>1, <2>2 DEF PeerConnects, QueueTypeOK
<1>2. CASE PeerLeaves
  <2>1. evq' \in Seq(AgentEvents) /\ silent' \in BOOLEAN
    BY <1>0, <1>2, EmitTypes DEF PeerLeaves, QueueTypeOK
  <2>2. live' \in 0..MaxLive
    BY <1>0, <1>2, AgentAssumption DEF PeerLeaves, QueueTypeOK
  <2> QED
    BY <1>0, <1>2, <2>1, <2>2 DEF PeerLeaves, QueueTypeOK
<1>3. ASSUME NEW len \in Lens, ClipArrives(len)
      PROVE  QueueTypeOK' /\ pump' = pump /\ UNCHANGED clipVars
  <2>0. texts + 1 \in Nat /\ texts' = texts + 1
    BY <1>0, <1>3 DEF QueueTypeOK, ClipArrives
  <2>1. Text(TRUE, texts + 1, len) \in Texts /\ texts' \in Nat
    BY <2>0, TextType
  <2>2. evq' \in Seq(AgentEvents) /\ used' \in 0..MaxEvents
    BY <1>3, <2>1, EmitTypes, UsesTypes DEF ClipArrives
  <2> QED
    BY <1>0, <1>3, <2>1, <2>2 DEF ClipArrives, QueueTypeOK
<1>4. ASSUME NEW ev \in PairingEvents, PairingProceeds(ev)
      PROVE  QueueTypeOK' /\ pump' = pump /\ UNCHANGED clipVars
  <2>1. evq' \in Seq(AgentEvents) /\ used' \in 0..MaxEvents
    BY <1>0, <1>4, EmitTypes, UsesTypes DEF PairingProceeds
  <2>2. peers' \in Nat
    BY <1>0, <1>4 DEF PairingProceeds, QueueTypeOK
  <2> QED
    BY <1>0, <1>4, <2>1, <2>2 DEF PairingProceeds, QueueTypeOK
<1> QED
  BY <1>1, <1>2, <1>3, <1>4

(* The pump, apart from set_text's steps. *)
LEMMA PumpTypes ==
  ASSUME AgentTypeOK, PumpNext
  PROVE  QueueTypeOK' /\ PumpTypeOK'
<1>1. QueueTypeOK /\ PumpTypeOK
  BY AgentTyped
<1>2. UNCHANGED pumpRest /\ evq' \in Seq(AgentEvents)
  BY <1>1, HeadEvent DEF PumpNext, PumpConnected, PumpDisconnected, PumpSendsStatus, PumpPairing,
         PumpClip, Receives, QueueTypeOK
<1>3. QueueTypeOK'
  BY <1>1, <1>2 DEF QueueTypeOK, pumpRest
<1>4. CASE PumpClip
  <2>1. pump' = "clip" /\ writer'.st = "opening"
    BY <1>4 DEF PumpClip, SetText
  <2> QED
    BY <1>3, <2>1 DEF PumpTypeOK
<1>5. CASE PumpConnected \/ PumpPairing
  BY <1>1, <1>3, <1>5 DEF PumpConnected, PumpPairing, clipVars, PumpTypeOK
<1>6. CASE PumpDisconnected
  <2>1. pump = "ready" /\ pump' \in {"Paused", "Idle"} /\ writer' = writer
    BY <1>6 DEF PumpDisconnected, Receives, clipVars
  <2> QED
    BY <1>1, <1>3, <2>1 DEF PumpTypeOK, Statuses
<1>7. CASE PumpSendsStatus
  <2>1. pump \in Statuses /\ pump' = "ready" /\ writer' = writer
    BY <1>7 DEF PumpSendsStatus, clipVars
  <2> QED
    BY <1>1, <1>3, <2>1 DEF PumpTypeOK, Statuses
<1> QED
  BY <1>4, <1>5, <1>6, <1>7 DEF PumpNext

(* The pump in set_text: it returns when the writer does. *)
LEMMA WritingTypes ==
  ASSUME AgentTypeOK, PumpWrites
  PROVE  QueueTypeOK' /\ PumpTypeOK' /\ pump = "clip"
<1>1. QueueTypeOK /\ PumpTypeOK
  BY AgentTyped
<1>2. QueueTypeOK'
  BY <1>1 DEF PumpWrites, pumpRest, QueueTypeOK
<1>3. writer.st # "idle"
  BY DEF PumpWrites, WriterNext, WriterFails, WriterOpen, WriterEmpty, WriterSet, WriterRecord
<1>4. pump = "clip"
  BY <1>1, <1>3 DEF PumpTypeOK
<1>5. pump' = IF writer'.st = "idle" THEN "ready" ELSE "clip"
  BY <1>4 DEF PumpWrites
<1> QED
  BY <1>2, <1>4, <1>5 DEF PumpTypeOK

(* The user, other applications and the other threads. *)
LEMMA OthersTypes ==
  ASSUME AgentTypeOK,
         \/ \E len \in Lens : CopyText(len)
         \/ CopyImage \/ ClipboardFaults
         \/ \E item \in Items : UserClicks(item)
         \/ ReaderSteps \/ StageSteps \/ OtherSteps \/ MainSteps \/ ScreenSteps
  PROVE  QueueTypeOK' /\ pump' = pump /\ writer' = writer
<1>1. QueueTypeOK
  BY AgentTyped
<1>2. ASSUME NEW len \in Lens, CopyText(len)
      PROVE  QueueTypeOK' /\ pump' = pump /\ writer' = writer
  BY <1>1, <1>2, UsesTypes DEF CopyText, Copy, QueueTypeOK
<1>3. CASE CopyImage
  BY <1>1, <1>3, UsesTypes DEF CopyImage, Copy, QueueTypeOK
<1>4. CASE ClipboardFaults
  <2>1. writer' = writer
    BY <1>4 DEF ClipboardFaults, OtherOpens, ReaderReadFails, readerRest
  <2> QED
    BY <1>1, <1>4, <2>1, UsesTypes DEF ClipboardFaults, QueueTypeOK
<1>5. ASSUME NEW item \in Items, UserClicks(item)
      PROVE  QueueTypeOK' /\ pump' = pump /\ writer' = writer
  BY <1>1, <1>5, UsesTypes DEF UserClicks, QueueTypeOK, clipVars
<1>6. CASE ReaderSteps
  <2>1. writer' = writer
    BY <1>6 DEF ReaderSteps, ReaderNext, ReaderTick, ReaderDrain, ReaderSeq, ReaderFormat,
                ReaderOpen, ReaderRead, readerRest
  <2> QED
    BY <1>1, <1>6, <2>1 DEF ReaderSteps, agentVars, QueueTypeOK
<1>7. CASE StageSteps \/ OtherSteps
  BY <1>1, <1>7 DEF StageSteps, OtherSteps, Stage, OtherCloses, agentVars, QueueTypeOK
<1>8. CASE MainSteps \/ ScreenSteps
  BY <1>1, <1>8 DEF MainSteps, ScreenSteps, agentVars, clipVars, QueueTypeOK
<1> QED
  BY <1>2, <1>3, <1>4, <1>5, <1>6, <1>7, <1>8

(* Every step of the agent keeps its types. *)
LEMMA AgentTypesStep ==
  ASSUME AgentTypes, [AgentNext]_allVars
  PROVE  AgentTypes'
<1>0. AgentTypeOK /\ ClipTypes /\ ShellTypeOK /\ QueueTypeOK /\ PumpTypeOK
  BY AgentTyped DEF AgentTypes, ClipTypes
<1>1. ClipStep \/ UNCHANGED clipVars
  BY <1>0, ClipMoves DEF allVars
<1>2. ShellStep \/ UNCHANGED shellVars
  BY <1>0, ShellMoves DEF allVars
<1>3. ClipTypes' /\ ShellTypeOK'
  BY <1>0, <1>1, <1>2, ClipTypesStep, ShellTypesStep
<1>4. QueueTypeOK' /\ PumpTypeOK'
  <2>1. CASE \/ PeerConnects \/ PeerLeaves
             \/ \E len \in Lens : ClipArrives(len)
             \/ \E ev \in PairingEvents : PairingProceeds(ev)
    BY <1>0, <2>1, ServerTypes DEF PumpTypeOK, clipVars
  <2>2. CASE PumpNext
    BY <1>0, <2>2, PumpTypes
  <2>3. CASE PumpWrites
    BY <1>0, <2>3, WritingTypes
  <2>4. CASE \/ \E len \in Lens : CopyText(len)
             \/ CopyImage \/ ClipboardFaults
             \/ \E item \in Items : UserClicks(item)
             \/ ReaderSteps \/ StageSteps \/ OtherSteps \/ MainSteps \/ ScreenSteps
    BY <1>0, <2>4, OthersTypes DEF PumpTypeOK
  <2>5. CASE UNCHANGED allVars
    BY <1>0, <2>5 DEF allVars, agentVars, clipVars, QueueTypeOK, PumpTypeOK
  <2> QED
    BY <2>1, <2>2, <2>3, <2>4, <2>5 DEF AgentNext, Items
<1>5. AgentTypeOK'
  BY <1>3, <1>4 DEF ClipTypes, AgentTypeOK, QueueTypeOK, PumpTypeOK
<1> QED
  BY <1>3, <1>5 DEF ClipTypes, AgentTypes

-----------------------------------------------------------------------------
(* The status the tray is told. *)

(* The last status sent. *)
LastStatus == IF tips = <<>> THEN tip ELSE tips[Len(tips)]

NoneLeft(q) == \A i \in 1..Len(q) : q[i].ev # "PeerDisconnected"

(* A connection no later event of the queue q takes back is still there,   *)
(* with n sessions alive.                                                  *)
Backed(q, n) ==
  \A i \in 1..Len(q) :
    /\ q[i].ev = "PeerConnected"
    /\ \A j \in (i + 1)..Len(q) : q[j].ev # "PeerDisconnected"
    => n > 0

(* Connected is the last status only if a session is alive or the news of  *)
(* its end is under way: in the pump's queue, or in the status the pump is *)
(* about to send.                                                          *)
TrayInv ==
  /\ idle # "Connected" /\ pump # "Connected"
  /\ ~silent =>
       /\ Backed(evq, live)
       /\ LastStatus = "Connected" /\ pump \notin Statuses /\ NoneLeft(evq) => live > 0

(* Nothing under way, the last status is the one shown. *)
LEMMA TrayImplies == TrayInv => ConnectedIsTrue
<1> SUFFICES ASSUME TrayInv, ShellSettled, tip = "Connected", ~silent
             PROVE  live > 0
  BY DEF ConnectedIsTrue
<1>1. LastStatus = "Connected" /\ pump \notin Statuses
  BY DEF ShellSettled, LastStatus, Statuses
<1>2. NoneLeft(evq)
  BY DEF ShellSettled, NoneLeft
<1> QED
  BY <1>1, <1>2 DEF TrayInv

(* An event that does not end a session is added to the queue. *)
LEMMA BackedAppend ==
  ASSUME NEW q \in Seq(AgentEvents), NEW e \in AgentEvents, NEW n
  PROVE  /\ NoneLeft(Append(q, e)) => NoneLeft(q)
         /\ e.ev # "PeerConnected" /\ Backed(q, n) => Backed(Append(q, e), n)
         /\ e.ev = "PeerDisconnected" => Backed(Append(q, e), n) /\ ~NoneLeft(Append(q, e))
<1> DEFINE a == Append(q, e)
<1>1. /\ Len(a) = Len(q) + 1 /\ a[Len(q) + 1] = e
      /\ Len(q) \in Nat /\ Len(q) + 1 \in 1..Len(a)
      /\ \A i \in 1..Len(q) : i \in 1..Len(a) /\ a[i] = q[i]
  OBVIOUS
<1> HIDE DEF a
<1>2. NoneLeft(a) => NoneLeft(q)
  BY <1>1 DEF NoneLeft
<1>3. ASSUME e.ev # "PeerConnected", Backed(q, n), NEW i \in 1..Len(a),
             a[i].ev = "PeerConnected", \A j \in (i + 1)..Len(a) : a[j].ev # "PeerDisconnected"
      PROVE  n > 0
  <2>1. i \in 1..Len(q)
    BY <1>1, <1>3
  <2>2. ASSUME NEW j \in (i + 1)..Len(q)
        PROVE  q[j].ev # "PeerDisconnected"
    <3>1. j \in 1..Len(q) /\ j \in (i + 1)..Len(a)
      BY <1>1, <2>1
    <3> QED
      BY <1>1, <1>3, <3>1
  <2> QED
    BY <1>1, <1>3, <2>1, <2>2 DEF Backed
<1>4. ASSUME e.ev = "PeerDisconnected"
      PROVE  Backed(a, n) /\ ~NoneLeft(a)
  <2>1. ~NoneLeft(a)
    BY <1>1, <1>4 DEF NoneLeft
  <2>2. ASSUME NEW i \in 1..Len(a), a[i].ev = "PeerConnected",
               \A j \in (i + 1)..Len(a) : a[j].ev # "PeerDisconnected"
        PROVE  FALSE
    <3>1. i # Len(q) + 1
      BY <1>1, <1>4, <2>2
    <3>2. Len(q) + 1 \in (i + 1)..Len(a)
      BY <1>1, <3>1
    <3> QED
      BY <1>1, <1>4, <2>2, <3>2
  <2> QED
    BY <2>1, <2>2 DEF Backed
<1>5. e.ev # "PeerConnected" /\ Backed(q, n) => Backed(a, n)
  BY <1>3 DEF Backed
<1> QED
  BY <1>2, <1>4, <1>5 DEF a

(* The pump takes an event from the queue. *)
LEMMA BackedTail ==
  ASSUME NEW q \in Seq(AgentEvents), q # <<>>, NEW n, Backed(q, n)
  PROVE  /\ Backed(Tail(q), n)
         /\ Head(q).ev = "PeerConnected" /\ NoneLeft(Tail(q)) => n > 0
         /\ Head(q).ev # "PeerDisconnected" /\ NoneLeft(Tail(q)) => NoneLeft(q)
<1> DEFINE t == Tail(q)
<1>1. /\ Len(q) \in Nat /\ 1 \in 1..Len(q)
      /\ Len(t) = Len(q) - 1 /\ Head(q) = q[1]
      /\ \A i \in 1..Len(t) : i + 1 \in 1..Len(q) /\ t[i] = q[i + 1]
      /\ \A i \in 1..Len(q) : i # 1 => i - 1 \in 1..Len(t) /\ t[i - 1] = q[i]
  OBVIOUS
<1> HIDE DEF t
<1>2. ASSUME NEW i \in 1..Len(t), t[i].ev = "PeerConnected",
             \A j \in (i + 1)..Len(t) : t[j].ev # "PeerDisconnected"
      PROVE  n > 0
  <2>1. i + 1 \in 1..Len(q) /\ q[i + 1] = t[i]
    BY <1>1
  <2>2. ASSUME NEW j \in (i + 1 + 1)..Len(q)
        PROVE  q[j].ev # "PeerDisconnected"
    <3>1. j \in 1..Len(q) /\ j # 1 /\ j - 1 \in (i + 1)..Len(t)
      BY <1>1
    <3> QED
      BY <1>1, <1>2, <3>1
  <2> QED
    BY <1>2, <2>1, <2>2 DEF Backed
<1>3. ASSUME NoneLeft(t)
      PROVE  \A j \in 1..Len(q) : j # 1 => q[j].ev # "PeerDisconnected"
  BY <1>1, <1>3 DEF NoneLeft
<1>4. ASSUME NoneLeft(t), Head(q).ev = "PeerConnected"
      PROVE  n > 0
  <2>1. \A j \in (1 + 1)..Len(q) : q[j].ev # "PeerDisconnected"
    BY <1>1, <1>3, <1>4
  <2> QED
    BY <1>1, <1>4, <2>1 DEF Backed
<1>5. ASSUME NoneLeft(t), Head(q).ev # "PeerDisconnected"
      PROVE  NoneLeft(q)
  BY <1>1, <1>3, <1>5 DEF NoneLeft
<1>6. Backed(t, n)
  BY <1>2 DEF Backed
<1> QED
  BY <1>4, <1>5, <1>6 DEF t

(* A status that is sent is then the last one. *)
LEMMA StatusSent ==
  ASSUME ShellTypeOK, NEW s \in Statuses, SetStatus(s)
  PROVE  LastStatus' = s
<1>1. tips \in Seq(Statuses)
  BY ShellTyped
<1> QED
  BY <1>1 DEF SetStatus, LastStatus

(* The tray and the main thread never send Connected themselves. *)
LEMMA OwnStatuses ==
  ASSUME ShellTypeOK, idle # "Connected",
         \/ \E item \in Items : Click(item)
         \/ TrayWakes \/ WindowCloses \/ MainNext \/ UNCHANGED shellVars
  PROVE  idle' = idle /\ (LastStatus' = "Connected" => LastStatus = "Connected")
<1>1. idle' = idle
  BY DEF Click, TrayWakes, WindowCloses, MainNext, MainOpenPairing, MainSetPaused,
         MainSetAutostart, MainQuit, shellVars
<1>2. DrainTips => LastStatus' = LastStatus
  BY DEF DrainTips, LastStatus
<1>3. UNCHANGED <<tips, tip>> => LastStatus' = LastStatus
  BY DEF LastStatus
<1>4. CASE (\E item \in Items : Click(item)) \/ TrayWakes
  BY <1>1, <1>2, <1>3, <1>4 DEF Click, TrayWakes
<1>5. CASE WindowCloses \/ MainOpenPairing \/ MainSetAutostart \/ MainQuit \/ UNCHANGED shellVars
  BY <1>1, <1>3, <1>5 DEF WindowCloses, MainOpenPairing, MainSetAutostart, MainQuit, shellVars
<1>6. CASE MainSetPaused
  <2>1. PICK s \in Statuses \ {"Connected"} : SetStatus(s)
    <3>1. (IF Head(cmds).on THEN "Paused" ELSE idle) \in Statuses \ {"Connected"}
      BY DEF ShellTypeOK, Statuses
    <3> QED
      BY <1>6, <3>1 DEF MainSetPaused
  <2>2. LastStatus' = s
    BY <2>1, StatusSent
  <2> QED
    BY <1>1, <2>1, <2>2
<1> QED
  BY <1>4, <1>5, <1>6 DEF MainNext

(* The server's steps. *)
LEMMA ServerTold ==
  ASSUME AgentTypeOK, TrayInv,
         \/ PeerConnects \/ PeerLeaves
         \/ \E len \in Lens : ClipArrives(len)
         \/ \E ev \in PairingEvents : PairingProceeds(ev)
  PROVE  TrayInv'
<1>0. evq \in Seq(AgentEvents) /\ live \in Nat /\ texts \in Nat /\ NoText \in Texts
  BY NoTextType, AgentAssumption DEF AgentTypeOK
<1>1. pump' = pump /\ idle' = idle /\ LastStatus' = LastStatus
  BY DEF PeerConnects, PeerLeaves, ClipArrives, PairingProceeds, shellVars, LastStatus
<1>2. CASE PeerConnects
  <2>1. live' > 0
    BY <1>0, <1>2 DEF PeerConnects
  <2> QED
    BY <1>1, <2>1 DEF TrayInv, Backed
<1>3. CASE PeerLeaves /\ silent'
  BY <1>1, <1>3 DEF TrayInv
<1>4. CASE PeerLeaves /\ ~silent'
  <2> DEFINE e == Ev("PeerDisconnected", NoText)
  <2>1. e \in AgentEvents /\ e.ev = "PeerDisconnected" /\ evq' = Append(evq, e)
    BY <1>0, <1>4 DEF PeerLeaves, Emit, Ev, AgentEvents
  <2> HIDE DEF e
  <2>2. Backed(Append(evq, e), live') /\ ~NoneLeft(Append(evq, e))
    BY <1>0, <2>1, BackedAppend
  <2> QED
    BY <1>1, <2>1, <2>2 DEF TrayInv
<1>5. ASSUME NEW e \in AgentEvents, e.ev # "PeerConnected", evq' = Append(evq, e),
             live' = live, silent' = silent
      PROVE  TrayInv'
  <2>1. NoneLeft(evq') => NoneLeft(evq)
    BY <1>0, <1>5, BackedAppend
  <2>2. Backed(evq, live) => Backed(evq', live)
    BY <1>0, <1>5, BackedAppend
  <2> QED
    BY <1>1, <1>5, <2>1, <2>2 DEF TrayInv
<1>6. ASSUME NEW len \in Lens, ClipArrives(len)
      PROVE  TrayInv'
  <2> DEFINE e == Ev("ClipArrived", Text(TRUE, texts + 1, len))
  <2>1. texts + 1 \in Nat
    BY <1>0
  <2>2. Text(TRUE, texts + 1, len) \in Texts
    BY <2>1, TextType
  <2>3. e \in AgentEvents /\ e.ev # "PeerConnected"
    BY <2>2 DEF Ev, AgentEvents
  <2>4. evq' = Append(evq, e) /\ live' = live /\ silent' = silent
    BY <1>6 DEF ClipArrives, Emit
  <2> HIDE DEF e
  <2> QED
    BY <1>5, <2>3, <2>4
<1>7. ASSUME NEW ev \in PairingEvents, PairingProceeds(ev)
      PROVE  TrayInv'
  <2> DEFINE e == Ev(ev, NoText)
  <2>1. e \in AgentEvents /\ e.ev # "PeerConnected"
    BY <1>0 DEF Ev, AgentEvents, PairingEvents
  <2>2. evq' = Append(evq, e) /\ live' = live /\ silent' = silent
    BY <1>7 DEF PairingProceeds, Emit
  <2> HIDE DEF e
  <2> QED
    BY <1>5, <2>1, <2>2
<1> QED
  BY <1>2, <1>3, <1>4, <1>6, <1>7

(* The pump. *)
LEMMA PumpTold ==
  ASSUME AgentTypeOK, TrayInv, PumpNext
  PROVE  TrayInv'
<1>0. evq \in Seq(AgentEvents) /\ ShellTypeOK
  BY DEF AgentTypeOK
<1>1. live' = live /\ silent' = silent /\ idle' = idle
  BY DEF PumpNext, PumpConnected, PumpDisconnected, PumpSendsStatus, PumpPairing, PumpClip,
         pumpRest, shellVars
<1>2. ASSUME pump = "ready", evq # <<>>, evq' = Tail(evq), ~silent
      PROVE  /\ Backed(evq', live)
             /\ Head(evq).ev = "PeerConnected" /\ NoneLeft(evq') => live > 0
             /\ Head(evq).ev # "PeerDisconnected" /\ NoneLeft(evq') => NoneLeft(evq)
  BY <1>0, <1>2, BackedTail DEF TrayInv
<1>3. CASE PumpConnected
  <2>1. /\ pump = "ready" /\ pump' = pump /\ evq # <<>> /\ evq' = Tail(evq)
        /\ Head(evq).ev = "PeerConnected"
    BY <1>3 DEF PumpConnected, Receives
  <2> QED
    BY <1>1, <1>2, <2>1 DEF TrayInv
<1>4. CASE PumpDisconnected
  <2>1. /\ pump = "ready" /\ pump' \in {"Paused", "Idle"} /\ evq # <<>> /\ evq' = Tail(evq)
    BY <1>4 DEF PumpDisconnected, Receives
  <2>2. pump' \in Statuses /\ pump' # "Connected"
    BY <2>1 DEF Statuses
  <2> QED
    BY <1>1, <1>2, <2>1, <2>2 DEF TrayInv
<1>5. CASE PumpSendsStatus
  <2>1. pump \in Statuses /\ SetStatus(pump) /\ evq' = evq /\ pump' = "ready"
    BY <1>5 DEF PumpSendsStatus
  <2>2. LastStatus' = pump
    BY <1>0, <2>1, StatusSent
  <2> QED
    BY <1>1, <2>1, <2>2 DEF TrayInv
<1>6. CASE PumpPairing \/ PumpClip
  <2>1. /\ pump = "ready" /\ evq # <<>> /\ evq' = Tail(evq)
        /\ Head(evq).ev # "PeerDisconnected"
    BY <1>6 DEF PumpPairing, PumpClip, Receives, PairingEvents
  <2>2. pump \notin Statuses /\ pump' # "Connected" /\ LastStatus' = LastStatus
    BY <1>6, <2>1 DEF PumpPairing, PumpClip, shellVars, LastStatus, Statuses
  <2> QED
    BY <1>1, <1>2, <2>1, <2>2 DEF TrayInv
<1> QED
  BY <1>3, <1>4, <1>5, <1>6 DEF PumpNext

(* set_text, the user, other applications and the other threads. *)
LEMMA OthersTold ==
  ASSUME AgentTypeOK, TrayInv,
         \/ \E len \in Lens : CopyText(len)
         \/ CopyImage \/ ClipboardFaults
         \/ \E item \in Items : UserClicks(item)
         \/ ReaderSteps \/ StageSteps \/ OtherSteps \/ MainSteps \/ ScreenSteps
         \/ PumpWrites \/ UNCHANGED allVars
  PROVE  TrayInv'
<1>0. ShellTypeOK
  BY DEF AgentTypeOK
<1>1. evq' = evq /\ live' = live /\ silent' = silent
  BY DEF CopyText, CopyImage, ClipboardFaults, UserClicks, ReaderSteps, StageSteps, OtherSteps,
         MainSteps, ScreenSteps, PumpWrites, allVars, agentVars, pumpRest
<1>2. pump' # "Connected" /\ (pump' \notin Statuses => pump \notin Statuses)
  <2>1. CASE PumpWrites
    BY <2>1, WritingTypes DEF PumpWrites, Statuses
  <2>2. CASE pump' = pump
    BY <2>2 DEF TrayInv
  <2> QED
    BY <2>1, <2>2 DEF CopyText, CopyImage, ClipboardFaults, UserClicks, ReaderSteps, StageSteps,
          OtherSteps, MainSteps, ScreenSteps, allVars, agentVars
<1>3. idle' = idle /\ (LastStatus' = "Connected" => LastStatus = "Connected")
  <2>1. \/ \E item \in Items : Click(item)
        \/ TrayWakes \/ WindowCloses \/ MainNext \/ UNCHANGED shellVars
    BY DEF CopyText, CopyImage, ClipboardFaults, UserClicks, ReaderSteps, StageSteps,
           OtherSteps, MainSteps, ScreenSteps, PumpWrites, allVars
  <2> QED
    BY <1>0, <2>1, OwnStatuses DEF TrayInv
<1> QED
  BY <1>1, <1>2, <1>3 DEF TrayInv

(* Every step of the agent. *)
LEMMA TrayStep ==
  ASSUME AgentTypeOK, TrayInv, [AgentNext]_allVars
  PROVE  TrayInv'
<1>1. CASE \/ PeerConnects \/ PeerLeaves
           \/ \E len \in Lens : ClipArrives(len)
           \/ \E ev \in PairingEvents : PairingProceeds(ev)
  BY <1>1, ServerTold
<1>2. CASE PumpNext
  BY <1>2, PumpTold
<1>3. CASE \/ \E len \in Lens : CopyText(len)
           \/ CopyImage \/ ClipboardFaults
           \/ \E item \in Items : UserClicks(item)
           \/ ReaderSteps \/ StageSteps \/ OtherSteps \/ MainSteps \/ ScreenSteps
           \/ PumpWrites \/ UNCHANGED allVars
  BY <1>3, OthersTold
<1> QED
  BY <1>1, <1>2, <1>3 DEF AgentNext, Items

-----------------------------------------------------------------------------
(* The inductive invariant. *)

AgentInv == AgentTypes /\ ReadInv /\ CmdsInv /\ TrayInv

(* The agent starts with a text on the clipboard and nothing staged. *)
LEMMA AgentStarts == AgentInit => AgentInv
<1> SUFFICES ASSUME AgentInit
             PROVE  AgentInv
  OBVIOUS
<1>1. Init /\ ClipInit /\ ShellInit(peers > 0)
  BY DEF AgentInit, ClipInit
<1>2. PICK len \in Lens : board = [text |-> Text(FALSE, 1, len), seq |-> 1]
  BY <1>1 DEF ClipInit
<1>3. TypeOK
  BY <1>1, StageAssumption DEF Init, TypeOK
<1>4. ClipTypeOK /\ NoneEmpty
  <2>1. board \in Boards
    BY <1>2, TextType DEF Boards
  <2>2. reader \in Readers
    BY <1>1, Attempts DEF ClipInit, Readers, ReaderStates
  <2>3. writer \in Writers
    BY <1>1, Attempts, NoTextType DEF ClipInit, Writers, WriterStates
  <2>4. guards \in Guards /\ holder \in {"none", "reader", "writer", "other"} /\ ticks \in Nat
    BY <1>1 DEF ClipInit, Guards
  <2>5. out \in Seq(Texts) /\ Len(out) = 0 /\ pushed \in Seq(Texts) /\ Len(pushed) = pushes
    BY <1>1 DEF ClipInit, Init
  <2>6. ClipTypeOK
    BY <2>1, <2>2, <2>3, <2>4, <2>5, ClipTyped
  <2> QED
    BY <2>5, <2>6 DEF NoneEmpty
<1>5. ShellTypeOK
  <2>1. menu \in Menus /\ runKey \in BOOLEAN
    BY <1>1, AutostartAssumption DEF ShellInit, Menus
  <2>2. idle \in Statuses /\ tip \in Statuses
    BY <1>1 DEF ShellInit, Statuses
  <2>3. tips \in Seq(Statuses) /\ cmds \in Seq(Cmds)
    BY <1>1, <2>2 DEF ShellInit
  <2> QED
    BY <1>1, <2>1, <2>2, <2>3 DEF ShellInit, ShellTypeOK, Menus, Views
<1>6. QueueTypeOK /\ PumpTypeOK
  <2>1. peers \in Nat
    BY DEF AgentInit
  <2>2. writer.st = "idle"
    BY <1>1 DEF ClipInit
  <2>3. /\ evq = <<>> /\ pump = "ready" /\ live = 0 /\ silent = FALSE
        /\ texts = 1 /\ used = 0
    BY DEF AgentInit
  <2>4. live \in 0..MaxLive /\ used \in 0..MaxEvents
    BY <2>3, AgentAssumption
  <2>5. QueueTypeOK
    <3>1. evq \in Seq(AgentEvents) /\ texts \in Nat
      BY <2>3
    <3>2. silent \in BOOLEAN
      BY <2>3
    <3> QED
      BY <2>1, <2>4, <3>1, <3>2, Zenon DEF QueueTypeOK
  <2>6. PumpTypeOK
    BY <2>2, <2>3 DEF PumpTypeOK
  <2> QED
    BY <2>5, <2>6
<1>7. ReadInv
  BY <1>1, <1>2 DEF ClipInit, ReadInv, HasRead
<1>8. CmdsInv
  <2>1. cmds = <<>> /\ paused = menu.paused /\ runKey = menu.autostart
    BY <1>1 DEF ShellInit
  <2>2. \A c, shown : Follows(<<>>, c, shown, shown)
    BY DEF Follows
  <2> QED
    BY <2>1, <2>2 DEF CmdsInv, PauseFollows, AutostartFollows
<1>9. TrayInv
  <2>1. idle # "Connected" /\ tips = <<idle>>
    BY <1>1 DEF ShellInit
  <2>2. LastStatus # "Connected"
    BY <2>1 DEF LastStatus
  <2> QED
    BY <2>1, <2>2 DEF AgentInit, TrayInv, Backed
<1> QED
  BY <1>3, <1>4, <1>5, <1>6, <1>7, <1>8, <1>9, AgentTyped DEF AgentInv, AgentTypes

(* Every step keeps it. *)
LEMMA AgentSteps == AgentInv /\ [AgentNext]_allVars => AgentInv'
<1> SUFFICES ASSUME AgentInv, [AgentNext]_allVars
             PROVE  AgentInv'
  OBVIOUS
<1>1. AgentTypes /\ AgentTypeOK /\ ClipTypes /\ ShellTypeOK
  BY AgentTyped DEF AgentInv, AgentTypes, ClipTypes
<1>2. ClipStep \/ UNCHANGED clipVars
  BY <1>1, ClipMoves DEF allVars
<1>3. ShellStep \/ UNCHANGED shellVars
  BY <1>1, ShellMoves DEF allVars
<1>4. AgentTypes'
  BY <1>1, AgentTypesStep
<1>5. ReadInv' /\ CmdsInv'
  BY <1>1, <1>2, <1>3, ReadStep, CmdsStep DEF AgentInv
<1>6. TrayInv'
  BY <1>1, TrayStep DEF AgentInv
<1> QED
  BY <1>4, <1>5, <1>6 DEF AgentInv

(* The invariant holds in every reachable state of the agent. *)
THEOREM AgentInvariant == AgentSpec => []AgentInv
BY AgentStarts, AgentSteps, PTL DEF AgentSpec

(* Every variable of the agent keeps its type, and the pump waits exactly  *)
(* while set_text is under way: it can never be left waiting for a write   *)
(* that has returned (handle_agent_event, clipboard.rs).                   *)
THEOREM AgentTypeCorrect == AgentSpec => []AgentTypeOK
<1>1. AgentInv => AgentTypeOK
  BY DEF AgentInv, AgentTypes
<1> QED
  BY <1>1, AgentInvariant, PTL

(* SPEC R5: once the watcher's reader thread has settled, what the user    *)
(* copied and the clipboard still holds is the newest clip of the ring,    *)
(* after any bursts of copies, writes of the phone's clips and contention  *)
(* for the clipboard.                                                      *)
THEOREM SettledStaged == AgentSpec => []SettledIsStaged
<1>1. AgentInv => SettledIsStaged
  BY DEF AgentInv, ReadInv, HasRead, SettledIsStaged, ReaderSettled
<1> QED
  BY <1>1, AgentInvariant, PTL

(* The check marks of the tray's menu, which classify_menu_event keeps for *)
(* itself, are true once the commands it sent are obeyed.                  *)
THEOREM MenuIsTrue == AgentSpec => []MenuAgrees
<1>1. AgentInv => MenuAgrees
  BY CmdsImplies DEF AgentInv
<1> QED
  BY <1>1, AgentInvariant, PTL

(* When every event is handled and every status shown, the tray says       *)
(* Connected only while a session is alive, if every end was announced.    *)
THEOREM ConnectedWhileLive == AgentSpec => []ConnectedIsTrue
<1>1. AgentInv => ConnectedIsTrue
  BY TrayImplies DEF AgentInv
<1> QED
  BY <1>1, AgentInvariant, PTL

(* The ring as the agent uses it is StageRing: whatever the threads do,    *)
(* every step is a call of push or leaves the ring alone (main.rs).        *)
THEOREM AgentRing == AgentSpec => Spec
<1>1. AgentInit => Init
  BY DEF AgentInit, ClipInit
<1>2. AgentInv /\ [AgentNext]_allVars => [Next]_vars
  <2> SUFFICES ASSUME AgentInv, [AgentNext]_allVars
               PROVE  [Next]_vars
    OBVIOUS
  <2>1. AgentTypeOK /\ ClipTypes
    BY AgentTyped DEF AgentInv, AgentTypes, ClipTypes
  <2>2. ClipStep \/ UNCHANGED clipVars
    BY <2>1, ClipMoves DEF allVars
  <2> QED
    BY <2>1, <2>2, ClipTypesStep
<1> QED
  BY <1>1, <1>2, AgentInvariant, PTL DEF AgentSpec, Spec

(* So the agent's ring holds the newest acceptable clips read from the     *)
(* clipboard (stage.rs).                                                   *)
THEOREM AgentKeepsNewest == AgentSpec => []KeepsNewest
BY AgentRing, NewestKept, PTL

=============================================================================
