------------------------------ MODULE Clipboard ------------------------------
(***************************************************************************)
(* The PC's clipboard as apps/windows/src/clipboard.rs uses it: the        *)
(* watcher, whose reader thread coalesces updates and reads the text; the  *)
(* thread of start_services (main.rs) that stages what was read; and       *)
(* set_text, by which the event pump writes clips from the phone.  Other   *)
(* applications copy, and may hold the clipboard open.                     *)
(*                                                                         *)
(* The operating system's clipboard is external: one text or none, a       *)
(* sequence number that every change advances, at most one opener, and an  *)
(* update message once the changer has closed it, which wnd_proc turns     *)
(* into a tick for the reader.                                             *)
(***************************************************************************)
EXTENDS StageRing

CONSTANT OpenRetries   \* OPEN_RETRIES

ASSUME RetriesAssumption == OpenRetries \in Nat \ {0}

VARIABLES
  board,    \* the clipboard: its text and sequence number
  holder,   \* who has it open
  ticks,    \* update messages the reader has not received
  reader,   \* the reader thread
  writer,   \* set_text, as called by the event pump
  guards,   \* the OwnWriteGuards: the watcher's and the writer's
  out,      \* ClipboardEvents on their way to the staging thread
  pushed    \* history: the texts given to StageRing::push

clipVars == <<board, holder, ticks, reader, writer, guards, out, items, staged, pushes, pushed>>

(* The n-th text: copied by the user, or beamed from the phone. *)
Text(phone, n, len) == [phone |-> phone, n |-> n, len |-> len]
NoText == Text(FALSE, 0, 0)
Texts == [phone : BOOLEAN, n : Nat, len : Lens \cup {0}]

ReaderStates == {"idle", "draining", "unowned", "opening", "open"}
WriterStates == {"idle", "opening", "open", "emptied", "written"}

ClipTypeOK ==
  /\ board \in [text : Texts, seq : Nat]
  /\ holder \in {"none", "reader", "writer", "other"}
  /\ ticks \in Nat
  /\ reader \in [st : ReaderStates, tries : 0..OpenRetries, failed : BOOLEAN]
  /\ writer \in [st : WriterStates, tries : 0..OpenRetries, text : Texts]
  /\ guards \in [watcher : Nat, writer : Nat]
  /\ out \in Seq(Texts)
  /\ pushed \in Seq(Texts) /\ Len(pushed) = pushes

(* The clipboard holds a text from before the agent started. *)
ClipInit ==
  /\ Init
  /\ \E len \in Lens : board = [text |-> Text(FALSE, 1, len), seq |-> 1]
  /\ holder = "none"
  /\ ticks = 0
  /\ reader = [st |-> "idle", tries |-> 0, failed |-> FALSE]
  /\ writer = [st |-> "idle", tries |-> 0, text |-> NoText]
  /\ guards = [watcher |-> 0, writer |-> 0]
  /\ out = <<>>
  /\ pushed = <<>>

ringVars == <<items, staged, pushes, pushed>>

-----------------------------------------------------------------------------
(* Other applications. *)

(* A copy, of a text or of something else. *)
Copy(x) ==
  /\ holder = "none"
  /\ board' = [text |-> x, seq |-> board.seq + 1]
  /\ ticks' = ticks + 1
  /\ UNCHANGED <<holder, reader, writer, guards, out>> /\ UNCHANGED ringVars

OtherOpens ==
  /\ holder = "none"
  /\ holder' = "other"
  /\ UNCHANGED <<board, ticks, reader, writer, guards, out>> /\ UNCHANGED ringVars

OtherCloses ==
  /\ holder = "other"
  /\ holder' = "none"
  /\ UNCHANGED <<board, ticks, reader, writer, guards, out>> /\ UNCHANGED ringVars

-----------------------------------------------------------------------------
(* The reader thread. *)

readerRest == <<board, writer, guards>>

ReaderIdle(failed) == [st |-> "idle", tries |-> 0, failed |-> failed]

ReaderTick ==
  /\ reader.st = "idle" /\ ticks > 0
  /\ ticks' = ticks - 1
  /\ reader' = [reader EXCEPT !.st = "draining"]
  /\ UNCHANGED <<holder, out>> /\ UNCHANGED readerRest /\ UNCHANGED ringVars

ReaderDrain ==
  /\ reader.st = "draining" /\ ticks > 0
  /\ ticks' = 0
  /\ UNCHANGED <<holder, reader, out>> /\ UNCHANGED readerRest /\ UNCHANGED ringVars

ReaderSeq_AtLeast ==  \* mutant: every number from our last write on counts as ours
  /\ reader.st = "draining" /\ ticks = 0
  /\ reader' = IF board.seq >= guards.watcher THEN ReaderIdle(FALSE)
               ELSE [reader EXCEPT !.st = "unowned"]
  /\ UNCHANGED <<holder, ticks, out>> /\ UNCHANGED readerRest /\ UNCHANGED ringVars

(* No update for 100 ms: compare the sequence number with our own write's. *)
ReaderSeq ==
  /\ reader.st = "draining" /\ ticks = 0
  /\ reader' = IF board.seq = guards.watcher THEN ReaderIdle(FALSE)
               ELSE [reader EXCEPT !.st = "unowned"]
  /\ UNCHANGED <<holder, ticks, out>> /\ UNCHANGED readerRest /\ UNCHANGED ringVars

(* get_text looks for a text before it opens the clipboard. *)
ReaderFormat ==
  /\ reader.st = "unowned"
  /\ reader' = IF board.text = NoText THEN ReaderIdle(FALSE)
               ELSE [reader EXCEPT !.st = "opening", !.tries = OpenRetries]
  /\ UNCHANGED <<holder, ticks, out>> /\ UNCHANGED readerRest /\ UNCHANGED ringVars

ReaderOpen_Forever ==  \* mutant: no attempt is the last
  /\ reader.st = "opening"
  /\ IF holder = "none"
     THEN holder' = "reader" /\ reader' = [reader EXCEPT !.st = "open", !.tries = 0]
     ELSE UNCHANGED <<holder, reader>>
  /\ UNCHANGED <<ticks, out>> /\ UNCHANGED readerRest /\ UNCHANGED ringVars

ReaderOpen ==
  /\ reader.st = "opening"
  /\ IF holder = "none"
     THEN holder' = "reader" /\ reader' = [reader EXCEPT !.st = "open", !.tries = 0]
     ELSE /\ reader' = IF reader.tries > 1 THEN [reader EXCEPT !.tries = @ - 1]
                       ELSE ReaderIdle(TRUE)
          /\ UNCHANGED holder
  /\ UNCHANGED <<ticks, out>> /\ UNCHANGED readerRest /\ UNCHANGED ringVars

ReaderRead_KeepsOpen ==  \* mutant: the error path does not close the clipboard
  /\ reader.st = "open"
  /\ holder' = IF board.text = NoText THEN holder ELSE "none"
  /\ reader' = ReaderIdle(board.text = NoText)
  /\ out' = IF board.text.len > 0 THEN Append(out, board.text) ELSE out
  /\ UNCHANGED ticks /\ UNCHANGED readerRest /\ UNCHANGED ringVars

(* The text may be gone since it was looked for, which is an error; an     *)
(* empty one is ignored.  Every return closes the clipboard.               *)
ReaderRead ==
  /\ reader.st = "open"
  /\ holder' = "none"
  /\ reader' = ReaderIdle(board.text = NoText)
  /\ out' = IF board.text.len > 0 THEN Append(out, board.text) ELSE out
  /\ UNCHANGED ticks /\ UNCHANGED readerRest /\ UNCHANGED ringVars

(* The data cannot be got or locked. *)
ReaderReadFails ==
  /\ reader.st = "open"
  /\ holder' = "none"
  /\ reader' = ReaderIdle(TRUE)
  /\ UNCHANGED <<ticks, out>> /\ UNCHANGED readerRest /\ UNCHANGED ringVars

(* The staging thread. *)
Stage ==
  /\ out # <<>>
  /\ Push(Head(out).len)
  /\ pushed' = Append(pushed, Head(out))
  /\ out' = Tail(out)
  /\ UNCHANGED <<board, holder, ticks, reader, writer, guards>>

-----------------------------------------------------------------------------
(* set_text. *)

writerRest == <<reader, out>>

WriterIdle == [st |-> "idle", tries |-> 0, text |-> NoText]
SetText(x) == writer' = [st |-> "opening", tries |-> OpenRetries, text |-> x]

WriterOpen ==
  /\ writer.st = "opening"
  /\ IF holder = "none"
     THEN holder' = "writer" /\ writer' = [writer EXCEPT !.st = "open", !.tries = 0]
     ELSE /\ writer' = IF writer.tries > 1 THEN [writer EXCEPT !.tries = @ - 1] ELSE WriterIdle
          /\ UNCHANGED holder
  /\ UNCHANGED <<board, ticks, guards>> /\ UNCHANGED writerRest /\ UNCHANGED ringVars

WriterEmpty ==
  /\ writer.st = "open"
  /\ board' = [text |-> NoText, seq |-> board.seq + 1]
  /\ writer' = [writer EXCEPT !.st = "emptied"]
  /\ UNCHANGED <<holder, ticks, guards>> /\ UNCHANGED writerRest /\ UNCHANGED ringVars

WriterSet ==
  /\ writer.st = "emptied"
  /\ board' = [text |-> writer.text, seq |-> board.seq + 1]
  /\ writer' = [writer EXCEPT !.st = "written"]
  /\ holder' = "none" /\ ticks' = ticks + 1
  /\ UNCHANGED guards /\ UNCHANGED writerRest /\ UNCHANGED ringVars

(* EmptyClipboard fails, or allocating, locking or setting does after it:  *)
(* the clipboard is closed, and in the second case left empty.             *)
WriterFails ==
  /\ writer.st \in {"open", "emptied"}
  /\ writer' = WriterIdle
  /\ holder' = "none"
  /\ ticks' = IF writer.st = "emptied" THEN ticks + 1 ELSE ticks
  /\ UNCHANGED <<board, guards>> /\ UNCHANGED writerRest /\ UNCHANGED ringVars

(* The clipboard closed, the sequence number is recorded in the guard the  *)
(* caller passed: one made for this call (handle_agent_event).             *)
WriterRecord ==
  /\ writer.st = "written"
  /\ guards' = [guards EXCEPT !.writer = board.seq]
  /\ writer' = WriterIdle
  /\ UNCHANGED <<board, holder, ticks>> /\ UNCHANGED writerRest /\ UNCHANGED ringVars

ReaderNext ==
  ReaderTick \/ ReaderDrain \/ ReaderSeq \/ ReaderFormat \/ ReaderOpen \/ ReaderRead

WriterNext == WriterOpen \/ WriterEmpty \/ WriterSet \/ WriterRecord

-----------------------------------------------------------------------------
(* Properties. *)

Acceptable(x) == x.len \in 1..MaxLen

(* Nothing left to read or to stage, and the last read did not fail. *)
ReaderSettled == reader.st = "idle" /\ ~reader.failed /\ ticks = 0 /\ out = <<>>

NewestStaged ==
  IF items = <<>> THEN NoText ELSE pushed[items[Len(items)].id + 1]

(* SPEC R5: once the reader has settled, what the user copied and the      *)
(* clipboard still holds is the newest staged clip, whatever bursts,       *)
(* writes of clips from the phone and contention came before; unless it is *)
(* not acceptable or was there before the agent.                           *)
SettledIsStaged ==
  ReaderSettled /\ Acceptable(board.text) /\ ~board.text.phone /\ board.seq > 1
    => NewestStaged = board.text

(* clipboard.rs: "the update it provokes is ignored.  Without this, a clip *)
(* from the phone is immediately re-staged and offered straight back".     *)
(* set_text has returned when the reader, 100 ms after the last update,    *)
(* decides whether to go on to read the clip.                              *)
OwnWritesNotStaged ==
  [][reader.st = "draining" /\ reader'.st = "unowned" /\ writer.st = "idle"
       => ~(board.text.phone /\ Acceptable(board.text))]_clipVars

=============================================================================
