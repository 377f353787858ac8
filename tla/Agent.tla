-------------------------------- MODULE Agent --------------------------------
(***************************************************************************)
(* The Windows agent around its server: Clipboard and Shell composed by    *)
(* the event pump of start_services and handle_agent_event (main.rs).  The *)
(* server's sessions and pairings are its environment: they emit the       *)
(* AgentEvents the pump handles one after another, blocking while it       *)
(* writes to the clipboard.                                                *)
(***************************************************************************)
EXTENDS Clipboard, Shell

CONSTANTS
  MaxLive,    \* bound: sessions alive at once
  MaxEvents   \* bound: copies, clicks, faults and server events together

ASSUME AgentAssumption == MaxLive \in Nat /\ MaxEvents \in Nat

VARIABLES
  evq,      \* AgentEvents the pump has not received
  pump,     \* "ready", "clip", or the status it is about to send
  live,     \* sessions established
  silent,   \* history: a session has ended without being announced
  peers,    \* number of phones paired
  texts,    \* texts copied or beamed so far
  used      \* events of the environment so far

agentVars == <<evq, pump, live, silent, peers, texts, used>>
allVars == <<clipVars, shellVars, agentVars>>

Ev(ev, x) == [ev |-> ev, text |-> x]
PairingEvents == {"PairingSas", "Paired", "PairingFailed"}
AgentEvents == [ev : PairingEvents \cup {"PeerConnected", "PeerDisconnected", "ClipArrived"},
                text : Texts]

(* Types; and the pump waits for set_text exactly while it is under way.   *)
AgentTypeOK ==
  /\ TypeOK /\ ClipTypeOK /\ ShellTypeOK
  /\ evq \in Seq(AgentEvents)
  /\ pump \in {"ready", "clip"} \cup Statuses
  /\ (pump = "clip") = (writer.st # "idle")
  /\ live \in 0..MaxLive /\ silent \in BOOLEAN
  /\ peers \in Nat /\ texts \in Nat /\ used \in 0..MaxEvents

AgentInit ==
  /\ ClipInit
  /\ peers \in {0, 1}
  /\ ShellInit(peers > 0)
  /\ evq = <<>> /\ pump = "ready"
  /\ live = 0 /\ silent = FALSE
  /\ texts = 1 /\ used = 0

Uses == Alive /\ used < MaxEvents /\ used' = used + 1

-----------------------------------------------------------------------------
(* The server. *)

Emit(ev, x) == evq' = Append(evq, Ev(ev, x))

PeerConnects ==
  /\ Uses
  /\ peers > 0 /\ live < MaxLive
  /\ live' = live + 1
  /\ Emit("PeerConnected", NoText)
  /\ UNCHANGED <<pump, silent, peers, texts>> /\ UNCHANGED clipVars /\ UNCHANGED shellVars

PeerLeaves ==
  /\ Alive /\ live > 0
  /\ live' = live - 1
  /\ \/ Emit("PeerDisconnected", NoText) /\ UNCHANGED silent
     \/ silent' = TRUE /\ UNCHANGED evq
  /\ UNCHANGED <<pump, peers, texts, used>> /\ UNCHANGED clipVars /\ UNCHANGED shellVars

(* A session goes by its own copy of the pause flag (see Session), which   *)
(* may be older than the user's last click.                                *)
ClipArrives(len) ==
  /\ Uses
  /\ live > 0
  /\ texts' = texts + 1
  /\ Emit("ClipArrived", Text(TRUE, texts + 1, len))
  /\ UNCHANGED <<pump, live, silent, peers>> /\ UNCHANGED clipVars /\ UNCHANGED shellVars

PairingProceeds(ev) ==
  /\ Uses
  /\ peers' = IF ev = "Paired" THEN peers + 1 ELSE peers
  /\ Emit(ev, NoText)
  /\ UNCHANGED <<pump, live, silent, texts>> /\ UNCHANGED clipVars /\ UNCHANGED shellVars

-----------------------------------------------------------------------------
(* The event pump. *)

Receives(evs) ==
  /\ Alive /\ pump = "ready"
  /\ evq # <<>> /\ Head(evq).ev \in evs
  /\ evq' = Tail(evq)

pumpRest == <<live, silent, peers, texts, used>>

PumpConnected ==
  /\ Receives({"PeerConnected"})
  /\ SetStatus("Connected")
  /\ UNCHANGED pump /\ UNCHANGED pumpRest /\ UNCHANGED clipVars
  /\ UNCHANGED <<menu, cmds, main, paused, runKey, keyErr, idle, tip, view>>

PumpDisconnected_OnlyPaused ==  \* mutant: only a paused agent's status is renewed
  /\ Receives({"PeerDisconnected"})
  /\ pump' = IF paused THEN "Paused" ELSE "ready"
  /\ UNCHANGED pumpRest /\ UNCHANGED clipVars /\ UNCHANGED shellVars

(* The pause flag is read first and the status sent after. *)
PumpDisconnected ==
  /\ Receives({"PeerDisconnected"})
  /\ pump' = IF paused THEN "Paused" ELSE "Idle"
  /\ UNCHANGED pumpRest /\ UNCHANGED clipVars /\ UNCHANGED shellVars

PumpSendsStatus ==
  /\ Alive /\ pump \in Statuses
  /\ SetStatus(pump)
  /\ pump' = "ready"
  /\ UNCHANGED evq /\ UNCHANGED pumpRest /\ UNCHANGED clipVars
  /\ UNCHANGED <<menu, cmds, main, paused, runKey, keyErr, idle, tip, view>>

(* Pairing events reach the window's view only, not the tray. *)
ViewAfter == [PairingSas |-> "CompareSas", Paired |-> "Success", PairingFailed |-> "Failed"]

PumpPairing ==
  /\ Receives(PairingEvents)
  /\ view' = ViewAfter[Head(evq).ev]
  /\ UNCHANGED pump /\ UNCHANGED pumpRest /\ UNCHANGED clipVars
  /\ UNCHANGED <<menu, cmds, main, paused, runKey, keyErr, idle, tips, tip>>

PumpClip ==
  /\ Receives({"ClipArrived"})
  /\ pump' = "clip"
  /\ SetText(Head(evq).text)
  /\ UNCHANGED <<board, holder, ticks, reader, guards, out>> /\ UNCHANGED ringVars
  /\ UNCHANGED pumpRest /\ UNCHANGED shellVars

PumpWrites_EarlyReturn ==  \* mutant: the pump goes on once the clipboard is closed
  /\ Alive
  /\ WriterNext \/ WriterFails
  /\ pump' = IF writer'.st \in {"idle", "written"} THEN "ready" ELSE pump
  /\ UNCHANGED evq /\ UNCHANGED pumpRest /\ UNCHANGED shellVars

(* set_text's steps, and the pump's return from it; whether it succeeded   *)
(* makes no difference to what follows.                                    *)
PumpWrites ==
  /\ Alive
  /\ WriterNext \/ WriterFails
  /\ pump' = IF writer'.st = "idle" THEN "ready" ELSE pump
  /\ UNCHANGED evq /\ UNCHANGED pumpRest /\ UNCHANGED shellVars

PumpNext == PumpConnected \/ PumpDisconnected \/ PumpSendsStatus \/ PumpPairing \/ PumpClip

-----------------------------------------------------------------------------
CopyText(len) ==
  /\ Uses
  /\ texts' = texts + 1
  /\ Copy(Text(FALSE, texts + 1, len))
  /\ UNCHANGED <<evq, pump, live, silent, peers>> /\ UNCHANGED shellVars

CopyImage ==
  /\ Uses
  /\ Copy(NoText)
  /\ UNCHANGED <<evq, pump, live, silent, peers, texts>> /\ UNCHANGED shellVars

(* Another application opens the clipboard, or Windows fails a read. *)
ClipboardFaults ==
  /\ Uses
  /\ OtherOpens \/ ReaderReadFails
  /\ UNCHANGED <<evq, pump, live, silent, peers, texts>> /\ UNCHANGED shellVars

UserClicks(item) ==
  /\ Uses
  /\ Click(item)
  /\ UNCHANGED <<evq, pump, live, silent, peers, texts>> /\ UNCHANGED clipVars

ReaderSteps == Alive /\ ReaderNext /\ UNCHANGED agentVars /\ UNCHANGED shellVars
StageSteps == Alive /\ Stage /\ UNCHANGED agentVars /\ UNCHANGED shellVars
OtherSteps == Alive /\ OtherCloses /\ UNCHANGED agentVars /\ UNCHANGED shellVars
MainSteps == MainNext /\ UNCHANGED agentVars /\ UNCHANGED clipVars
ScreenSteps == (TrayWakes \/ WindowCloses) /\ UNCHANGED agentVars /\ UNCHANGED clipVars

AgentNext ==
  \/ PeerConnects \/ PeerLeaves
  \/ \E len \in Lens : ClipArrives(len) \/ CopyText(len)
  \/ \E ev \in PairingEvents : PairingProceeds(ev)
  \/ CopyImage \/ ClipboardFaults
  \/ \E item \in {"pair", "pause", "autostart", "quit"} : UserClicks(item)
  \/ ReaderSteps \/ StageSteps \/ OtherSteps \/ MainSteps \/ ScreenSteps
  \/ PumpNext \/ PumpWrites

AgentSpec == AgentInit /\ [][AgentNext]_allVars

(* Fairness.  The threads of the agent run while the process does; the     *)
(* runtime polls the pump; a thread whose channel is quiet for its timeout *)
(* goes on.  Nothing is assumed of the user, the phones or other           *)
(* applications, nor that the tray thread is ever woken.                   *)
FairAgent ==
  /\ AgentSpec
  /\ WF_allVars(ReaderSteps)
  /\ WF_allVars(StageSteps)
  /\ WF_allVars(MainSteps)
  /\ WF_allVars(PumpNext \/ PumpWrites)

-----------------------------------------------------------------------------
(* Properties. *)

(* SPEC R5: an acceptable text the user copies that stays on the clipboard *)
(* is staged in the end, unless reading it fails or the user quits,        *)
(* whatever the phone beams and the pump writes before and after.          *)
CopyGetsStaged ==
  \A n \in 2..(MaxEvents + 1) :
    board.text.n = n /\ ~board.text.phone /\ Acceptable(board.text)
      ~> NewestStaged.n = n \/ board.text.n # n \/ reader.failed \/ main = "gone"

(* clipboard.rs, of the lock: "every early return must close it, or the    *)
(* whole desktop blocks waiting for the clipboard".                        *)
LockReleased ==
  holder \in {"reader", "writer"} ~> holder \notin {"reader", "writer"} \/ main = "gone"

(* Every command obeyed, every event handled and every status shown. *)
ShellSettled == cmds = <<>> /\ evq = <<>> /\ pump = "ready" /\ tips = <<>>

(* tray.rs says of Connected: "A phone is connected right now".  So it is  *)
(* as long as every session's end is announced.                            *)
ConnectedIsTrue ==
  ShellSettled /\ tip = "Connected" /\ ~silent => live > 0

(* tray.rs says of its statuses: "No pairing exists yet", "Paired but no   *)
(* phone currently connected", "A phone is connected right now", "Beaming  *)
(* paused by the user".                                                    *)
StatusIsTrue ==
  ShellSettled =>
    /\ tip = "Unpaired" => peers = 0
    /\ tip = "Idle" => peers > 0 /\ live = 0
    /\ tip = "Connected" => live > 0
    /\ tip = "Paused" => paused

(* PROTOCOL.md 8.2, of the ring: "cleared on Pause/Quit"; stage.rs:        *)
(* "`clear()` runs on Pause/Quit".                                         *)
PauseClears == [][paused' /\ ~paused => items' = <<>>]_allVars

=============================================================================
