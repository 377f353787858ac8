-------------------------------- MODULE Shell --------------------------------
(***************************************************************************)
(* The agent's user interface: the tray thread (spawn_tray and             *)
(* classify_menu_event of apps/windows/src/tray.rs), which turns clicks    *)
(* into commands and shows the status it is sent, and the main thread      *)
(* (run_shell of main.rs), which obeys the commands one at a time and is   *)
(* blocked while the pairing window is open.                               *)
(*                                                                         *)
(* The status is a Status here; its tooltip's wording is left out.  The    *)
(* pairing window draws whatever the shared view holds.                    *)
(***************************************************************************)
EXTENDS Integers, Sequences

CONSTANT Autostart   \* whether the Run value exists when the agent starts

ASSUME AutostartAssumption == Autostart \in BOOLEAN

VARIABLES
  menu,     \* the tray thread's paused and autostart_on
  cmds,     \* TrayCommands on their way to the main thread
  main,     \* the main thread: "loop", "window" (open) or "gone"
  paused,   \* AgentState::paused
  runKey,   \* whether the HKCU Run value exists
  keyErr,   \* history: the registry has refused a change
  idle,     \* idle_status
  tips,     \* statuses on their way to the tray thread
  tip,      \* the status shown
  view      \* the pairing window's view

shellVars == <<menu, cmds, main, paused, runKey, keyErr, idle, tips, tip, view>>

Statuses == {"Unpaired", "Idle", "Connected", "Paused"}
Views == {"ShowQr", "CompareSas", "Success", "Failed"}

Cmd(c, on) == [c |-> c, on |-> on]
Cmds == [c : {"OpenPairing", "SetPaused", "SetAutostart", "Quit"}, on : BOOLEAN]

ShellTypeOK ==
  /\ menu \in [paused : BOOLEAN, autostart : BOOLEAN]
  /\ cmds \in Seq(Cmds)
  /\ main \in {"loop", "window", "gone"}
  /\ paused \in BOOLEAN /\ runKey \in BOOLEAN /\ keyErr \in BOOLEAN
  /\ idle \in Statuses /\ tip \in Statuses /\ tips \in Seq(Statuses)
  /\ view \in Views

(* run_shell up to its loop; started with --pair the window is open. *)
ShellInit(pairedBefore) ==
  /\ runKey = Autostart /\ keyErr = FALSE
  /\ menu = [paused |-> FALSE, autostart |-> runKey]
  /\ cmds = <<>>
  /\ main \in {"loop", "window"}
  /\ paused = FALSE
  /\ idle = IF pairedBefore THEN "Idle" ELSE "Unpaired"
  /\ tips = <<idle>>
  /\ tip = "Unpaired"
  /\ view = "ShowQr"

-----------------------------------------------------------------------------
(* The tray thread.  It blocks until Windows has a message for it, which a *)
(* click brings but a status does not; then it sends the command and shows *)
(* the last status it was sent.  It ends with Quit.                        *)

Alive == main # "gone"
TrayAlive == Alive /\ \A i \in 1..Len(cmds) : cmds[i].c # "Quit"

DrainTips ==
  /\ tip' = IF tips = <<>> THEN tip ELSE tips[Len(tips)]
  /\ tips' = <<>>

ClassifyMenuEvent_SendsOld(item) ==  \* mutant: the command carries the state before the click
  \/ /\ item = "pause"
     /\ menu' = [menu EXCEPT !.paused = ~@]
     /\ cmds' = Append(cmds, Cmd("SetPaused", menu.paused))
  \/ /\ item = "autostart"
     /\ menu' = [menu EXCEPT !.autostart = ~@]
     /\ cmds' = Append(cmds, Cmd("SetAutostart", menu.autostart))
  \/ item = "pair" /\ cmds' = Append(cmds, Cmd("OpenPairing", TRUE)) /\ UNCHANGED menu
  \/ item = "quit" /\ cmds' = Append(cmds, Cmd("Quit", TRUE)) /\ UNCHANGED menu

ClassifyMenuEvent(item) ==
  \/ /\ item = "pause"
     /\ menu' = [menu EXCEPT !.paused = ~@]
     /\ cmds' = Append(cmds, Cmd("SetPaused", ~menu.paused))
  \/ /\ item = "autostart"
     /\ menu' = [menu EXCEPT !.autostart = ~@]
     /\ cmds' = Append(cmds, Cmd("SetAutostart", ~menu.autostart))
  \/ item = "pair" /\ cmds' = Append(cmds, Cmd("OpenPairing", TRUE)) /\ UNCHANGED menu
  \/ item = "quit" /\ cmds' = Append(cmds, Cmd("Quit", TRUE)) /\ UNCHANGED menu

Click(item) ==
  /\ TrayAlive
  /\ ClassifyMenuEvent(item)
  /\ IF item = "quit" THEN UNCHANGED <<tips, tip>> ELSE DrainTips
  /\ UNCHANGED <<main, paused, runKey, keyErr, idle, view>>

(* Any other message, such as the mouse over the icon. *)
TrayWakes ==
  /\ TrayAlive
  /\ tips # <<>>
  /\ DrainTips
  /\ UNCHANGED <<menu, cmds, main, paused, runKey, keyErr, idle, view>>

-----------------------------------------------------------------------------
(* The main thread. *)

SetStatus(s) == tips' = Append(tips, s)

Obeys(c) ==
  /\ main = "loop"
  /\ cmds # <<>> /\ Head(cmds).c = c
  /\ cmds' = Tail(cmds)

(* The view is reset to the new QR before the window opens; without a      *)
(* network interface there is no window.                                   *)
MainOpenPairing ==
  /\ Obeys("OpenPairing")
  /\ \/ main' = "window" /\ view' = "ShowQr"
     \/ UNCHANGED <<main, view>>
  /\ UNCHANGED <<menu, paused, runKey, keyErr, idle, tips, tip>>

WindowCloses ==
  /\ main = "window"
  /\ main' = "loop"
  /\ UNCHANGED <<menu, cmds, paused, runKey, keyErr, idle, tips, tip, view>>

MainSetPaused_OnlyIdle ==  \* mutant: the command waits for the phone to disconnect
  /\ tip # "Connected"
  /\ Obeys("SetPaused")
  /\ paused' = Head(cmds).on
  /\ SetStatus(IF Head(cmds).on THEN "Paused" ELSE idle)
  /\ UNCHANGED <<menu, main, runKey, keyErr, idle, tip, view>>

MainSetPaused ==
  /\ Obeys("SetPaused")
  /\ paused' = Head(cmds).on
  /\ SetStatus(IF Head(cmds).on THEN "Paused" ELSE idle)
  /\ UNCHANGED <<menu, main, runKey, keyErr, idle, tip, view>>

MainSetAutostart ==
  /\ Obeys("SetAutostart")
  /\ \/ runKey' = Head(cmds).on /\ UNCHANGED keyErr
     \/ keyErr' = TRUE /\ UNCHANGED runKey
  /\ UNCHANGED <<menu, main, paused, idle, tips, tip, view>>

(* The process ends, and with it every thread and task. *)
MainQuit ==
  /\ Obeys("Quit")
  /\ main' = "gone"
  /\ UNCHANGED <<menu, paused, runKey, keyErr, idle, tips, tip, view>>

MainNext == MainOpenPairing \/ MainSetPaused \/ MainSetAutostart \/ MainQuit

-----------------------------------------------------------------------------
(* Properties. *)

(* The menu's check marks are the tray thread's own; once no command is    *)
(* under way they are the truth about the pause flag and, unless the       *)
(* registry refused a change, about the Run value.                         *)
MenuAgrees ==
  /\ (\A i \in 1..Len(cmds) : cmds[i].c # "SetPaused") => paused = menu.paused
  /\ (\A i \in 1..Len(cmds) : cmds[i].c # "SetAutostart") /\ ~keyErr => runKey = menu.autostart

(* A click on Pause takes effect, unless the pairing window holds the main *)
(* thread or the user quits.                                               *)
PauseTakesEffect ==
  menu.paused # paused ~> menu.paused = paused \/ main \in {"window", "gone"}

=============================================================================
