------------------------------ MODULE SaveCtl ------------------------------
(***************************************************************************)
(* The save of the EEPROM: the dirty toggle of rtl/at28c16.sv, the save     *)
(* controller of target/pocket/core_top.sv (lines 250-280), the command     *)
(* executer of platform/pocket/peripherals/core_bridge_cmd.sv behind it     *)
(* and the Pocket's firmware, which reads the EEPROM over the bridge into   *)
(* the save file, cell by cell, while the game goes on writing.             *)
(*                                                                         *)
(* One step is one clock of clk_74a; in it the machine, which has its own   *)
(* clock, makes at most one write (a 68000 cycle is longer than that).      *)
(* The other commands of the executer are not used by this core: their      *)
(* strobes are tied low.                                                    *)
(***************************************************************************)
EXTENDS Naturals

CONSTANTS
  Cells,         (* the bytes of the EEPROM                                *)
  Values,        (* what one holds                                         *)
  Settle,        (* NV_SETTLE, 2 s of clk_74a                              *)
  Boot,          (* NV_BOOT, 5 s                                           *)
  CutShort       (* whether a reset may come between a write and the next  *)
                 (* edge of clk_74a                                        *)

ASSUME TimersAssumption == Settle \in Nat /\ Boot \in Nat \ {0}
ASSUME CutShortAssumption == CutShort \in BOOLEAN

VARIABLES
  reset, mem, dirty,                                    \* the machine: core_reset, the EEPROM
  s1, s2, nv_dirty_s, nv_dirty_d, inmenu_s, inmenu_d,   \* synchronisers and edge detectors
  nv_pending, nv_loaded, nv_timer, boot_timer, nv_state, target_dataslot_write,
  write_1, write_queue, tstate, ack, done,              \* the executer
  status, toread, file                                  \* target_0, the firmware, the save file

machine  == <<reset, mem, dirty>>
sync     == <<s1, s2, nv_dirty_s, nv_dirty_d>>
menu     == <<inmenu_s, inmenu_d>>
control  == <<nv_pending, nv_timer, boot_timer, nv_state, target_dataslot_write>>
executer == <<write_1, write_queue, tstate, ack, done>>
host     == <<toread, file>>
vars == <<machine, sync, menu, control, nv_loaded, executer, status, host>>

TypeOK ==
  /\ reset \in BOOLEAN /\ mem \in [Cells -> Values] /\ dirty \in BOOLEAN
  /\ s1 \in BOOLEAN /\ s2 \in BOOLEAN /\ nv_dirty_s \in BOOLEAN /\ nv_dirty_d \in BOOLEAN
  /\ inmenu_s \in BOOLEAN /\ inmenu_d \in BOOLEAN
  /\ nv_pending \in BOOLEAN /\ nv_loaded \in BOOLEAN
  /\ nv_timer \in 0 .. Settle /\ boot_timer \in 0 .. Boot
  /\ nv_state \in {0, 1, 2} /\ target_dataslot_write \in BOOLEAN
  /\ write_1 \in BOOLEAN /\ write_queue \in BOOLEAN
  /\ tstate \in {"IDLE", "DATASLOTOP", "WAITRESULT"} /\ ack \in BOOLEAN /\ done \in BOOLEAN
  /\ status \in {"none", "command", "busy", "ok"}
  /\ toread \subseteq Cells /\ file \in [Cells -> Values]

(* Configured, the save slot about to be loaded; `file' may be missing, and *)
(* the EEPROM then holds its erased image.                                 *)
Init ==
  /\ reset = TRUE /\ mem \in [Cells -> Values] /\ dirty = FALSE
  /\ s1 = FALSE /\ s2 = FALSE /\ nv_dirty_s = FALSE /\ nv_dirty_d = FALSE
  /\ inmenu_s = FALSE /\ inmenu_d = FALSE
  /\ nv_pending = FALSE /\ nv_loaded = FALSE /\ nv_timer = 0 /\ boot_timer = 0
  /\ nv_state = 0 /\ target_dataslot_write = FALSE
  /\ write_1 = FALSE /\ write_queue = FALSE /\ tstate = "IDLE" /\ ack = FALSE /\ done = FALSE
  /\ status = "none" /\ toread = {} /\ file \in [Cells -> Values]

-----------------------------------------------------------------------------
(* The machine.  It runs only once the save slot is loaded (core_top.sv    *)
(* 436), and a reset clears the toggle.                                    *)
Rest       == UNCHANGED machine
Written    == /\ ~reset /\ nv_loaded
              /\ \E c \in Cells, v \in Values : mem' = [mem EXCEPT ![c] = v]
Write      == Written /\ dirty' = ~dirty /\ UNCHANGED reset
WriteReset == CutShort /\ Written /\ dirty' = FALSE /\ reset' = TRUE
EnterReset == ~reset /\ reset' = TRUE /\ dirty' = FALSE /\ UNCHANGED mem
LeaveReset == reset /\ nv_loaded /\ reset' = FALSE /\ UNCHANGED <<mem, dirty>>
Machine == Rest \/ Write \/ WriteReset \/ EnterReset \/ LeaveReset

(* synch_3, and the edge detectors' copies.                                *)
Synchronise ==
  /\ s1' = dirty /\ s2' = s1 /\ nv_dirty_s' = s2 /\ nv_dirty_d' = nv_dirty_s
  /\ inmenu_s' \in BOOLEAN /\ inmenu_d' = inmenu_s

(* The controller.                                                         *)
Dirtied   == nv_dirty_s # nv_dirty_d
Opened    == inmenu_s /\ ~inmenu_d
BootSave  == boot_timer = Boot - 1
OnlyMenu  == Opened                      \* fault variant: a quiet EEPROM is not saved
Calm      == nv_timer = Settle \/ Opened
Fire      == nv_state = 0 /\ ((nv_pending /\ nv_loaded /\ Calm) \/ BootSave)
ClearLate == nv_state = 2 /\ done        \* fault variant: the mark is cleared when the save is done
Cleared   == Fire
TimerNext == IF nv_timer = Settle THEN nv_timer ELSE nv_timer + 1

Timers ==
  /\ nv_timer' = IF Dirtied THEN 0 ELSE TimerNext
  /\ boot_timer' = IF nv_loaded /\ boot_timer # Boot THEN boot_timer + 1 ELSE boot_timer
Controller ==
  /\ Timers
  /\ nv_pending' = (~Cleared /\ (nv_pending \/ Dirtied))
  /\ \/ /\ nv_state = 0
        /\ target_dataslot_write' = Fire /\ nv_state' = IF Fire THEN 1 ELSE 0
     \/ /\ nv_state = 1
        /\ IF ack THEN target_dataslot_write' = FALSE /\ nv_state' = 2 ELSE UNCHANGED <<target_dataslot_write, nv_state>>
     \/ /\ nv_state = 2
        /\ nv_state' = IF done THEN 0 ELSE 2
        /\ UNCHANGED target_dataslot_write

(* The executer: a rising edge of the strobe queues the command.           *)
Rising == target_dataslot_write /\ ~write_1
KeepDone == done                         \* fault variant: the last command's end still stands
DropDone == FALSE
Executer ==
  /\ write_1' = target_dataslot_write
  /\ \/ /\ tstate = "IDLE"
        /\ ack' = FALSE /\ UNCHANGED <<done, status>>
        /\ IF write_queue THEN write_queue' = FALSE /\ tstate' = "DATASLOTOP"
                          ELSE write_queue' = Rising /\ UNCHANGED tstate
     \/ /\ tstate = "DATASLOTOP"
        /\ status' = "command" /\ done' = DropDone /\ tstate' = "WAITRESULT"
        /\ write_queue' = (write_queue \/ Rising) /\ UNCHANGED ack
     \/ /\ tstate = "WAITRESULT"
        /\ ack' = (ack \/ status = "busy")
        /\ IF status = "ok" THEN done' = TRUE /\ tstate' = "IDLE" ELSE UNCHANGED <<done, tstate>>
        /\ write_queue' = (write_queue \/ Rising)

(* The firmware: takes the command, says busy, reads every cell into the   *)
(* file, says ok.  It says each thing for longer than a clock, as the      *)
(* bridge is far slower than the executer.                                 *)
Silent  == UNCHANGED host /\ (tstate = "WAITRESULT" => UNCHANGED status)
Load    == ~nv_loaded /\ nv_loaded' = TRUE /\ Silent
Take    == /\ tstate = "WAITRESULT" /\ status = "command"
           /\ status' = "busy" /\ toread' = Cells /\ UNCHANGED <<file, nv_loaded>>
Fetch   == /\ tstate = "WAITRESULT" /\ status = "busy"
           /\ \E c \in toread : toread' = toread \ {c} /\ file' = [file EXCEPT ![c] = mem[c]]
           /\ UNCHANGED <<status, nv_loaded>>
Finish  == /\ tstate = "WAITRESULT" /\ status = "busy" /\ ack /\ toread = {}
           /\ status' = "ok" /\ UNCHANGED <<host, nv_loaded>>
Idle    == Silent /\ UNCHANGED nv_loaded
Firmware == Load \/ Take \/ Fetch \/ Finish \/ Idle

Clocks == Synchronise /\ Controller /\ Executer

Next == Clocks /\ Machine /\ Firmware

Spec == Init /\ [][Next]_vars

(* Both clocks run and the firmware does its part; the game need not write *)
(* and nobody need open the menu: a tick that changes nothing by itself    *)
(* must not count as enabled because the menu might move in it.            *)
Tick == Clocks /\ Rest /\ inmenu_s' = inmenu_s
Fairness == /\ WF_vars(Tick /\ Idle)
            /\ WF_vars(Tick /\ Load) /\ WF_vars(Tick /\ Take)
            /\ WF_vars(Tick /\ Fetch) /\ WF_vars(Tick /\ Finish)
FairSpec == Spec /\ Fairness

-----------------------------------------------------------------------------
(* Where a difference between the EEPROM and the file is still known: the  *)
(* toggle on its way, the mark, the save at boot, or a save that has yet   *)
(* to read the cell.                                                       *)
OnItsWay == dirty # s1 \/ s1 # s2 \/ s2 # nv_dirty_s \/ Dirtied
Asked == \/ nv_state = 1 /\ target_dataslot_write /\ ~write_1
         \/ write_queue \/ tstate = "DATASLOTOP"
         \/ tstate = "WAITRESULT" /\ status = "command"
Known(c) == OnItsWay \/ nv_pending \/ boot_timer < Boot \/ Asked \/ c \in toread

(* No write is forgotten: a cell that the save file does not yet have is   *)
(* one that some part of the chain still knows of, even when it was        *)
(* written while the last save was reading the EEPROM, or in the very      *)
(* clock the mark was cleared.                                             *)
NothingForgotten == \A c \in Cells : mem[c] # file[c] => Known(c)

(* The controller takes a save for finished only when this save is: the    *)
(* firmware has read every cell, and no command is waiting or under way.   *)
DoneIsOwn == [][nv_state = 2 /\ nv_state' = 0 => toread = {} /\ ~Asked /\ tstate = "IDLE"]_vars

(* Once the game stops writing (writes of the value already there count)   *)
(* and nobody resets it, the file becomes the EEPROM's image.              *)
EventuallySaved == <>[][FALSE]_machine => <>[](file = mem)
=============================================================================
