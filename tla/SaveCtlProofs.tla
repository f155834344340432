--------------------------- MODULE SaveCtlProofs ---------------------------
(***************************************************************************)
(* What the runs of SaveCtl show of two cells is proved here of any         *)
(* EEPROM, any contents and any settling and boot time.                    *)
(***************************************************************************)
EXTENDS SaveCtl, TLAPS

(* The conversation between controller, executer and firmware goes through *)
(* four phases.  A save is taken for finished only in the last of them.    *)
Resting == /\ nv_state = 0 /\ ~target_dataslot_write /\ ~write_queue /\ tstate = "IDLE" /\ ~ack
           /\ toread = {}
Asking  == /\ nv_state = 1 /\ target_dataslot_write /\ ~ack /\ toread = {}
           /\ \/ tstate = "IDLE" /\ ~write_1 /\ ~write_queue
              \/ tstate = "IDLE" /\ write_1 /\ write_queue
              \/ tstate = "DATASLOTOP" /\ write_1 /\ ~write_queue
              \/ tstate = "WAITRESULT" /\ write_1 /\ ~write_queue /\ status = "command" /\ ~done
Reading == /\ nv_state = 1 /\ target_dataslot_write /\ write_1 /\ ~write_queue
           /\ tstate = "WAITRESULT" /\ status = "busy" /\ ~done
Ending  == /\ nv_state = 2 /\ ~target_dataslot_write /\ ~write_queue /\ ack
           /\ \/ tstate = "WAITRESULT" /\ ~done /\ status = "busy"
              \/ tstate = "WAITRESULT" /\ ~done /\ status = "ok" /\ toread = {}
              \/ tstate = "IDLE" /\ done /\ toread = {}
Phase == Resting \/ Asking \/ Reading \/ Ending

(* A difference is known without the help of the boot timer as soon as a   *)
(* save has begun: the timer's one clock may come while the controller is  *)
(* busy, and is then missed.                                               *)
KnownNow(c) == OnItsWay \/ nv_pending \/ Asked \/ c \in toread
Kept == \A c \in Cells : mem[c] # file[c] => KnownNow(c) \/ (boot_timer < Boot /\ nv_state = 0)

IInv == TypeOK /\ Phase /\ Kept

LEMMA InitInv == Init => IInv
<1> SUFFICES ASSUME Init PROVE IInv
  OBVIOUS
<1>1. TypeOK
  <2>1. nv_timer \in 0 .. Settle /\ boot_timer \in 0 .. Boot
    BY TimersAssumption DEF Init
  <2> QED
    BY <2>1 DEF Init, TypeOK
<1>2. Phase
  BY DEF Init, Phase, Resting
<1>3. Kept
  BY TimersAssumption DEF Init, Kept
<1> QED
  BY <1>1, <1>2, <1>3 DEF IInv

LEMMA TypeStep == ASSUME TypeOK, [Next]_vars PROVE TypeOK'
<1>1. CASE UNCHANGED vars
  BY <1>1 DEF TypeOK, vars, machine, sync, menu, control, executer, host
<1>2. CASE Next
  <2> USE <1>2 DEF Next, Clocks
  <2>1. (reset \in BOOLEAN /\ mem \in [Cells -> Values] /\ dirty \in BOOLEAN)'
    BY DEF TypeOK, Machine, Rest, machine, Write, WriteReset, Written, EnterReset, LeaveReset
  <2>2. (s1 \in BOOLEAN /\ s2 \in BOOLEAN /\ nv_dirty_s \in BOOLEAN /\ nv_dirty_d \in BOOLEAN
         /\ inmenu_s \in BOOLEAN /\ inmenu_d \in BOOLEAN)'
    BY DEF TypeOK, Synchronise
  <2>3. (nv_timer \in 0 .. Settle /\ boot_timer \in 0 .. Boot)'
    BY TimersAssumption DEF TypeOK, Controller, Timers, TimerNext
  <2>4. (nv_pending \in BOOLEAN /\ nv_state \in {0, 1, 2} /\ target_dataslot_write \in BOOLEAN)'
    <3>1. nv_pending' \in BOOLEAN
      BY DEF Controller
    <3>2. nv_state' \in {0, 1, 2}
      BY DEF TypeOK, Controller
    <3>3. Fire \in BOOLEAN
      BY DEF Fire
    <3>4. target_dataslot_write' \in BOOLEAN
      BY <3>3 DEF TypeOK, Controller
    <3> QED
      BY <3>1, <3>2, <3>4
  <2>5. (write_1 \in BOOLEAN /\ write_queue \in BOOLEAN
         /\ tstate \in {"IDLE", "DATASLOTOP", "WAITRESULT"} /\ ack \in BOOLEAN /\ done \in BOOLEAN)'
    BY DEF TypeOK, Executer, Rising, DropDone
  <2>6. (nv_loaded \in BOOLEAN /\ status \in {"none", "command", "busy", "ok"}
         /\ toread \subseteq Cells /\ file \in [Cells -> Values])'
    <3>1. CASE Load \/ Idle
      BY <3>1 DEF TypeOK, Load, Idle, Silent, host, Executer
    <3>2. CASE Take
      BY <3>2 DEF TypeOK, Take
    <3>3. CASE Fetch
      BY <3>3 DEF TypeOK, Fetch
    <3>4. CASE Finish
      BY <3>4 DEF TypeOK, Finish, host
    <3> QED
      BY <3>1, <3>2, <3>3, <3>4 DEF Firmware
  <2> QED
    BY <2>1, <2>2, <2>3, <2>4, <2>5, <2>6 DEF TypeOK
<1> QED
  BY <1>1, <1>2

(* Each phase leads to itself or to the next.                              *)
LEMMA PhaseStep == ASSUME TypeOK, Phase, [Next]_vars PROVE Phase'
<1>1. CASE UNCHANGED vars
  BY <1>1 DEF Phase, Resting, Asking, Reading, Ending, vars, control, executer, host
<1>2. CASE Next
  <2>0. Controller /\ Executer /\ Firmware
    BY <1>2 DEF Next, Clocks
  <2> USE <2>0
  <2>1. CASE Resting
    <3>1. UNCHANGED host
      BY <2>1 DEF Resting, Firmware, Load, Idle, Silent, Take, Fetch, Finish
    <3>2. ~write_1' /\ ~write_queue' /\ tstate' = "IDLE" /\ ~ack'
      BY <2>1 DEF Resting, Executer, Rising
    <3>3. \/ nv_state' = 0 /\ ~target_dataslot_write'
          \/ nv_state' = 1 /\ target_dataslot_write'
      BY <2>1 DEF Resting, Controller
    <3> QED
      BY <2>1, <3>1, <3>2, <3>3 DEF Phase, Resting, Asking, host
  <2>2. CASE Asking
    <3>1. nv_state' = 1 /\ target_dataslot_write'
      BY <2>2 DEF Asking, Controller
    <3>2. CASE tstate # "WAITRESULT"
      <4>1. UNCHANGED host
        BY <3>2 DEF Firmware, Load, Idle, Silent, Take, Fetch, Finish
      <4>2. ~ack' /\ write_1' /\ toread' = {}
        BY <2>2, <3>2, <4>1 DEF Asking, Executer, host
      <4>3. CASE tstate = "IDLE" /\ ~write_1 /\ ~write_queue
        <5>1. tstate' = "IDLE" /\ write_queue'
          BY <2>2, <4>3 DEF Asking, Executer, Rising
        <5> QED
          BY <3>1, <4>2, <5>1 DEF Phase, Asking
      <4>4. CASE tstate = "IDLE" /\ write_1 /\ write_queue
        <5>1. tstate' = "DATASLOTOP" /\ ~write_queue'
          BY <4>4 DEF Executer
        <5> QED
          BY <3>1, <4>2, <5>1 DEF Phase, Asking
      <4>5. CASE tstate = "DATASLOTOP" /\ write_1 /\ ~write_queue
        <5>1. tstate' = "WAITRESULT" /\ ~write_queue' /\ status' = "command" /\ ~done'
          BY <4>5 DEF Executer, Rising, DropDone
        <5> QED
          BY <3>1, <4>2, <5>1 DEF Phase, Asking
      <4> QED
        BY <2>2, <3>2, <4>3, <4>4, <4>5 DEF Asking
    <3>3. CASE tstate = "WAITRESULT"
      <4>1. write_1 /\ ~write_queue /\ status = "command" /\ ~done /\ ~ack /\ toread = {}
        BY <2>2, <3>3 DEF Asking
      <4>2. write_1' /\ ~write_queue' /\ tstate' = "WAITRESULT" /\ ~done' /\ ~ack'
        BY <2>2, <3>3, <4>1 DEF Asking, Executer, Rising
      <4>3. status' = "busy" \/ (status' = "command" /\ toread' = {})
        BY <3>3, <4>1 DEF Firmware, Load, Idle, Silent, Take, Fetch, Finish, host
      <4> QED
        BY <3>1, <4>2, <4>3 DEF Phase, Asking, Reading
    <3> QED
      BY <3>2, <3>3
  <2>3. CASE Reading
    <3>1. write_1' /\ ~write_queue' /\ tstate' = "WAITRESULT" /\ ~done' /\ ack'
      BY <2>3 DEF Reading, Executer, Rising
    <3>2. IF ack THEN nv_state' = 2 /\ ~target_dataslot_write' ELSE nv_state' = 1 /\ target_dataslot_write'
      <4>1. nv_state = 1 /\ target_dataslot_write
        BY <2>3 DEF Reading
      <4>2. CASE ack
        BY <4>1, <4>2 DEF Controller
      <4>3. CASE ~ack
        BY <4>1, <4>3 DEF Controller
      <4> QED
        BY <4>2, <4>3
    <3>3. \/ status' = "busy"
          \/ status' = "ok" /\ ack /\ toread' = {}
      BY <2>3 DEF Reading, Firmware, Load, Idle, Silent, Take, Fetch, Finish, host
    <3> QED
      BY <3>1, <3>2, <3>3 DEF Phase, Reading, Ending
  <2>4. CASE Ending
    <3>1. ~target_dataslot_write' /\ ~write_queue'
      <4>1. nv_state = 2 /\ ~target_dataslot_write /\ ~write_queue
        BY <2>4 DEF Ending
      <4>2. ~target_dataslot_write'
        BY <4>1 DEF Controller
      <4>3. ~write_queue'
        BY <4>1 DEF Executer, Rising
      <4> QED
        BY <4>2, <4>3
    <3>2. CASE tstate = "WAITRESULT"
      <4>0. nv_state = 2 /\ ack /\ ~done
        BY <2>4, <3>2 DEF Ending
      <4>1. nv_state' = 2 /\ ack'
        <5>1. nv_state' = 2
          BY <4>0 DEF Controller
        <5>2. ack'
          BY <3>2, <4>0 DEF Executer
        <5> QED
          BY <5>1, <5>2
      <4>2. CASE status = "busy"
        <5>1. tstate' = "WAITRESULT" /\ ~done'
          BY <2>4, <3>2, <4>2 DEF Ending, Executer
        <5>2. status' = "busy" \/ (status' = "ok" /\ toread' = {})
          BY <3>2, <4>2 DEF Firmware, Load, Idle, Silent, Take, Fetch, Finish, host
        <5> QED
          BY <3>1, <4>1, <5>1, <5>2 DEF Phase, Ending
      <4>3. CASE status = "ok"
        <5>1. tstate' = "IDLE" /\ done'
          BY <3>2, <4>3 DEF Executer
        <5>2. toread' = {}
          BY <2>4, <3>2, <4>3 DEF Ending, Firmware, Load, Idle, Silent, Take, Fetch, Finish, host
        <5> QED
          BY <3>1, <4>1, <5>1, <5>2 DEF Phase, Ending
      <4> QED
        BY <2>4, <3>2, <4>2, <4>3 DEF Ending
    <3>3. CASE tstate = "IDLE"
      <4>1. UNCHANGED host
        BY <3>3 DEF Firmware, Load, Idle, Silent, Take, Fetch, Finish
      <4>2. nv_state' = 0 /\ tstate' = "IDLE" /\ ~ack'
        BY <2>4, <3>3 DEF Ending, Executer, Controller
      <4> QED
        BY <2>4, <3>1, <3>3, <4>1, <4>2 DEF Phase, Resting, Ending, host
    <3> QED
      BY <2>4, <3>2, <3>3 DEF Ending
  <2> QED
    BY <2>1, <2>2, <2>3, <2>4 DEF Phase
<1> QED
  BY <1>1, <1>2

(* A difference that is known stays known, or its cell has been read: the  *)
(* toggle moves down the synchroniser into the mark, the mark turns into a *)
(* save in the clock it is cleared, and a save that is asked for reads     *)
(* every cell.                                                             *)
LEMMA FireAsks == ASSUME Phase, Fire, Controller, Executer PROVE Asked'
<1>1. nv_state = 0 /\ ~target_dataslot_write
  BY DEF Fire, Phase, Resting, Asking, Reading, Ending
<1>2. nv_state' = 1 /\ target_dataslot_write'
  BY <1>1 DEF Controller
<1>3. ~write_1'
  BY <1>1 DEF Executer
<1> QED
  BY <1>2, <1>3 DEF Asked

LEMMA KeptStep == ASSUME ~CutShort, TypeOK, Phase, Kept, [Next]_vars PROVE Kept'
<1>1. CASE UNCHANGED vars
  BY <1>1 DEF Kept, KnownNow, OnItsWay, Dirtied, Asked, vars, machine, sync, control, executer, host
<1>2. CASE Next
  <2>0. Controller /\ Executer /\ Firmware /\ Machine /\ Synchronise
    BY <1>2 DEF Next, Clocks
  <2> SUFFICES ASSUME NEW c \in Cells, (mem[c] # file[c])'
               PROVE (KnownNow(c) \/ (boot_timer < Boot /\ nv_state = 0))'
    BY DEF Kept
  <2>1. CASE dirty' # dirty
    BY <2>0, <2>1 DEF Synchronise, KnownNow, OnItsWay
  <2>2. CASE dirty' = dirty
    <3>1. mem' = mem
      BY <2>0, <2>2 DEF Machine, Rest, machine, Write, WriteReset, EnterReset, LeaveReset, TypeOK
    <3>2. mem[c] # file[c]
      <4>1. file' = file \/ (\E d \in Cells : file' = [file EXCEPT ![d] = mem[d]])
        BY <2>0 DEF Firmware, Load, Idle, Silent, Take, Fetch, Finish, host, TypeOK
      <4> QED
        BY <3>1, <4>1 DEF TypeOK
    <3>3. CASE OnItsWay \/ nv_pending
      <4>1. CASE Fire
        BY <2>0, <4>1, FireAsks DEF KnownNow
      <4>2. CASE ~Fire
        <5>1. nv_pending \/ Dirtied => nv_pending'
          BY <2>0, <4>2 DEF Controller, Cleared
        <5>2. OnItsWay => OnItsWay' \/ Dirtied
          BY <2>0 DEF OnItsWay, Synchronise, Dirtied
        <5> QED
          BY <3>3, <5>1, <5>2 DEF KnownNow
      <4> QED
        BY <4>1, <4>2
    <3>4. CASE Asked
      <4>1. CASE Rising
        <5>1. write_queue' \/ tstate' = "DATASLOTOP"
          BY <2>0, <4>1 DEF Executer
        <5> QED
          BY <5>1 DEF KnownNow, Asked
      <4>2. CASE write_queue
        <5>1. write_queue' \/ tstate' = "DATASLOTOP"
          BY <2>0, <4>2 DEF Executer
        <5> QED
          BY <5>1 DEF KnownNow, Asked
      <4>3. CASE tstate = "DATASLOTOP"
        <5>1. tstate' = "WAITRESULT" /\ status' = "command"
          BY <2>0, <4>3 DEF Executer
        <5> QED
          BY <5>1 DEF KnownNow, Asked
      <4>4. CASE tstate = "WAITRESULT" /\ status = "command"
        <5>1. tstate' = "WAITRESULT"
          BY <2>0, <4>4 DEF Executer
        <5>2. status' = "command" \/ c \in toread'
          BY <2>0, <4>4 DEF Firmware, Load, Idle, Silent, Take, Fetch, Finish
        <5> QED
          BY <5>1, <5>2 DEF KnownNow, Asked
      <4> QED
        BY <3>4, <4>1, <4>2, <4>3, <4>4 DEF Asked, Rising
    <3>5. CASE c \in toread
      <4>1. c \in toread'
        <5>1. CASE Fetch
          BY <3>1, <3>5, <5>1 DEF Fetch, TypeOK
        <5>2. CASE Load \/ Take \/ Finish \/ Idle
          BY <3>5, <5>2 DEF Load, Idle, Silent, Take, Finish, host
        <5> QED
          BY <2>0, <5>1, <5>2 DEF Firmware
      <4> QED
        BY <4>1 DEF KnownNow
    <3>6. CASE boot_timer < Boot /\ nv_state = 0
      <4>1. CASE Fire
        BY <2>0, <4>1, FireAsks DEF KnownNow
      <4>2. CASE ~Fire
        <5>1. nv_state' = 0
          BY <2>0, <3>6, <4>2 DEF Controller
        <5>2. boot_timer # Boot - 1
          BY <3>6, <4>2 DEF Fire, BootSave
        <5>3. boot_timer' < Boot
          BY <2>0, <3>6, <5>2, TimersAssumption DEF Controller, Timers, TypeOK
        <5> QED
          BY <5>1, <5>3
      <4> QED
        BY <4>1, <4>2
    <3> QED
      BY <3>2, <3>3, <3>4, <3>5, <3>6 DEF Kept, KnownNow
  <2> QED
    BY <2>1, <2>2
<1> QED
  BY <1>1, <1>2

LEMMA InvForgotten == IInv => NothingForgotten
BY DEF IInv, Kept, KnownNow, NothingForgotten, Known

LEMMA DoneStep ==
  ASSUME Phase, [Next]_vars
  PROVE [nv_state = 2 /\ nv_state' = 0 => toread = {} /\ ~Asked /\ tstate = "IDLE"]_vars
<1> SUFFICES ASSUME Next, nv_state = 2, nv_state' = 0 PROVE toread = {} /\ ~Asked /\ tstate = "IDLE"
  OBVIOUS
<1>1. Ending
  BY DEF Phase, Resting, Asking, Reading, Ending
<1>2. done
  BY DEF Next, Clocks, Controller
<1> QED
  BY <1>1, <1>2 DEF Ending, Asked

(* Every register of the save path keeps to its range.                     *)
THEOREM TypeCorrect == Spec => []TypeOK
<1>1. Init => TypeOK
  BY InitInv DEF IInv
<1> QED
  BY <1>1, TypeStep, PTL DEF Spec

(* The conversation never leaves its four phases, so the controller takes  *)
(* a save for finished only when it is its own, with every cell read.      *)
THEOREM DoneIsOwnCorrect == Spec => DoneIsOwn
<1>1. Init => TypeOK /\ Phase
  BY InitInv DEF IInv
<1>2. TypeOK /\ Phase /\ [Next]_vars => (TypeOK /\ Phase)'
  BY TypeStep, PhaseStep
<1>3. Spec => [](TypeOK /\ Phase)
  BY <1>1, <1>2, PTL DEF Spec
<1> QED
  BY <1>3, DoneStep, PTL DEF Spec, DoneIsOwn

(* For any EEPROM and any timers no write is forgotten, as long as a reset *)
(* leaves the toggle standing for one edge of clk_74a after a write.       *)
THEOREM NothingForgottenCorrect ==
  ASSUME ~CutShort
  PROVE  Spec => []NothingForgotten
<1>1. IInv /\ [Next]_vars => IInv'
  BY TypeStep, PhaseStep, KeptStep DEF IInv
<1> QED
  BY <1>1, InitInv, InvForgotten, PTL DEF Spec
=============================================================================
