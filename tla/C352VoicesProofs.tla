-------------------------- MODULE C352VoicesProofs --------------------------
(***************************************************************************)
(* What the runs of C352Voices show of two voices, three writes and one    *)
(* reset is proved here of any number of voices, any sound length, any     *)
(* flags words and any number of writes and of resets.                     *)
(***************************************************************************)
EXTENDS C352Voices, TLAPS

USE VoicesAssumption, EndAssumption, CpuWritesAssumption, CpuFlagsAssumption, ResetsAssumption

Walks == Idle \/ V0 \/ V1 \/ V2 \/ V3 \/ FetchAck \/ FetchWait \/ V4 \/ Mix \/ Done \/ E0 \/ E1 \/ E2

(* The words of the CPU and of the merges are flags words.                 *)
LEMMA WordsTyped ==
  ASSUME TypeOK
  PROVE  /\ cpu_flags_wr => bus.voice \in Voice /\ bus.word \in Flags
         /\ eng_flags_d \in Flags
<1>1. cpu_flags_wr => bus.voice \in Voice /\ bus.word \in CpuFlags
  BY DEF TypeOK, Bus, Quiet, cpu_flags_wr
<1>2. exec_f \in Flags
  BY DEF TypeOK, exec_f, Flags, Bits
<1>3. ASSUME NEW f \in Flags, NEW g \in Flags PROVE merge_flags(f, g) \in Flags
  <2>1. ASSUME NEW c \in Bits PROVE (IF late_v /\ f[c] = g[c] THEN late_f[c] ELSE f[c]) \in BOOLEAN
    BY DEF TypeOK, Flags
  <2> QED BY <2>1 DEF merge_flags, Flags
<1> QED BY <1>1, <1>2, <1>3 DEF eng_flags_d, TypeOK

LEMMA InitTyped == Init => TypeOK
<1>1. NoFlags \in Flags /\ None \in [Voice -> BOOLEAN] /\ 0 \in Voice /\ 0 \in Pos
  BY DEF NoFlags, None, Flags, Voice, Pos
<1> SUFFICES ASSUME Init PROVE TypeOK
  OBVIOUS
<1>2. bus \in Bus
  BY DEF Init, Bus
<1>3. flags \in [Voice -> Flags] /\ vstate \in [Voice -> Pos]
  BY <1>1 DEF Init
<1>4. /\ stepped \subseteq Voice /\ loaded \in [Voice -> BOOLEAN]
      /\ on_v \in [Voice -> BOOLEAN] /\ off_v \in [Voice -> BOOLEAN]
      /\ snap_on \in [Voice -> BOOLEAN] /\ snap_off \in [Voice -> BOOLEAN]
  BY <1>1 DEF Init
<1>8. reset \in BOOLEAN /\ h8_reset \in BOOLEAN /\ stale \subseteq Voice
  BY DEF Init
<1>9. resets \in 0 .. Resets
  BY DEF Init
<1>5. /\ state \in States /\ after_exec \in {"IDLE", "V0"} /\ written \in 0 .. CpuWrites
  BY DEF Init, States
<1>7. /\ exec_pending \in BOOLEAN /\ pend_sample \in BOOLEAN /\ rom_req \in BOOLEAN
      /\ w_busy \in BOOLEAN /\ w_over \in BOOLEAN /\ late_v \in BOOLEAN /\ st_we \in BOOLEAN
  BY DEF Init
<1>6. /\ qb \in Flags /\ w_flags \in Flags /\ w_flags_in \in Flags /\ late_f \in Flags
      /\ st_q \in Pos /\ st_wd \in Pos /\ w_pos \in Pos
      /\ st_wa \in Voice /\ resume_voice \in Voice /\ eng_voice \in Voice
  BY <1>1 DEF Init
<1> QED BY <1>2, <1>3, <1>4, <1>5, <1>6, <1>7, <1>8, <1>9 DEF TypeOK

LEMMA RamsTyped == ASSUME TypeOK, Rams PROVE (flags \in [Voice -> Flags] /\ qb \in Flags /\ vstate \in [Voice -> Pos] /\ st_q \in Pos)'
<1>1. flags' \in [Voice -> Flags]
  BY WordsTyped DEF Rams, TypeOK
<1>2. qb' \in Flags
  BY WordsTyped DEF Rams, TypeOK
<1>3. vstate' \in [Voice -> Pos] /\ st_q' \in Pos
  BY DEF Rams, TypeOK
<1> QED BY <1>1, <1>2, <1>3

LEMMA KeysTyped == ASSUME TypeOK, Mirrors, Snapshots PROVE (/\ on_v \in [Voice -> BOOLEAN] /\ off_v \in [Voice -> BOOLEAN]
                                                           /\ snap_on \in [Voice -> BOOLEAN] /\ snap_off \in [Voice -> BOOLEAN])'
<1>1. BusOn \in [Voice -> BOOLEAN] /\ BusOff \in [Voice -> BOOLEAN]
  BY WordsTyped DEF BusOn, BusOff, TypeOK, Flags, Bits
<1>2. eng_flags_d["KEYON"] \in BOOLEAN /\ eng_flags_d["KEYOFF"] \in BOOLEAN
  BY WordsTyped DEF Flags, Bits
<1>3. on_v' \in [Voice -> BOOLEAN] /\ off_v' \in [Voice -> BOOLEAN]
  BY <1>1, <1>2 DEF Mirrors
<1>4. snap_on' \in [Voice -> BOOLEAN] /\ snap_off' \in [Voice -> BOOLEAN]
  BY DEF Snapshots, snap, TypeOK
<1> QED BY <1>3, <1>4

(* The registers that the walk itself assigns.                             *)
WalkTyped ==
  /\ st_we \in BOOLEAN /\ st_wa \in Voice /\ st_wd \in Pos
  /\ state \in States /\ after_exec \in {"IDLE", "V0"}
  /\ resume_voice \in Voice /\ eng_voice \in Voice
  /\ exec_pending \in BOOLEAN /\ pend_sample \in BOOLEAN /\ rom_req \in BOOLEAN
  /\ w_flags \in Flags /\ w_flags_in \in Flags /\ w_pos \in Pos /\ w_busy \in BOOLEAN /\ w_over \in BOOLEAN
  /\ late_v \in BOOLEAN /\ late_f \in Flags
  /\ stepped \subseteq Voice /\ loaded \in [Voice -> BOOLEAN]

LEMMA WalkStaysTyped == ASSUME TypeOK, Walks PROVE WalkTyped'
<1>1. BusExec \in BOOLEAN /\ BusLate \in BOOLEAN
  BY DEF TypeOK, BusExec, BusLate, exec_write
<1>2. cpu_flags_hit => bus.word \in Flags
  BY WordsTyped DEF cpu_flags_hit
<1>3. ~AtLast => eng_voice + 1 \in Voice
  BY DEF TypeOK, AtLast, Last, Voice
<1>4. 0 \in Voice /\ 0 \in Pos
  BY DEF Voice, Pos
<1>5. Tick => pend_sample' \in BOOLEAN
  BY DEF Tick, TypeOK
<1>6. KeepLate \/ RestartLate => late_v' \in BOOLEAN /\ late_f' \in Flags
  BY <1>1, <1>2 DEF KeepLate, RestartLate, TypeOK
<1>7. Walking => /\ (st_we \in BOOLEAN /\ st_wa \in Voice /\ st_wd \in Pos)'
                 /\ (after_exec \in {"IDLE", "V0"} /\ resume_voice \in Voice /\ eng_voice \in Voice)'
                 /\ (exec_pending \in BOOLEAN /\ pend_sample \in BOOLEAN)'
                 /\ (stepped \subseteq Voice /\ loaded \in [Voice -> BOOLEAN])'
  BY <1>1, <1>5 DEF Walking, KeepState, where, hist, TypeOK
<1> USE DEF WalkTyped, States
<1>10. CASE Idle
  BY <1>10, <1>1, <1>4, <1>5, <1>6 DEF Idle, Start, KeepState, where, work, hist, TypeOK
<1>11. CASE V0
  BY <1>11, <1>6, <1>7 DEF V0, work, TypeOK
<1>12. CASE V1
  BY <1>12, <1>6, <1>7 DEF V1, TypeOK
<1>13. CASE V2
  BY <1>13, <1>6, <1>7 DEF V2, TypeOK, Flags, Bits
<1>14. CASE V3
  BY <1>14, <1>6, <1>7 DEF V3, work, TypeOK
<1>15. CASE FetchAck \/ FetchWait
  BY <1>15, <1>6, <1>7 DEF FetchAck, FetchWait, work, TypeOK
<1>16. CASE V4
  <2>1. w_pos' \in Pos /\ w_flags' \in Flags
    <3>1. w_pos' \in Pos
      BY <1>16, <1>4 DEF V4, TypeOK, Pos
    <3>2. w_flags' \in Flags
      BY <1>16 DEF V4, TypeOK, Flags, Bits
    <3> QED BY <3>1, <3>2
  <2> QED BY <1>16, <2>1, <1>6, <1>7 DEF V4, TypeOK
<1>17. CASE Mix
  BY <1>17, <1>6, <1>7 DEF Mix, work, TypeOK
<1>18. CASE Done
  BY <1>18, <1>1, <1>3, <1>4, <1>5, <1>6 DEF Done, Start, Resume, where, work, TypeOK
<1>19. CASE E0
  BY <1>19, <1>6, <1>7 DEF E0, work, TypeOK
<1>20. CASE E1
  BY <1>20, <1>6, <1>7 DEF E1, TypeOK
<1>21. CASE E2
  <2>1. (st_we \in BOOLEAN /\ st_wa \in Voice /\ st_wd \in Pos)'
    BY <1>21, <1>4 DEF E2, KeepState, ExecPos, TypeOK
  <2>2. (loaded \in [Voice -> BOOLEAN] /\ stepped \subseteq Voice)'
    BY <1>21 DEF E2, TypeOK
  <2>3. (state \in States /\ eng_voice \in Voice)'
    BY <1>21, <1>3, <1>4 DEF E2, TypeOK
  <2> QED BY <1>21, <2>1, <2>2, <2>3, <1>1, <1>5, <1>6 DEF E2, where, work, TypeOK
<1> QED BY <1>10, <1>11, <1>12, <1>13, <1>14, <1>15, <1>16, <1>17, <1>18, <1>19, <1>20, <1>21 DEF Walks

LEMMA ClearedTyped ==
  ASSUME TypeOK, Cleared
  PROVE  (/\ WalkTyped
          /\ on_v \in [Voice -> BOOLEAN] /\ off_v \in [Voice -> BOOLEAN]
          /\ snap_on \in [Voice -> BOOLEAN] /\ snap_off \in [Voice -> BOOLEAN])'
<1>1. NoFlags \in Flags /\ None \in [Voice -> BOOLEAN] /\ 0 \in Voice /\ 0 \in Pos
  BY DEF NoFlags, None, Flags, Voice, Pos
<1>2. (loaded \in [Voice -> BOOLEAN] /\ stepped \subseteq Voice)'
  BY DEF Cleared, TypeOK
<1>3. (/\ on_v \in [Voice -> BOOLEAN] /\ off_v \in [Voice -> BOOLEAN]
       /\ snap_on \in [Voice -> BOOLEAN] /\ snap_off \in [Voice -> BOOLEAN])'
  BY <1>1 DEF Cleared
<1>4. (/\ w_flags \in Flags /\ w_flags_in \in Flags /\ late_f \in Flags /\ w_pos \in Pos /\ st_wd \in Pos
       /\ st_wa \in Voice /\ resume_voice \in Voice /\ eng_voice \in Voice)'
  BY <1>1 DEF Cleared
<1>5. (/\ state \in States /\ after_exec \in {"IDLE", "V0"} /\ st_we \in BOOLEAN /\ exec_pending \in BOOLEAN
       /\ pend_sample \in BOOLEAN /\ rom_req \in BOOLEAN /\ w_busy \in BOOLEAN /\ w_over \in BOOLEAN
       /\ late_v \in BOOLEAN)'
  BY DEF Cleared, States
<1> QED BY <1>2, <1>3, <1>4, <1>5 DEF WalkTyped

LEMMA TypeStep == ASSUME TypeOK, [Next]_vars PROVE TypeOK'
<1>1. CASE Next
  <2>1. bus' \in Bus
    BY <1>1 DEF Next, Cpu, Bus
  <2>2. written' \in 0 .. CpuWrites
    BY <1>1 DEF Next, Cpu, TypeOK
  <2>3. reset' \in BOOLEAN /\ h8_reset' \in BOOLEAN
    BY <1>1 DEF Next, ResetWire, TypeOK
  <2>7. resets' \in 0 .. Resets
    BY <1>1 DEF Next, ResetWire, TypeOK
  <2>4. stale' \subseteq Voice
    BY <1>1 DEF Next, Engine, Walk, Cleared, TypeOK
  <2>5. (/\ WalkTyped
         /\ on_v \in [Voice -> BOOLEAN] /\ off_v \in [Voice -> BOOLEAN]
         /\ snap_on \in [Voice -> BOOLEAN] /\ snap_off \in [Voice -> BOOLEAN])'
    <3>1. CASE Walk
      BY <3>1, KeysTyped, WalkStaysTyped DEF Walk, Walks
    <3>2. CASE Cleared
      BY <3>2, ClearedTyped
    <3> QED BY <1>1, <3>1, <3>2 DEF Next, Engine
  <2>6. (flags \in [Voice -> Flags] /\ qb \in Flags /\ vstate \in [Voice -> Pos] /\ st_q \in Pos)'
    BY <1>1, RamsTyped DEF Next, Engine
  <2> QED BY <2>1, <2>2, <2>3, <2>4, <2>5, <2>6, <2>7 DEF WalkTyped, TypeOK
<1>2. CASE UNCHANGED vars
  BY <1>2 DEF TypeOK, vars, wires, cpu, st_port, where, keys, snap, work, late, hist
<1> QED BY <1>1, <1>2

(* Every register of the engine keeps to its range.                        *)
THEOREM TypeCorrect == Spec => []TypeOK
BY InitTyped, TypeStep, PTL DEF Spec

-----------------------------------------------------------------------------
(* Where the RAM lets the CPU win over the engine, the mirrors do so too;  *)
(* a reset clears them all, and a word is not stale once it is rewritten.  *)
Mirrored ==
  /\ \A v \in Voice \ stale : on_v[v] = flags[v]["KEYON"] /\ off_v[v] = flags[v]["KEYOFF"]
  /\ \A v \in stale : ~on_v[v] /\ ~off_v[v]

LEMMA MirrorsStep ==
  ASSUME TypeOK, Mirrored, Rams, Mirrors, stale' = stale \ Rewritten, NEW v \in Voice
  PROVE  /\ v \notin stale' => on_v'[v] = flags'[v]["KEYON"] /\ off_v'[v] = flags'[v]["KEYOFF"]
         /\ v \in stale' => ~on_v'[v] /\ ~off_v'[v]
<1> DEFINE cpuw == IF cpu_flags_wr THEN [flags EXCEPT ![bus.voice] = bus.word] ELSE flags
           by_cpu == cpu_flags_wr /\ bus.voice = v
           by_engine == eng_flags_we /\ eng_voice = v
<1>1. cpuw \in [Voice -> Flags]
  BY WordsTyped DEF TypeOK
<1>2. by_cpu => cpuw[v] = bus.word /\ BusOn[v] = bus.word["KEYON"] /\ BusOff[v] = bus.word["KEYOFF"]
  BY WordsTyped DEF TypeOK, BusOn, BusOff
<1>3. ~by_cpu => cpuw[v] = flags[v] /\ BusOn[v] = on_v[v] /\ BusOff[v] = off_v[v]
  BY WordsTyped DEF TypeOK, BusOn, BusOff
<1>4. BusOn \in [Voice -> BOOLEAN] /\ BusOff \in [Voice -> BOOLEAN]
  BY WordsTyped DEF TypeOK, BusOn, BusOff, Flags, Bits
<1>5. flags' = IF eng_flags_we /\ ~cpu_flags_hit THEN [cpuw EXCEPT ![eng_voice] = eng_flags_d] ELSE cpuw
  BY DEF Rams
<1>6. IF eng_flags_we /\ ~cpu_flags_hit
        THEN /\ on_v'  = [BusOn EXCEPT ![eng_voice] = eng_flags_d["KEYON"]]
             /\ off_v' = [BusOff EXCEPT ![eng_voice] = eng_flags_d["KEYOFF"]]
        ELSE on_v' = BusOn /\ off_v' = BusOff
  BY DEF Mirrors
<1>7. (by_engine => cpu_flags_hit = by_cpu) /\ (v \in stale' <=> v \in stale /\ ~by_cpu /\ ~by_engine)
  BY DEF cpu_flags_hit, Rewritten
<1> HIDE DEF cpuw
<1>8. CASE by_engine /\ ~by_cpu
  <2>1. flags'[v] = eng_flags_d /\ on_v'[v] = eng_flags_d["KEYON"] /\ off_v'[v] = eng_flags_d["KEYOFF"]
    BY <1>1, <1>4, <1>5, <1>6, <1>7, <1>8
  <2>2. v \notin stale'
    BY <1>7, <1>8
  <2> QED BY <2>1, <2>2
<1>9. CASE by_cpu \/ ~by_engine
  <2>1. flags'[v] = cpuw[v] /\ on_v'[v] = BusOn[v] /\ off_v'[v] = BusOff[v]
    BY <1>1, <1>4, <1>5, <1>6, <1>7, <1>9
  <2>2. CASE by_cpu
    <3>1. v \notin stale'
      BY <1>7, <2>2
    <3> QED BY <1>2, <2>1, <2>2, <3>1
  <2>3. CASE ~by_cpu
    <3>1. flags'[v] = flags[v] /\ on_v'[v] = on_v[v] /\ off_v'[v] = off_v[v]
      BY <1>3, <2>1, <2>3
    <3>2. v \in stale' <=> v \in stale
      BY <1>7, <1>9, <2>3
    <3> QED BY <3>1, <3>2 DEF Mirrored
  <2> QED BY <2>2, <2>3
<1> QED BY <1>8, <1>9

(* on_v and off_v are the KEYON and KEYOFF bits of the flags RAM, whoever  *)
(* wrote them last, in any clock, for every word written since the last    *)
(* reset, and show no key for the others (c352.sv 23-25, 209-219, 338-371).*)
THEOREM MirrorsExactCorrect == Spec => []MirrorsExact
<1>1. Init => Mirrored
  BY DEF Init, Mirrored, NoFlags, None, Bits
<1>2. TypeOK /\ Mirrored /\ [Next]_vars => Mirrored'
  <2> SUFFICES ASSUME TypeOK, Mirrored, [Next]_vars PROVE Mirrored'
    OBVIOUS
  <2>1. CASE Rams /\ Walk
    <3>1. stale' \subseteq Voice
      BY <2>1 DEF Walk, TypeOK
    <3> QED BY <2>1, <3>1, MirrorsStep DEF Walk, Mirrored
  <2>2. CASE Cleared
    BY <2>2 DEF Cleared, Mirrored, None
  <2>3. CASE UNCHANGED vars
    BY <2>3 DEF Mirrored, vars, keys
  <2> QED BY <2>1, <2>2, <2>3 DEF Next, Engine
<1>3. TypeOK /\ Mirrored => MirrorsExact
  BY DEF Mirrored, MirrorsExact
<1> QED BY <1>1, <1>2, <1>3, TypeCorrect, PTL DEF Spec

-----------------------------------------------------------------------------
(* The voices that this sample has stepped are the ones below the voice    *)
(* that the walk is at or, during an execute, will resume at.              *)
Stepping  == state \in {"V0", "V1", "V2", "V3", "FETCH", "V4", "MIX", "DONE"}
Executes  == state \in {"E0", "E1", "E2"}
InTurn == /\ Stepping => stepped = 0 .. eng_voice - 1
          /\ Executes /\ after_exec = "V0" => stepped = 0 .. resume_voice - 1

(* Every sample steps every voice once, in order, whatever executes come   *)
(* between two of them (c352.sv 341-352, 372-379).                         *)
THEOREM EachVoiceOnceCorrect == Spec => []EachVoiceOnce
<1> USE DEF Stepping, Executes
<1>1. Init => InTurn
  BY DEF Init, InTurn
<1>2. TypeOK /\ InTurn /\ [Next]_vars => InTurn'
  <2> SUFFICES ASSUME TypeOK, InTurn, [Next]_vars PROVE InTurn'
    OBVIOUS
  <2>1. CASE Next
    <3>1. CASE Idle
      <4>1. {} = 0 .. 0 - 1
        OBVIOUS
      <4>2. CASE exec_pending
        BY <3>1, <4>2 DEF Idle, InTurn, Start
      <4>3. CASE ~exec_pending /\ pend_sample
        <5>1. stepped' = {} /\ eng_voice' = 0 /\ state' = "V0"
          BY <3>1, <4>3 DEF Idle, Start
        <5> QED BY <4>1, <5>1 DEF InTurn
      <4>4. CASE ~exec_pending /\ ~pend_sample
        BY <3>1, <4>4 DEF Idle, InTurn
      <4> QED BY <4>2, <4>3, <4>4
    <3>2. CASE V0 \/ V1 \/ V2 \/ V3 \/ FetchAck \/ FetchWait \/ V4 \/ Mix \/ E0 \/ E1
      BY <3>2 DEF V0, V1, V2, V3, FetchAck, FetchWait, V4, Mix, E0, E1, Walking, InTurn, where, hist
    <3>3. CASE Done
      <4>1. stepped' = 0 .. eng_voice
        BY <3>3 DEF Done, InTurn, TypeOK, Voice
      <4> QED BY <3>3, <4>1 DEF Done, InTurn, Start, Resume, where, TypeOK, Voice
    <3>4. CASE E2
      BY <3>4 DEF E2, InTurn, where, TypeOK
    <3>5. CASE Cleared
      BY <3>5 DEF Cleared, InTurn
    <3> QED BY <2>1, <3>1, <3>2, <3>3, <3>4, <3>5 DEF Next, Engine, Walk
  <2>2. CASE UNCHANGED vars
    BY <2>2 DEF InTurn, vars, where, hist
  <2> QED BY <2>1, <2>2
<1>3. InTurn => EachVoiceOnce
  BY DEF InTurn, EachVoiceOnce
<1> QED BY <1>1, <1>2, <1>3, TypeCorrect, PTL DEF Spec

-----------------------------------------------------------------------------
(* A voice that an execute keyed on is at the start of its sound, in the    *)
(* state RAM or on its way there, until the walk has stepped it.  The write *)
(* of one voice is over before the walk is at the next, but for the last    *)
(* voice: from there an interrupted sample may go on with the last voice    *)
(* itself, in the clock that still writes it.                               *)
Position(v) == IF st_we /\ st_wa = v THEN st_wd ELSE vstate[v]
FromStart ==
  /\ \A v \in Voice : loaded[v] /\ v # Last => Position(v) = 0
  /\ loaded[eng_voice] /\ eng_voice # Last =>
       /\ state \in {"V0", "E0"} => vstate[eng_voice] = 0
       /\ state \in {"V1", "E1"} => st_q = 0
       /\ state \in {"V2", "V3", "FETCH", "V4", "E2"} => w_pos = 0
       /\ state \in {"MIX", "DONE"} => w_pos \in {0, 1}

LEMMA PositionStep ==
  ASSUME TypeOK, FromStart, Next, NEW v \in Voice, loaded[v]', v # Last
  PROVE  Position(v)' = 0
<1>1. vstate'[v] = (IF st_we /\ st_wa = v THEN st_wd ELSE vstate[v])
  BY DEF Next, Engine, Rams, TypeOK
<1>5. CASE Cleared
  BY <1>1, <1>5 DEF Cleared, Position, FromStart
<1>2. CASE ~Cleared /\ state = "DONE"
  <2>1. Done
    BY <1>2 DEF Next, Engine, Walk, Idle, V0, V1, V2, V3, FetchAck, FetchWait, V4, Mix, E0, E1, E2
  <2>2. st_we' /\ st_wa' = eng_voice /\ v # eng_voice /\ loaded[v]
    BY <2>1 DEF Done, TypeOK
  <2> QED BY <1>1, <2>2 DEF Position, FromStart
<1>3. CASE ~Cleared /\ state = "E2"
  <2>1. E2
    BY <1>3 DEF Next, Engine, Walk, Idle, V0, V1, V2, V3, FetchAck, FetchWait, V4, Mix, Done, E0, E1
  <2>2. CASE v # eng_voice
    <3>1. loaded[v] /\ (st_we' => st_wa' = eng_voice)
      BY <2>1, <2>2 DEF E2, KeepState, TypeOK
    <3> QED BY <1>1, <2>2, <3>1 DEF Position, FromStart
  <2>3. CASE v = eng_voice
    <3>1. CASE snap_on[v]
      BY <2>1, <2>3, <3>1 DEF E2, Executed, ExecPos, Position
    <3>2. CASE ~snap_on[v]
      <4>1. loaded[v] /\ w_pos = 0 /\ Position(v) = 0
        BY <1>3, <2>1, <2>3, <3>2 DEF E2, FromStart
      <4>2. CASE Executed
        BY <2>1, <2>3, <3>2, <4>1, <4>2 DEF E2, ExecPos, Position
      <4>3. CASE ~Executed
        BY <1>1, <2>1, <4>1, <4>3 DEF E2, KeepState, Position
      <4> QED BY <4>2, <4>3
    <3> QED BY <3>1, <3>2
  <2> QED BY <2>2, <2>3
<1>4. CASE ~Cleared /\ state \notin {"DONE", "E2"}
  <2>1. loaded' = loaded /\ ~st_we'
    BY <1>4 DEF Next, Engine, Walk, Idle, V0, V1, V2, V3, FetchAck, FetchWait, V4, Mix, Done, E0, E1, E2,
                Walking, KeepState, hist
  <2> QED BY <1>1, <2>1 DEF Position, FromStart
<1> QED BY <1>2, <1>3, <1>4, <1>5

(* Every voice but the last plays a key-on from the start of its sound      *)
(* (c352.sv 332-379; the last one does not, see KeyOnFromStart).            *)
THEOREM KeyOnFromStartBelowLastCorrect == Spec => []KeyOnFromStartBelowLast
<1>1. Init => FromStart
  BY DEF Init, FromStart, None, Voice
<1>2. TypeOK /\ FromStart /\ [Next]_vars => FromStart'
  <2> SUFFICES ASSUME TypeOK, FromStart, [Next]_vars PROVE FromStart'
    OBVIOUS
  <2>1. CASE Next
    <3>1. (\A v \in Voice : loaded[v] /\ v # Last => Position(v) = 0)'
      BY <2>1, PositionStep DEF Last
    <3> SUFFICES ASSUME loaded'[eng_voice'], eng_voice' # Last
                 PROVE  /\ state' \in {"V0", "E0"} => vstate'[eng_voice'] = 0
                        /\ state' \in {"V1", "E1"} => st_q' = 0
                        /\ state' \in {"V2", "V3", "FETCH", "V4", "E2"} => w_pos' = 0
                        /\ state' \in {"MIX", "DONE"} => w_pos' \in {0, 1}
      BY <3>1 DEF FromStart, Last
    <3>2. eng_voice' \in Voice /\ eng_voice \in Voice /\ 0 \in Voice
      BY TypeStep DEF TypeOK, Voice
    <3>3. \A v \in Voice : loaded'[v] /\ v # Last => (IF st_we' /\ st_wa' = v THEN st_wd' ELSE vstate'[v]) = 0
      BY <3>1 DEF Position, Last
    <3>4. st_q' = vstate[eng_voice]
      BY <2>1 DEF Next, Engine, Rams
    <3>5. (st_we' => st_wa' # eng_voice') => vstate'[eng_voice'] = 0
      BY <3>2, <3>3
    <3>6. CASE Idle
      BY <3>5, <3>6 DEF Idle, Start, KeepState
    <3>7. CASE V0 \/ E0
      BY <3>4, <3>7 DEF V0, E0, Walking, FromStart, hist, where
    <3>8. CASE V1 \/ E1
      BY <3>8 DEF V1, E1, Walking, FromStart, hist, where
    <3>9. CASE V2 \/ V3 \/ FetchAck \/ FetchWait \/ Mix
      BY <3>9 DEF V2, V3, FetchAck, FetchWait, Mix, Walking, FromStart, hist, where, work
    <3>10. CASE V4
      BY <3>10 DEF V4, Walking, FromStart, hist, where, TypeOK, Pos
    <3>11. CASE Done
      <4>1. st_wa' = eng_voice /\ eng_voice' # eng_voice
        BY <3>2, <3>11 DEF Done, Start, TypeOK, Voice, Resume
      <4> QED BY <3>5, <3>11, <4>1 DEF Done, Start
    <3>12. CASE E2
      <4>1. st_we' => st_wa' # eng_voice'
        BY <3>2, <3>12 DEF E2, KeepState, Voice, AtLast
      <4>2. state' \in {"V0", "E0", "IDLE"}
        BY <3>12 DEF E2, TypeOK
      <4> QED BY <3>5, <4>1, <4>2
    <3>13. CASE Cleared
      BY <3>13 DEF Cleared
    <3> QED BY <2>1, <3>6, <3>7, <3>8, <3>9, <3>10, <3>11, <3>12, <3>13 DEF Next, Engine, Walk
  <2>2. CASE UNCHANGED vars
    BY <2>2 DEF FromStart, Position, vars, st_port, work, hist
  <2> QED BY <2>1, <2>2
<1>3. TypeOK /\ FromStart => KeyOnFromStartBelowLast
  BY DEF FromStart, KeyOnFromStartBelowLast, KeyOnFromStart
<1> QED BY <1>1, <1>2, <1>3, TypeCorrect, PTL DEF Spec

-----------------------------------------------------------------------------
(* With the latch clocks spared, the engine's copy of a flags word, and the *)
(* word written since, are what the flags RAM holds: the merge loses        *)
(* nothing.                                                                 *)
Latched == state \in {"V2", "V3", "FETCH", "V4", "MIX", "DONE", "E2"}
Copied ==
  /\ state \in {"V0", "E0"} => ~cpu_flags_hit
  /\ state \in {"V1", "E1"} => ~late_v /\ qb = flags[eng_voice]
  /\ Latched =>
       /\ flags[eng_voice] = IF late_v THEN late_f ELSE w_flags_in
       /\ w_flags["KEYON"] = w_flags_in["KEYON"]
       /\ state \notin {"MIX", "DONE"} => w_flags = w_flags_in

LEMMA CopiedStep ==
  ASSUME {"V0", "E0"} \subseteq QuietStates, TypeOK, Copied, [Next]_vars
  PROVE  Copied'
<1>1. CASE Next
  <2>1. (state \in {"V0", "E0"} => ~cpu_flags_hit)'
    <3>1. bus' = Quiet \/ Spared(bus')
      BY <1>1 DEF Next, Cpu
    <3> QED BY <3>1 DEF Spared, cpu_flags_hit, cpu_flags_wr, Quiet
  <2>2. CASE Idle \/ Done \/ E2
    <3>1. state' \in {"V0", "E0", "IDLE"}
      BY <2>2 DEF Idle, Done, E2, Start, TypeOK
    <3> QED BY <2>1, <3>1 DEF Copied, Latched
  <2>3. CASE V0 \/ V1 \/ V2 \/ V3 \/ FetchAck \/ FetchWait \/ V4 \/ Mix \/ E0 \/ E1
    <3>1. eng_voice' = eng_voice /\ ~eng_flags_we
      BY <2>3 DEF V0, V1, V2, V3, FetchAck, FetchWait, V4, Mix, E0, E1, Walking, eng_flags_we
    <3>2. qb' = flags[eng_voice]
      BY <1>1, <3>1 DEF Next, Engine, Rams
    <3>3. flags'[eng_voice] = IF cpu_flags_hit THEN bus.word ELSE flags[eng_voice]
      BY <1>1, <3>1, WordsTyped DEF Next, Engine, Rams, TypeOK, cpu_flags_hit
    <3>4. CASE V0 \/ E0
      BY <2>1, <3>1, <3>2, <3>3, <3>4 DEF V0, E0, RestartLate, Copied, Latched
    <3>5. CASE V1 \/ E1
      BY <2>1, <3>1, <3>3, <3>5 DEF V1, E1, KeepLate, BusLate, Copied, Latched
    <3>6. CASE V2 \/ V3 \/ FetchAck \/ FetchWait \/ Mix
      <4>1. w_flags' = w_flags /\ w_flags_in' = w_flags_in /\ KeepLate
        BY <3>6 DEF V2, V3, FetchAck, FetchWait, Mix, work
      <4>2. Latched /\ Latched' /\ (state \in {"MIX", "DONE"} => state' \in {"MIX", "DONE"})
        BY <3>6 DEF V2, V3, FetchAck, FetchWait, Mix, Latched
      <4>3. flags'[eng_voice'] = IF late_v' THEN late_f' ELSE w_flags_in'
        BY <3>1, <3>3, <4>1, <4>2 DEF KeepLate, BusLate, Copied
      <4> QED BY <2>1, <4>1, <4>2, <4>3 DEF Copied, Latched
    <3>7. CASE V4
      <4>1. w_flags'["KEYON"] = w_flags["KEYON"]
        BY <3>7 DEF V4, TypeOK, Flags, Bits
      <4> QED BY <2>1, <3>1, <3>3, <3>7, <4>1 DEF V4, KeepLate, BusLate, Copied, Latched
    <3> QED BY <2>3, <3>4, <3>5, <3>6, <3>7
  <2>4. CASE Cleared
    <3>1. state' = "IDLE"
      BY <2>4 DEF Cleared
    <3> QED BY <3>1 DEF Copied, Latched
  <2> QED BY <1>1, <2>2, <2>3, <2>4 DEF Next, Engine, Walk
<1>2. CASE UNCHANGED vars
  BY <1>2 DEF Copied, Latched, cpu_flags_hit, cpu_flags_wr, vars, cpu, work, late
<1> QED BY <1>1, <1>2

(* What the engine writes back differs from the flags RAM in a key bit only *)
(* where it served that bit.                                               *)
LEMMA WriteBackKeeps ==
  ASSUME TypeOK, Copied, eng_flags_we
  PROVE  /\ eng_flags_d["KEYON"] # flags[eng_voice]["KEYON"] => KeyedOn(eng_voice)
         /\ eng_flags_d["KEYOFF"] # flags[eng_voice]["KEYOFF"] => KeyedOff(eng_voice) \/ VoiceEnded(eng_voice)
<1>1. \A c \in {"KEYON", "KEYOFF"} : \A f, g \in Flags :
        merge_flags(f, g)[c] = IF late_v /\ f[c] = g[c] THEN late_f[c] ELSE f[c]
  BY DEF merge_flags, Bits
<1>2. \A c \in {"KEYON", "KEYOFF"} : w_flags[c] \in BOOLEAN /\ w_flags_in[c] \in BOOLEAN /\ late_f[c] \in BOOLEAN
  BY DEF TypeOK, Flags, Bits
<1>3. flags[eng_voice] = (IF late_v THEN late_f ELSE w_flags_in) /\ w_flags["KEYON"] = w_flags_in["KEYON"]
  BY DEF Copied, Latched, eng_flags_we
<1>4. CASE state = "DONE"
  <2>1. \A c \in {"KEYON", "KEYOFF"} :
          eng_flags_d[c] = IF late_v /\ w_flags[c] = w_flags_in[c] THEN late_f[c] ELSE w_flags[c]
    BY <1>1, <1>4 DEF eng_flags_d, TypeOK
  <2> QED BY <1>2, <1>3, <1>4, <2>1 DEF VoiceEnded
<1>5. CASE state = "E2"
  <2>1. exec_f \in Flags
    BY DEF TypeOK, exec_f, Flags, Bits
  <2>2. \A c \in {"KEYON", "KEYOFF"} :
          eng_flags_d[c] = IF late_v /\ exec_f[c] = w_flags_in[c] THEN late_f[c] ELSE exec_f[c]
    BY <1>1, <1>5, <2>1 DEF eng_flags_d, TypeOK
  <2>3. w_flags = w_flags_in
    BY <1>5 DEF Copied, Latched
  <2>4. /\ ~snap_on[eng_voice] => exec_f["KEYON"] = w_flags["KEYON"]
        /\ ~snap_off[eng_voice] => exec_f["KEYOFF"] = w_flags["KEYOFF"]
    BY DEF exec_f, TypeOK, Flags, Bits
  <2> QED BY <1>2, <1>3, <1>5, <2>2, <2>3, <2>4 DEF KeyedOn, KeyedOff
<1> QED BY <1>4, <1>5 DEF eng_flags_we

(* Provided that the CPU spares the clock before the engine's latch, no     *)
(* write-back undoes a key bit the CPU wrote (c352.sv 20-23, 178-198).      *)
THEOREM KeyBitsKeptCorrect ==
  ASSUME {"V0", "E0"} \subseteq QuietStates
  PROVE  Spec => KeyBitsKept
<1>1. Init => Copied
  BY DEF Init, Copied, Latched
<1>2. ASSUME TypeOK, Copied, Next, NEW v \in Voice
      PROVE  /\ flags'[v]["KEYON"] # flags[v]["KEYON"] => CpuWrote(v) \/ KeyedOn(v)
             /\ flags'[v]["KEYOFF"] # flags[v]["KEYOFF"] => CpuWrote(v) \/ KeyedOff(v) \/ VoiceEnded(v)
  <2>1. CASE CpuWrote(v)
    BY <2>1
  <2>2. CASE ~CpuWrote(v) /\ eng_flags_we /\ ~cpu_flags_hit /\ v = eng_voice
    <3>1. flags'[v] = eng_flags_d
      BY <1>2, <2>2, WordsTyped DEF Next, Engine, Rams, TypeOK
    <3> QED BY <1>2, <2>2, <3>1, WriteBackKeeps
  <2>3. CASE ~CpuWrote(v) /\ ~(eng_flags_we /\ ~cpu_flags_hit /\ v = eng_voice)
    <3>1. flags'[v] = flags[v]
      BY <1>2, <2>3, WordsTyped DEF Next, Engine, Rams, TypeOK, CpuWrote
    <3> QED BY <3>1
  <2> QED BY <2>1, <2>2, <2>3
<1>3. TypeOK /\ Copied /\ [Next]_vars =>
        [\A v \in Voice :
           /\ flags'[v]["KEYON"] # flags[v]["KEYON"] => CpuWrote(v) \/ KeyedOn(v)
           /\ flags'[v]["KEYOFF"] # flags[v]["KEYOFF"] => CpuWrote(v) \/ KeyedOff(v) \/ VoiceEnded(v)]_vars
  BY <1>2
<1>4. TypeOK /\ Copied /\ [Next]_vars => Copied'
  BY CopiedStep
<1> QED BY <1>1, <1>3, <1>4, TypeCorrect, PTL DEF Spec, KeyBitsKept
=============================================================================
