----------------------------- MODULE C352Voices -----------------------------
(***************************************************************************)
(* rtl/c352.sv: the sound chip's voice engine against the CPU that writes  *)
(* its registers.  One step is one clock.                                  *)
(*                                                                         *)
(* The engine walks the voices once per sample (V0 .. DONE) and, between   *)
(* two voices, walks them all for a pending execute (E0 .. E2); it works   *)
(* on copies of a voice's flags and play position that it took from the    *)
(* RAMs two clocks after pointing at them, and writes them back at the     *)
(* end.  Meanwhile the CPU may write a flags word, or execute, in any      *)
(* clock: `bus' is the strobe that ncv1_sub.sv registers for the chip.     *)
(* A reset may come in any clock; it clears the registers and keeps the    *)
(* two RAMs.                                                               *)
(*                                                                         *)
(* Kept of the data: of the flags word BUSY, KEYON and KEYOFF; of the 88   *)
(* bits of voice state the position, counted in bytes from the start of    *)
(* the sound.  The clocks S_V5 .. S_V9, which only compute the output, are *)
(* one state, MIX; whether the phase counter overflows (and a byte is      *)
(* fetched) and whether a voice loops at its end is left open.  The flag   *)
(* that a tick came too early, which nothing in the core reads, is not     *)
(* kept.                                                                   *)
(***************************************************************************)
EXTENDS Naturals

CONSTANTS
  Voices,       (* number of voices, 32 in the chip                        *)
  End,          (* last position of a sound                                *)
  CpuFlags,     (* the flags words the CPU writes                          *)
  CpuWrites,    (* bound: register writes in a behaviour                   *)
  Resets,       (* bound: resets after the first                           *)
  QuietStates   (* engine states in whose clock the CPU does not write the *)
                (* flags of the engine's voice; {} in the machine          *)

ASSUME VoicesAssumption == Voices \in Nat \ {0}
ASSUME EndAssumption == End \in Nat
ASSUME CpuWritesAssumption == CpuWrites \in Nat
ASSUME ResetsAssumption == Resets \in Nat

Bits  == {"BUSY", "KEYON", "KEYOFF"}
Flags == [Bits -> BOOLEAN]
ASSUME CpuFlagsAssumption == CpuFlags \subseteq Flags

Voice == 0 .. Voices - 1
Last  == Voices - 1
Pos   == 0 .. End

Quiet == [kind |-> "none"]
Bus   == {Quiet, [kind |-> "exec"]} \cup [kind : {"flags"}, voice : Voice, word : CpuFlags]

VARIABLES
  reset, h8_reset, resets,                       \* the machine's reset, the H8's; how often it came
  bus, written,                                  \* the CPU's strobe; how often it has written
  flags, qb,                                     \* the flags RAM and its engine-side output
  vstate, st_q, st_we, st_wa, st_wd,             \* the voice state RAM, its output, its write port
  state, after_exec, resume_voice, eng_voice,    \* where the engine is
  on_v, off_v, snap_on, snap_off, exec_pending,  \* key bits mirrored, snapped; the execute request
  pend_sample, rom_req,
  w_flags, w_flags_in, w_pos, w_busy, w_over,    \* the engine's working copies
  late_v, late_f,                                \* a flags word written since they were taken
  stepped, loaded,                               \* history: voices of this sample, fresh key-ons,
  stale                                          \* voices whose flags word is older than the last reset

wires  == <<reset, h8_reset, resets>>
cpu    == <<bus, written>>
keys   == <<on_v, off_v>>
snap   == <<snap_on, snap_off>>
st_port == <<st_we, st_wa, st_wd>>
where  == <<after_exec, resume_voice>>
work   == <<w_flags, w_flags_in, w_pos, w_busy, w_over>>
late   == <<late_v, late_f>>
hist   == <<stepped, loaded>>
vars == <<wires, cpu, flags, qb, vstate, st_q, st_port, state, where, eng_voice, keys, snap, exec_pending,
          pend_sample, rom_req, work, late, hist, stale>>

States == {"IDLE", "V0", "V1", "V2", "V3", "FETCH", "V4", "MIX", "DONE", "E0", "E1", "E2"}

TypeOK ==
  /\ reset \in BOOLEAN /\ h8_reset \in BOOLEAN /\ resets \in 0 .. Resets
  /\ bus \in Bus /\ written \in 0 .. CpuWrites
  /\ flags \in [Voice -> Flags] /\ qb \in Flags
  /\ vstate \in [Voice -> Pos] /\ st_q \in Pos
  /\ st_we \in BOOLEAN /\ st_wa \in Voice /\ st_wd \in Pos
  /\ state \in States /\ after_exec \in {"IDLE", "V0"}
  /\ resume_voice \in Voice /\ eng_voice \in Voice
  /\ on_v \in [Voice -> BOOLEAN] /\ off_v \in [Voice -> BOOLEAN]
  /\ snap_on \in [Voice -> BOOLEAN] /\ snap_off \in [Voice -> BOOLEAN]
  /\ exec_pending \in BOOLEAN /\ pend_sample \in BOOLEAN /\ rom_req \in BOOLEAN
  /\ w_flags \in Flags /\ w_flags_in \in Flags /\ w_pos \in Pos /\ w_busy \in BOOLEAN /\ w_over \in BOOLEAN
  /\ late_v \in BOOLEAN /\ late_f \in Flags
  /\ stepped \subseteq Voice /\ loaded \in [Voice -> BOOLEAN] /\ stale \subseteq Voice

NoFlags == [b \in Bits |-> FALSE]
None    == [v \in Voice |-> FALSE]

(* After the first reset; the RAMs as configured, all zero.                *)
Init ==
  /\ reset = FALSE /\ h8_reset = FALSE /\ resets = 0
  /\ bus = Quiet /\ written = 0
  /\ flags = [v \in Voice |-> NoFlags] /\ qb = NoFlags
  /\ vstate = [v \in Voice |-> 0] /\ st_q = 0
  /\ st_we = FALSE /\ st_wa = 0 /\ st_wd = 0
  /\ state = "IDLE" /\ after_exec = "IDLE" /\ resume_voice = 0 /\ eng_voice = 0
  /\ on_v = None /\ off_v = None /\ snap_on = None /\ snap_off = None
  /\ exec_pending = FALSE /\ pend_sample = FALSE /\ rom_req = FALSE
  /\ w_flags = NoFlags /\ w_flags_in = NoFlags /\ w_pos = 0 /\ w_busy = FALSE /\ w_over = FALSE
  /\ late_v = FALSE /\ late_f = NoFlags
  /\ stepped = {} /\ loaded = None /\ stale = {}

-----------------------------------------------------------------------------
(* What the CPU's strobe does in this clock.                               *)
cpu_flags_wr  == bus.kind = "flags"
cpu_flags_hit == cpu_flags_wr /\ bus.voice = eng_voice
exec_write    == bus.kind = "exec"

(* The registers the strobe writes, as they stand if the engine does not   *)
(* write them as well; the engine's assignments come later and win.        *)
BusOn   == IF cpu_flags_wr THEN [on_v EXCEPT ![bus.voice] = bus.word["KEYON"]] ELSE on_v
BusOff  == IF cpu_flags_wr THEN [off_v EXCEPT ![bus.voice] = bus.word["KEYOFF"]] ELSE off_v
BusLate == IF cpu_flags_hit THEN TRUE ELSE late_v
BusExec == exec_pending \/ exec_write

(* The engine's flags word for the RAM: the bits it changed over the word  *)
(* the CPU has written since.                                              *)
NoMerge(eng_new, eng_old) == eng_new      \* fault variant: the late word is not looked at
merge_flags(eng_new, eng_old) ==
  [b \in Bits |-> IF late_v /\ eng_new[b] = eng_old[b] THEN late_f[b] ELSE eng_new[b]]

(* KEYOFF after KEYON, as the chip does.                                   *)
exec_f ==
  LET on == IF snap_on[eng_voice] THEN [w_flags EXCEPT !["BUSY"] = TRUE, !["KEYON"] = FALSE] ELSE w_flags
  IN  IF snap_off[eng_voice] THEN [on EXCEPT !["BUSY"] = FALSE, !["KEYOFF"] = FALSE] ELSE on

Executed     == snap_on[eng_voice] \/ snap_off[eng_voice]
eng_flags_we == (state = "DONE" /\ w_busy) \/ (state = "E2" /\ Executed)
eng_flags_d  == IF state = "DONE" THEN merge_flags(w_flags, w_flags_in) ELSE merge_flags(exec_f, w_flags_in)

(* Both RAMs, every clock.                                                 *)
Rams ==
  LET cpuw == IF cpu_flags_wr THEN [flags EXCEPT ![bus.voice] = bus.word] ELSE flags
      engw == eng_flags_we /\ ~cpu_flags_hit
  IN  /\ flags' = IF engw THEN [cpuw EXCEPT ![eng_voice] = eng_flags_d] ELSE cpuw
      /\ qb' = IF engw THEN eng_flags_d ELSE flags[eng_voice]
      /\ vstate' = IF st_we THEN [vstate EXCEPT ![st_wa] = st_wd] ELSE vstate
      /\ st_q' = vstate[eng_voice]

(* The key-bit mirrors follow what the engine writes to the flags RAM.     *)
MirrorsAlways ==                          \* fault variant: the RAM lets the CPU win, the mirrors do not
  IF eng_flags_we
    THEN /\ on_v'  = [BusOn EXCEPT ![eng_voice] = eng_flags_d["KEYON"]]
         /\ off_v' = [BusOff EXCEPT ![eng_voice] = eng_flags_d["KEYOFF"]]
    ELSE on_v' = BusOn /\ off_v' = BusOff
Mirrors ==
  IF eng_flags_we /\ ~cpu_flags_hit
    THEN /\ on_v'  = [BusOn EXCEPT ![eng_voice] = eng_flags_d["KEYON"]]
         /\ off_v' = [BusOff EXCEPT ![eng_voice] = eng_flags_d["KEYOFF"]]
    ELSE on_v' = BusOn /\ off_v' = BusOff

Snapshots == IF exec_write THEN snap_on' = on_v /\ snap_off' = off_v ELSE UNCHANGED snap

(* The sample tick, which no clock excludes.                               *)
Tick == pend_sample' \in {pend_sample, TRUE}

KeepLate    == late_v' = BusLate /\ late_f' = IF cpu_flags_hit THEN bus.word ELSE late_f
RestartLate == late_v' = FALSE /\ late_f' = IF cpu_flags_hit THEN bus.word ELSE late_f
KeepState   == st_we' = FALSE /\ UNCHANGED <<st_wa, st_wd>>

-----------------------------------------------------------------------------
(* The walk's ends: the last voice, the voice that a sample interrupted by *)
(* an execute goes on with, and the position that the execute loads.       *)
AtLastEarly == eng_voice + 1 >= Last      \* fault variants: one voice early,
AtLast      == eng_voice = Last
ResumeSame  == eng_voice                  \* the interrupted voice again,
Resume      == eng_voice + 1
ExecKeeps   == w_pos                      \* no position loaded
ExecPos     == IF snap_on[eng_voice] THEN 0 ELSE w_pos

Start(first) == eng_voice' = 0 /\ state' = first

Idle ==
  /\ state = "IDLE"
  /\ \/ /\ exec_pending
        /\ exec_pending' = FALSE /\ after_exec' = "IDLE" /\ Start("E0")
        /\ Tick /\ UNCHANGED <<resume_voice, hist>>
     \/ /\ ~exec_pending /\ pend_sample
        /\ pend_sample' = FALSE           \* a tick in this very clock is lost
        /\ Start("V0") /\ stepped' = {}
        /\ exec_pending' = BusExec /\ UNCHANGED <<where, loaded>>
     \/ /\ ~exec_pending /\ ~pend_sample
        /\ exec_pending' = BusExec /\ Tick /\ UNCHANGED <<state, where, eng_voice, hist>>
  /\ KeepLate /\ KeepState /\ UNCHANGED <<work, rom_req>>

(* The clocks that leave the walk as it is.                                *)
Walking == exec_pending' = BusExec /\ Tick /\ KeepState /\ UNCHANGED <<where, eng_voice, hist>>

V0 == state = "V0" /\ state' = "V1" /\ Walking /\ RestartLate /\ UNCHANGED <<work, rom_req>>

V1 == /\ state = "V1" /\ state' = "V2"
      /\ w_flags' = qb /\ w_flags_in' = qb /\ w_pos' = st_q
      /\ Walking /\ KeepLate /\ UNCHANGED <<w_busy, w_over, rom_req>>

V2 == /\ state = "V2" /\ state' = "V3"
      /\ w_busy' = w_flags["BUSY"]
      /\ w_over' \in (IF w_flags["BUSY"] THEN BOOLEAN ELSE {FALSE})
      /\ Walking /\ KeepLate /\ UNCHANGED <<w_flags, w_flags_in, w_pos, rom_req>>

V3 == /\ state = "V3"
      /\ state' = IF w_over THEN "FETCH" ELSE "V4"
      /\ rom_req' = w_over
      /\ Walking /\ KeepLate /\ UNCHANGED work

(* The sample ROM answers when it likes.                                   *)
FetchAck  == state = "FETCH" /\ state' = "V4" /\ rom_req' = FALSE /\ Walking /\ KeepLate /\ UNCHANGED work
FetchWait == state = "FETCH" /\ UNCHANGED <<state, rom_req>> /\ Walking /\ KeepLate /\ UNCHANGED work

V4 == /\ state = "V4" /\ state' = "MIX"
      /\ \/ ~w_over /\ UNCHANGED <<w_pos, w_flags>>
         \/ w_over /\ w_pos < End /\ w_pos' = w_pos + 1 /\ UNCHANGED w_flags
         \/ w_over /\ w_pos = End /\ w_pos' = 0 /\ UNCHANGED w_flags       \* the voice loops
         \/ /\ w_over /\ w_pos = End                                       \* the voice ends
            /\ w_flags' = [w_flags EXCEPT !["KEYOFF"] = TRUE, !["BUSY"] = FALSE]
            /\ UNCHANGED w_pos
      /\ Walking /\ KeepLate /\ UNCHANGED <<w_flags_in, w_busy, w_over, rom_req>>

Mix == state = "MIX" /\ state' = "DONE" /\ Walking /\ KeepLate /\ UNCHANGED <<work, rom_req>>

Done ==
  /\ state = "DONE"
  /\ st_we' = TRUE /\ st_wa' = eng_voice /\ st_wd' = w_pos
  /\ stepped' = stepped \cup {eng_voice}
  /\ loaded' = [loaded EXCEPT ![eng_voice] = FALSE]
  /\ \/ /\ AtLast
        /\ state' = "IDLE" /\ exec_pending' = BusExec /\ UNCHANGED <<where, eng_voice>>
     \/ /\ ~AtLast /\ exec_pending
        /\ exec_pending' = FALSE /\ resume_voice' = Resume /\ after_exec' = "V0" /\ Start("E0")
     \/ /\ ~AtLast /\ ~exec_pending
        /\ eng_voice' = eng_voice + 1 /\ state' = "V0"
        /\ exec_pending' = BusExec /\ UNCHANGED where
  /\ Tick /\ KeepLate /\ UNCHANGED <<work, rom_req>>

E0 == state = "E0" /\ state' = "E1" /\ Walking /\ RestartLate /\ UNCHANGED <<work, rom_req>>

E1 == /\ state = "E1" /\ state' = "E2"
      /\ w_flags' = qb /\ w_flags_in' = qb /\ w_pos' = st_q
      /\ Walking /\ KeepLate /\ UNCHANGED <<w_busy, w_over, rom_req>>

E2 ==
  /\ state = "E2"
  /\ IF Executed
       THEN /\ st_we' = TRUE /\ st_wa' = eng_voice
            /\ st_wd' = ExecPos
       ELSE KeepState
  /\ loaded' = IF snap_on[eng_voice] THEN [loaded EXCEPT ![eng_voice] = TRUE] ELSE loaded
  /\ IF AtLast
       THEN eng_voice' = (IF after_exec = "V0" THEN resume_voice ELSE 0) /\ state' = after_exec
       ELSE eng_voice' = eng_voice + 1 /\ state' = "E0"
  /\ exec_pending' = BusExec /\ Tick /\ KeepLate /\ UNCHANGED <<where, work, rom_req, stepped>>

Rewritten == {v \in Voice : (cpu_flags_wr /\ bus.voice = v) \/ (eng_flags_we /\ eng_voice = v)}

Walk == /\ ~reset /\ Mirrors /\ Snapshots /\ stale' = stale \ Rewritten
        /\ (Idle \/ V0 \/ V1 \/ V2 \/ V3 \/ FetchAck \/ FetchWait \/ V4 \/ Mix \/ Done \/ E0 \/ E1 \/ E2)

(* Under reset the registers are cleared; what this clock writes to the    *)
(* RAMs, the CPU's word or the engine's, is written all the same.          *)
Cleared ==
  /\ reset
  /\ st_we' = FALSE /\ st_wa' = 0 /\ st_wd' = 0
  /\ state' = "IDLE" /\ after_exec' = "IDLE" /\ resume_voice' = 0 /\ eng_voice' = 0
  /\ on_v' = None /\ off_v' = None /\ snap_on' = None /\ snap_off' = None
  /\ exec_pending' = FALSE /\ pend_sample' = FALSE /\ rom_req' = FALSE
  /\ w_flags' = NoFlags /\ w_flags_in' = NoFlags /\ w_pos' = 0 /\ w_busy' = FALSE /\ w_over' = FALSE
  /\ late_v' = FALSE /\ late_f' = NoFlags
  /\ stepped' = {} /\ UNCHANGED loaded /\ stale' = Voice

Engine == Rams /\ (Walk \/ Cleared)

-----------------------------------------------------------------------------
(* The CPU's next strobe.  It does not execute again while an execute is   *)
(* waiting or walking (see the README), and QuietStates restrains it in    *)
(* the runs that ask what holds when the engine's latch clocks are spared. *)
Executing  == exec_pending \/ exec_write \/ state \in {"E0", "E1", "E2"}
Spared(op) == op.kind = "flags" /\ op.voice = eng_voice' => state' \notin QuietStates

Cpu == \/ bus' = Quiet /\ UNCHANGED written
       \/ /\ ~h8_reset /\ written < CpuWrites /\ written' = written + 1
          /\ bus' \in Bus \ {Quiet}
          /\ bus'.kind = "exec" => ~Executing
          /\ Spared(bus')

(* The machine's reset, held as long as it likes.  The H8's is a register  *)
(* behind it: in the first clock of a reset the H8 still runs.             *)
ResetWire == /\ h8_reset' = reset
             /\ \/ reset' = FALSE /\ UNCHANGED resets
                \/ reset /\ reset' = TRUE /\ UNCHANGED resets
                \/ ~reset /\ reset' = TRUE /\ resets < Resets /\ resets' = resets + 1

Next == Engine /\ Cpu /\ ResetWire

Spec == Init /\ [][Next]_vars

(* The clock runs, a reset ends and the sample ROM answers; the CPU need   *)
(* not write.                                                              *)
Clock == Engine /\ bus' = Quiet /\ UNCHANGED written /\ ResetWire /\ ~reset'
FairSpec == Spec /\ WF_vars(Clock) /\ WF_vars(Clock /\ FetchAck)

-----------------------------------------------------------------------------
(* Every register keeps to its range, and on_v and off_v are the KEYON and  *)
(* KEYOFF bits of the flags RAM, whoever wrote them last, so a snapshot is *)
(* what the CPU wrote (c352.sv 23-25).  A word that is older than the last *)
(* reset has no key, whatever its bits: the reset clears the mirrors and   *)
(* not the RAM.                                                            *)
MirrorsExact ==
  /\ TypeOK
  /\ \A v \in Voice \ stale : on_v[v] = flags[v]["KEYON"] /\ off_v[v] = flags[v]["KEYOFF"]
  /\ \A v \in stale : ~on_v[v] /\ ~off_v[v]

CpuWrote(v)   == cpu_flags_wr /\ bus.voice = v
KeyedOn(v)    == state = "E2" /\ eng_voice = v /\ snap_on[v]
KeyedOff(v)   == state = "E2" /\ eng_voice = v /\ snap_off[v]
VoiceEnded(v) == state = "DONE" /\ eng_voice = v /\ w_flags["KEYOFF"] # w_flags_in["KEYOFF"]

(* A key bit changes only when the CPU writes the word, the execute serves *)
(* it, or the voice ends: the engine's write-back merges, it never undoes  *)
(* a CPU write (c352.sv 20-23).                                            *)
KeyBitsKept ==
  [][\A v \in Voice :
       /\ flags'[v]["KEYON"] # flags[v]["KEYON"] => CpuWrote(v) \/ KeyedOn(v)
       /\ flags'[v]["KEYOFF"] # flags[v]["KEYOFF"] => CpuWrote(v) \/ KeyedOff(v) \/ VoiceEnded(v)]_vars

(* Every sample steps every voice once, in order, however many executes    *)
(* interrupt the walk.                                                     *)
EachVoiceOnce == state = "DONE" => stepped = 0 .. eng_voice - 1

(* A voice that an execute keyed on plays from the start of its sound: the *)
(* first step after the key-on works on the loaded position, never on the  *)
(* one before it (tools/c352_model.py, execute).                           *)
KeyOnFromStart == state = "DONE" /\ w_busy /\ loaded[eng_voice] => w_pos \in {0, 1}

(* The same, of every voice but the last.                                  *)
KeyOnFromStartBelowLast == eng_voice # Last => KeyOnFromStart

(* An execute reaches every voice whose key bit was set when it was        *)
(* issued, unless a reset comes.                                           *)
ExecuteReaches == \A v \in Voice : (exec_write /\ on_v[v]) ~> (KeyedOn(v) \/ reset)
=============================================================================
