------------------------------ MODULE RomCache ------------------------------
(***************************************************************************)
(* rtl/rom_cache.sv: the direct-mapped read-only cache in front of each    *)
(* program ROM, with the CPU that asks it and the SDRAM port that fills    *)
(* it.                                                                     *)
(*                                                                         *)
(* One step is one clock of the 96 MHz system clock.  Every register is    *)
(* read before the edge (unprimed) and written by it (primed), and the     *)
(* three partners move in the same step:                                   *)
(*   the cache   one action per state of `st', and Reset;                  *)
(*   the CPU     a level request that stands until the ack; it may also    *)
(*               vanish at any clock (the cuskey register puts the H8 into *)
(*               reset in the middle of an access, ncv1_core.sv, and the   *)
(*               cache is not told);                                       *)
(*   the memory  answers one clock after it chooses to; an access whose    *)
(*               request was dropped by a reset is answered all the same,  *)
(*               and the shared data bus carries anything at other times.  *)
(* While `reset' stands the loader may rewrite the ROM image.              *)
(***************************************************************************)
EXTENDS Naturals

CONSTANTS
  Tags,       (* the upper address bits                                    *)
  Tag0,       (* the one that is all zeros                                 *)
  NoTag,      (* a tag_ram entry whose valid bit is 0                      *)
  Lines,      (* the number of cache lines, 2^IDX_BITS                     *)
  Words,      (* the contents of a 16-bit word                             *)
  Word0       (* the one that is zero                                      *)

ASSUME LinesAssumption == Lines \in Nat \ {0}
ASSUME WordsAssumption == Word0 \in Words

ASSUME TagsAssumption == Tag0 \in Tags /\ NoTag \notin Tags

Index == 0 .. Lines - 1
Addr  == Tags \X Index              \* <<tag, idx>>, cpu_addr split as in the source
Addr0 == <<Tag0, 0>>
NoAddr == <<>>                      \* the memory is at rest

TagOf(a) == a[1]
IdxOf(a) == a[2]

States == {"FLUSH", "IDLE", "LOOK", "MISS", "DONE"}

VARIABLES
  reset, rom,                                       \* the board: core reset, the ROM image
  cpu_req, cpu_addr,                                \* the CPU's outputs
  cpu_ack, cpu_q,                                   \* the cache's answer
  st, fill_idx, fill_tag, fill_we, fill_data,       \* the cache's registers
  tag_ram, data_ram, tag_q, data_q,                 \* its two RAMs and their output registers
  rom_req, rom_addr,                                \* the request to the memory
  mem, rom_ack, rom_q                               \* the access under way there, its answer

board  == <<reset, rom>>
cpu    == <<cpu_req, cpu_addr>>
answer == <<cpu_ack, cpu_q>>
target == <<fill_idx, fill_tag>>
port   == <<rom_req, rom_addr>>
memory == <<mem, rom_ack, rom_q>>
vars == <<board, cpu, answer, st, target, fill_we, fill_data, tag_ram, data_ram, tag_q, data_q, port, memory>>

TypeOK ==
  /\ reset \in BOOLEAN /\ rom \in [Addr -> Words]
  /\ cpu_req \in BOOLEAN /\ cpu_addr \in Addr
  /\ cpu_ack \in BOOLEAN /\ cpu_q \in Words
  /\ st \in States
  /\ fill_idx \in Index /\ fill_tag \in Tags /\ fill_we \in BOOLEAN /\ fill_data \in Words
  /\ tag_ram \in [Index -> Tags \cup {NoTag}] /\ data_ram \in [Index -> Words]
  /\ tag_q \in Tags \cup {NoTag} /\ data_q \in Words
  /\ rom_req \in BOOLEAN /\ rom_addr \in Addr
  /\ mem \in Addr \cup {NoAddr} /\ rom_ack \in BOOLEAN /\ rom_q \in Words

(* Power-up, one clock into reset: the RAMs hold anything.                *)
Init ==
  /\ reset = TRUE /\ rom \in [Addr -> Words]
  /\ cpu_req = FALSE /\ cpu_addr \in Addr
  /\ cpu_ack = FALSE /\ cpu_q = Word0
  /\ st = "FLUSH"
  /\ fill_idx = 0 /\ fill_tag = Tag0 /\ fill_we = FALSE /\ fill_data = Word0
  /\ tag_ram \in [Index -> Tags \cup {NoTag}] /\ data_ram \in [Index -> Words]
  /\ tag_q = tag_ram[IdxOf(cpu_addr)] /\ data_q = data_ram[IdxOf(cpu_addr)]
  /\ rom_req = FALSE /\ rom_addr = Addr0
  /\ mem = NoAddr /\ rom_ack = FALSE /\ rom_q = Word0

-----------------------------------------------------------------------------
(* The arrays: registered reads at the CPU's index, and one writer each.   *)
Arrays ==
  /\ tag_q'  = tag_ram[IdxOf(cpu_addr)]
  /\ data_q' = data_ram[IdxOf(cpu_addr)]
  /\ tag_ram' = IF st = "FLUSH" THEN [tag_ram EXCEPT ![fill_idx] = NoTag]
                ELSE IF fill_we THEN [tag_ram EXCEPT ![fill_idx] = fill_tag]
                ELSE tag_ram
  /\ data_ram' = IF fill_we THEN [data_ram EXCEPT ![fill_idx] = fill_data] ELSE data_ram

(* A clock that writes no line: fill_we falls back to 0 by default.        *)
NoFill == fill_we' = FALSE /\ UNCHANGED fill_data

Reset ==
  /\ reset
  /\ st' = "FLUSH" /\ fill_idx' = 0
  /\ rom_req' = FALSE /\ cpu_ack' = FALSE /\ fill_we' = FALSE
  /\ rom_addr' = Addr0 /\ cpu_q' = Word0 /\ fill_tag' = Tag0 /\ fill_data' = Word0

(* Fault variants stand before the action they distort; no specification   *)
(* uses them, and each breaks one of the properties below.                 *)
FlushSkipped ==    \* no walk: the lines of the last image stay valid
  /\ st = "FLUSH" /\ st' = "IDLE"
  /\ NoFill /\ UNCHANGED <<target, answer, port>>

Flush ==
  /\ st = "FLUSH"
  /\ fill_idx' = (fill_idx + 1) % Lines
  /\ st' = IF fill_idx = Lines - 1 THEN "IDLE" ELSE "FLUSH"
  /\ NoFill /\ UNCHANGED <<fill_tag, answer, port>>

Idle ==
  /\ st = "IDLE"
  /\ cpu_ack' = FALSE
  /\ IF cpu_req
       THEN /\ fill_idx' = IdxOf(cpu_addr) /\ fill_tag' = TagOf(cpu_addr)
            /\ rom_addr' = cpu_addr
            /\ st' = "LOOK"
       ELSE UNCHANGED <<target, rom_addr, st>>
  /\ NoFill /\ UNCHANGED <<cpu_q, rom_req>>

LookSilent ==      \* a miss forgets to ask the memory
  /\ st = "LOOK"
  /\ IF tag_q = fill_tag
       THEN cpu_q' = data_q /\ cpu_ack' = TRUE /\ st' = "DONE"
       ELSE st' = "MISS" /\ UNCHANGED answer
  /\ NoFill /\ UNCHANGED <<target, port>>

Look ==
  /\ st = "LOOK"
  /\ IF tag_q = fill_tag
       THEN /\ cpu_q' = data_q /\ cpu_ack' = TRUE /\ st' = "DONE"
            /\ UNCHANGED rom_req
       ELSE /\ rom_req' = TRUE /\ st' = "MISS"
            /\ UNCHANGED answer
  /\ NoFill /\ UNCHANGED <<target, rom_addr>>

MissTwice ==       \* the request to the memory is left standing
  /\ st = "MISS"
  /\ IF rom_ack
       THEN /\ fill_data' = rom_q /\ fill_we' = TRUE
            /\ cpu_q' = rom_q /\ cpu_ack' = TRUE /\ st' = "DONE"
       ELSE NoFill /\ UNCHANGED <<answer, st>>
  /\ UNCHANGED <<target, port>>

Miss ==
  /\ st = "MISS"
  /\ IF rom_ack
       THEN /\ fill_data' = rom_q /\ fill_we' = TRUE
            /\ cpu_q' = rom_q /\ cpu_ack' = TRUE
            /\ rom_req' = FALSE /\ st' = "DONE"
       ELSE NoFill /\ UNCHANGED <<answer, rom_req, st>>
  /\ UNCHANGED <<target, rom_addr>>

DonePulse ==       \* the ack is a pulse
  /\ st = "DONE" /\ cpu_ack' = FALSE
  /\ st' = IF cpu_req THEN "DONE" ELSE "IDLE"
  /\ NoFill /\ UNCHANGED <<cpu_q, target, port>>

Done ==
  /\ st = "DONE"
  /\ IF cpu_req THEN UNCHANGED <<cpu_ack, st>> ELSE cpu_ack' = FALSE /\ st' = "IDLE"
  /\ NoFill /\ UNCHANGED <<cpu_q, target, port>>

Cache == Arrays /\ (Reset \/ (~reset /\ (Flush \/ Idle \/ Look \/ Miss \/ Done)))

-----------------------------------------------------------------------------
(* The CPU: raises a request and holds it with its address to the ack.  A  *)
(* CPU put into reset drops its request at once, and comes back after the  *)
(* access has been answered: both resets are held far longer than an       *)
(* access takes (ncv1_core.sv, "held for thousands of clocks").            *)
HeldLongerThanAccess == st \in {"LOOK", "MISS"} => cpu_req

Raise == ~cpu_req /\ HeldLongerThanAccess /\ cpu_req' = TRUE /\ cpu_addr' \in Addr
Drop  == cpu_req /\ cpu_req' = FALSE /\ UNCHANGED cpu_addr   \* served, or put into reset
Cpu   == Raise \/ Drop \/ UNCHANGED cpu

(* The memory port of ncv1_mem.sv: it takes a standing request, once, and  *)
(* answers it with a one-clock ack.  An access that a reset abandoned is   *)
(* answered before the 2048-clock flush walk can end.                      *)
Drained == st = "FLUSH" /\ ~reset => mem = NoAddr

MemTake   == /\ rom_req /\ ~rom_ack /\ mem = NoAddr
             /\ mem' = rom_addr /\ rom_ack' = FALSE /\ rom_q' \in Words
MemAnswer == /\ mem # NoAddr
             /\ rom_ack' = TRUE /\ rom_q' = rom[mem] /\ mem' = NoAddr
MemWait   == /\ Drained
             /\ rom_ack' = FALSE /\ rom_q' \in Words /\ UNCHANGED mem
Memory == MemTake \/ MemAnswer \/ MemWait

(* The board: reset comes and goes; the loader writes only under reset.    *)
Board == /\ reset' \in BOOLEAN
         /\ rom' = rom \/ (reset /\ reset' /\ \E a \in Addr, w \in Words : rom' = [rom EXCEPT ![a] = w])

Next == Cache /\ Cpu /\ Memory /\ Board

Spec == Init /\ [][Next]_vars

(* The clock runs, and the SDRAM controller takes and answers what stands. *)
(* Nothing obliges the CPU to ask or to give up, or the board to reset.    *)
Clock == Cache /\ Memory /\ UNCHANGED <<cpu, board>>
Fairness == /\ WF_vars(Clock)
            /\ WF_vars(Clock /\ MemTake)
            /\ WF_vars(Clock /\ MemAnswer)
FairSpec == Spec /\ Fairness

-----------------------------------------------------------------------------
(* The word the CPU takes with the ack is the ROM's word at the address it *)
(* asks for, whether it came from a line or from the memory, and whatever  *)
(* the loader wrote and the CPU abandoned before.                          *)
AckedWord == cpu_ack /\ cpu_req /\ ~reset => cpu_q = rom[cpu_addr]

(* Once the flush walk is over, a valid line holds the word of the current *)
(* ROM image under its tag: no line survives a new image.                  *)
LinesCoherent ==
  ~reset /\ st # "FLUSH" =>
    \A i \in Index : tag_ram[i] # NoTag => data_ram[i] = rom[<<tag_ram[i], i>>]

(* The ack is a level: it does not fall under a CPU that has not sampled   *)
(* it yet and still holds its request (rom_cache.sv lines 7-9).            *)
AckHeld == [][cpu_ack /\ cpu_req /\ ~reset => cpu_ack']_vars

(* A request that stands is answered, once the resets have stopped.        *)
RequestServed == <>[]~reset => (cpu_req ~> (cpu_ack \/ ~cpu_req))
=============================================================================
