--------------------------- MODULE RomCacheProofs ---------------------------
(***************************************************************************)
(* RomCache keeps its promise for any number of lines, tags and words.     *)
(* The invariant follows the address of the access through the registers:  *)
(* where the cache is in its walk says what memory, arrays and CPU hold.   *)
(***************************************************************************)
EXTENDS RomCache, TLAPS

Target == <<fill_tag, fill_idx>>           \* the address of the access under way

(* The walk: it has cleared the lines below its counter.                   *)
Walked == st = "FLUSH" => \A i \in Index : i < fill_idx => tag_ram[i] = NoTag

(* Off the walk every valid line is the image's, whether reset stands yet  *)
(* or not: the image changes only once the cache is walking.               *)
Coherent == st # "FLUSH" => \A i \in Index : tag_ram[i] # NoTag => data_ram[i] = rom[<<tag_ram[i], i>>]

Looking   == st = "LOOK" => tag_q = tag_ram[fill_idx] /\ data_q = data_ram[fill_idx]
Addressed == /\ st \in {"LOOK", "MISS", "DONE"} /\ cpu_req => cpu_addr = Target
             /\ st \in {"LOOK", "MISS"} => rom_addr = Target
Filling   == fill_we => st = "DONE" /\ fill_data = rom[Target]
Answered  == /\ cpu_ack => st = "DONE"
             /\ st = "DONE" => cpu_q = rom[Target]

(* The memory works for this miss or, in the walk, for one that a reset    *)
(* abandoned; nothing of it is left when a new access looks.               *)
MemRight == /\ rom_req => st = "MISS"
            /\ rom_ack => mem = NoAddr
            /\ st \in {"IDLE", "LOOK", "DONE"} => mem = NoAddr
            /\ st = "LOOK" => ~rom_ack
            /\ st = "MISS" /\ mem # NoAddr => mem = Target
            /\ st = "MISS" /\ rom_ack => rom_q = rom[Target]

IInv == TypeOK /\ Walked /\ Coherent /\ Looking /\ Addressed /\ Filling /\ Answered /\ MemRight

-----------------------------------------------------------------------------
USE LinesAssumption, WordsAssumption, TagsAssumption

(* An address is the pair of its halves, and none of them is the rest mark *)
(* of the memory.                                                          *)
LEMMA AddrHalves ==
  ASSUME NEW a \in Addr
  PROVE  /\ TagOf(a) \in Tags /\ IdxOf(a) \in Index /\ a = <<TagOf(a), IdxOf(a)>>
         /\ a # NoAddr
BY DEF Addr, TagOf, IdxOf, NoAddr

LEMMA PairIsAddr ==
  ASSUME NEW t \in Tags, NEW i \in Index
  PROVE  <<t, i>> \in Addr
BY DEF Addr

(* Types: of every register in every step.                                 *)
LEMMA TypeInit == Init => TypeOK
<1>1. 0 \in Index /\ Addr0 \in Addr
  BY DEF Index, Addr, Addr0
<1>. QED
  BY <1>1, AddrHalves DEF Init, TypeOK, States

LEMMA TypeNext == TypeOK /\ [Next]_vars => TypeOK'
<1>. SUFFICES ASSUME TypeOK, [Next]_vars PROVE TypeOK'
  OBVIOUS
<1>0. 0 \in Index /\ Addr0 \in Addr /\ (fill_idx + 1) % Lines \in Index
  BY DEF TypeOK, Index, Addr, Addr0
<1>1. CASE UNCHANGED vars
  BY <1>1 DEF TypeOK, vars, board, cpu, answer, target, port, memory
<1>2. CASE Next
  <2>. USE <1>2
  <2>1. reset' \in BOOLEAN /\ rom' \in [Addr -> Words]
    BY DEF Next, Board, TypeOK
  <2>2. cpu_req' \in BOOLEAN /\ cpu_addr' \in Addr
    BY DEF Next, Cpu, Raise, Drop, cpu, TypeOK
  <2>3. mem' \in Addr \cup {NoAddr} /\ rom_ack' \in BOOLEAN /\ rom_q' \in Words
    BY DEF Next, Memory, MemTake, MemAnswer, MemWait, TypeOK
  <2>4. tag_ram' \in [Index -> Tags \cup {NoTag}] /\ data_ram' \in [Index -> Words]
    BY DEF Next, Cache, Arrays, TypeOK
  <2>5. tag_q' \in Tags \cup {NoTag} /\ data_q' \in Words
    BY AddrHalves DEF Next, Cache, Arrays, TypeOK
  <2>6. /\ cpu_ack' \in BOOLEAN /\ cpu_q' \in Words /\ st' \in States
        /\ fill_idx' \in Index /\ fill_tag' \in Tags /\ fill_we' \in BOOLEAN /\ fill_data' \in Words
        /\ rom_req' \in BOOLEAN /\ rom_addr' \in Addr
    <3>1. CASE Reset BY <3>1, <1>0 DEF Reset, TypeOK, States
    <3>2. CASE Flush BY <3>2, <1>0 DEF Flush, NoFill, answer, port, TypeOK, States
    <3>3. CASE Idle BY <3>3, AddrHalves DEF Idle, NoFill, target, TypeOK, States
    <3>4. CASE Look BY <3>4 DEF Look, NoFill, answer, target, TypeOK, States
    <3>5. CASE Miss BY <3>5 DEF Miss, NoFill, answer, target, TypeOK, States
    <3>6. CASE Done BY <3>6 DEF Done, NoFill, target, port, TypeOK, States
    <3>. QED BY <3>1, <3>2, <3>3, <3>4, <3>5, <3>6 DEF Next, Cache
  <2>. QED BY <2>1, <2>2, <2>3, <2>4, <2>5, <2>6 DEF TypeOK
<1>. QED BY <1>1, <1>2

(* The types hold: every register keeps to its range in every behaviour.   *)
THEOREM TypeCorrect == Spec => []TypeOK
<1>. QED BY TypeInit, TypeNext, PTL DEF Spec

-----------------------------------------------------------------------------
(* The invariant, step by step: one lemma for the clocks under reset, one  *)
(* for each state of the cache.                                            *)
LEMMA InvInit == Init => IInv
<1>. SUFFICES ASSUME Init PROVE IInv
  OBVIOUS
<1>1. TypeOK
  BY TypeInit
<1>. QED
  BY <1>1 DEF Init, IInv, Walked, Coherent, Looking, Addressed, Filling, Answered, MemRight, Index

LEMMA ResetStep == IInv /\ TypeOK' /\ Next /\ Reset => IInv'
<1>. SUFFICES ASSUME IInv, TypeOK', Next, Reset PROVE IInv'
  OBVIOUS
<1>1. st' = "FLUSH" /\ fill_idx' = 0 /\ ~rom_req' /\ ~cpu_ack' /\ ~fill_we'
  BY DEF Reset
<1>2. Walked'
  BY <1>1 DEF Walked, Index
<1>3. rom_ack' => mem' = NoAddr
  BY DEF Next, Memory, MemTake, MemAnswer, MemWait
<1>. QED
  BY <1>1, <1>2, <1>3
  DEF IInv, Coherent, Looking, Addressed, Filling, Answered, MemRight

LEMMA FlushStep == IInv /\ TypeOK' /\ Next /\ ~reset /\ Flush => IInv'
<1>. SUFFICES ASSUME IInv, TypeOK', Next, ~reset, Flush PROVE IInv'
  OBVIOUS
<1>0. /\ st = "FLUSH" /\ ~fill_we /\ ~cpu_ack /\ ~rom_req
      /\ fill_idx \in Index /\ tag_ram \in [Index -> Tags \cup {NoTag}]
  BY DEF Flush, IInv, TypeOK, Filling, Answered, MemRight
<1>1. /\ tag_ram' = [tag_ram EXCEPT ![fill_idx] = NoTag]
      /\ \A i \in Index : i < fill_idx => tag_ram[i] = NoTag
  BY <1>0 DEF Next, Cache, Arrays, IInv, Walked
<1>2. CASE fill_idx = Lines - 1
  <2>1. \A i \in Index : tag_ram'[i] = NoTag
    BY <1>0, <1>1, <1>2 DEF Index
  <2>2. st' = "IDLE"
    BY <1>2 DEF Flush
  <2>. QED
    BY <1>0, <2>1, <2>2
    DEF IInv, Walked, Coherent, Looking, Addressed, Filling, Answered, MemRight,
        Flush, NoFill, answer, port, Next, Memory, MemTake, MemAnswer, MemWait, Drained
<1>3. CASE fill_idx # Lines - 1
  <2>1. fill_idx' = fill_idx + 1
    BY <1>0, <1>3 DEF Flush, Index
  <2>2. \A i \in Index : i < fill_idx' => tag_ram'[i] = NoTag
    BY <1>0, <1>1, <2>1 DEF Index
  <2>3. st' = "FLUSH"
    BY <1>3 DEF Flush
  <2>. QED
    BY <1>0, <2>2, <2>3
    DEF IInv, Walked, Coherent, Looking, Addressed, Filling, Answered, MemRight,
        Flush, NoFill, answer, port, Next, Memory, MemTake, MemAnswer, MemWait
<1>. QED BY <1>2, <1>3

(* Off the walk and out of reset the image stands still, the arrays change *)
(* only by the fill, and the fill writes a right word under its tag.       *)
LEMMA ArraysStep ==
  ASSUME IInv, TypeOK', Next, ~reset, st # "FLUSH"
  PROVE  /\ rom' = rom
         /\ fill_we \/ (tag_ram' = tag_ram /\ data_ram' = data_ram)
         /\ \A i \in Index : tag_ram'[i] # NoTag => data_ram'[i] = rom'[<<tag_ram'[i], i>>]
<1>1. rom' = rom
  BY DEF Next, Board
<1>2. CASE ~fill_we
  BY <1>1, <1>2 DEF Next, Cache, Arrays, IInv, Coherent
<1>3. CASE fill_we
  <2>1. /\ tag_ram' = [tag_ram EXCEPT ![fill_idx] = fill_tag]
        /\ data_ram' = [data_ram EXCEPT ![fill_idx] = fill_data]
        /\ fill_data = rom[<<fill_tag, fill_idx>>]
    BY <1>3 DEF Next, Cache, Arrays, IInv, Filling, Target
  <2>. QED
    BY <1>1, <1>3, <2>1 DEF IInv, Coherent, TypeOK
<1>. QED BY <1>1, <1>2, <1>3

LEMMA IdleStep == IInv /\ TypeOK' /\ Next /\ ~reset /\ Idle => IInv'
<1>. SUFFICES ASSUME IInv, TypeOK', Next, ~reset, Idle PROVE IInv'
  OBVIOUS
<1>0. /\ st = "IDLE" /\ ~fill_we /\ ~rom_req /\ mem = NoAddr
      /\ ~cpu_ack' /\ ~fill_we' /\ ~rom_req' /\ mem' = NoAddr /\ ~rom_ack'
  BY DEF Idle, NoFill, IInv, TypeOK, Filling, MemRight, Next, Memory, MemTake, MemAnswer, MemWait
<1>1. Coherent'
  BY <1>0, ArraysStep DEF Coherent
<1>2. CASE ~cpu_req
  BY <1>0, <1>1, <1>2
  DEF Idle, IInv, Walked, Looking, Addressed, Filling, Answered, MemRight, target
<1>3. CASE cpu_req
  <2>1. /\ st' = "LOOK" /\ rom_addr' = cpu_addr
        /\ fill_idx' = IdxOf(cpu_addr) /\ fill_tag' = TagOf(cpu_addr)
    BY <1>3 DEF Idle
  <2>2. Target' = cpu_addr
    BY <2>1, AddrHalves DEF Target, IInv, TypeOK
  <2>3. tag_q' = tag_ram'[fill_idx'] /\ data_q' = data_ram'[fill_idx']
    BY <1>0, <2>1, ArraysStep DEF Next, Cache, Arrays
  <2>4. cpu_req' => cpu_addr' = cpu_addr
    BY <1>3 DEF Next, Cpu, Raise, Drop, cpu
  <2>. QED
    BY <1>0, <1>1, <2>1, <2>2, <2>3, <2>4
    DEF IInv, Walked, Looking, Addressed, Filling, Answered, MemRight
<1>. QED BY <1>2, <1>3

LEMMA LookStep == IInv /\ TypeOK' /\ Next /\ ~reset /\ Look => IInv'
<1>. SUFFICES ASSUME IInv, TypeOK', Next, ~reset, Look PROVE IInv'
  OBVIOUS
<1>0. /\ st = "LOOK" /\ ~fill_we /\ ~rom_req /\ ~cpu_ack /\ mem = NoAddr /\ ~rom_ack
      /\ ~fill_we' /\ mem' = NoAddr /\ ~rom_ack'
      /\ fill_idx' = fill_idx /\ fill_tag' = fill_tag /\ rom_addr' = rom_addr
      /\ st' \in {"DONE", "MISS"}
  BY DEF Look, NoFill, target, IInv, TypeOK, Filling, Answered, MemRight,
         Next, Memory, MemTake, MemAnswer, MemWait
<1>1. Coherent' /\ rom' = rom
  BY <1>0, ArraysStep DEF Coherent
<1>2. cpu_req' => cpu_req /\ cpu_addr' = cpu_addr
  BY <1>0 DEF Next, Cpu, Raise, Drop, cpu, HeldLongerThanAccess
<1>3. Target' = Target
  BY <1>0 DEF Target
<1>4. Addressed'
  BY <1>0, <1>2, <1>3 DEF IInv, Addressed
<1>5. Answered' /\ (rom_req' => st' = "MISS")
  <2>1. CASE tag_q = fill_tag
    <3>1. data_q = rom[Target]
      BY <1>0, <2>1 DEF IInv, TypeOK, Looking, Coherent, Target
    <3>. QED
      BY <1>0, <1>1, <1>3, <2>1, <3>1 DEF Look, Answered
  <2>2. CASE tag_q # fill_tag
    BY <1>0, <2>2 DEF Look, Answered, answer
  <2>. QED BY <2>1, <2>2
<1>. QED
  BY <1>0, <1>1, <1>4, <1>5 DEF IInv, Walked, Looking, Filling, MemRight

LEMMA MissStep == IInv /\ TypeOK' /\ Next /\ ~reset /\ Miss => IInv'
<1>. SUFFICES ASSUME IInv, TypeOK', Next, ~reset, Miss PROVE IInv'
  OBVIOUS
<1>0. /\ st = "MISS" /\ ~fill_we /\ ~cpu_ack
      /\ fill_idx' = fill_idx /\ fill_tag' = fill_tag /\ rom_addr' = rom_addr
      /\ st' \in {"DONE", "MISS"}
      /\ rom_addr = Target
  BY DEF Miss, target, IInv, TypeOK, Filling, Answered, Addressed
<1>1. Coherent' /\ rom' = rom
  BY <1>0, ArraysStep DEF Coherent
<1>2. cpu_req' => cpu_req /\ cpu_addr' = cpu_addr
  BY <1>0 DEF Next, Cpu, Raise, Drop, cpu, HeldLongerThanAccess
<1>3. Target' = Target
  BY <1>0 DEF Target
<1>4. Addressed'
  BY <1>0, <1>2, <1>3 DEF IInv, Addressed
<1>5. CASE rom_ack
  <2>1. /\ st' = "DONE" /\ cpu_q' = rom_q /\ fill_data' = rom_q /\ ~rom_req'
        /\ rom_q = rom[Target] /\ mem = NoAddr
    BY <1>0, <1>5 DEF Miss, IInv, MemRight
  <2>2. mem' = NoAddr /\ ~rom_ack'
    BY <1>5, <2>1 DEF Next, Memory, MemTake, MemAnswer, MemWait
  <2>. QED
    BY <1>1, <1>3, <1>4, <2>1, <2>2 DEF IInv, Walked, Looking, Filling, Answered, MemRight
<1>6. CASE ~rom_ack
  <2>1. st' = "MISS" /\ ~fill_we' /\ ~cpu_ack'
    BY <1>0, <1>6 DEF Miss, NoFill, answer
  <2>2. /\ rom_ack' => mem' = NoAddr /\ rom_q' = rom'[Target']
        /\ mem' # NoAddr => mem' = Target'
    BY <1>0, <1>1, <1>3 DEF Next, Memory, MemTake, MemAnswer, MemWait, IInv, MemRight
  <2>. QED
    BY <1>1, <1>4, <2>1, <2>2 DEF IInv, Walked, Looking, Filling, Answered, MemRight
<1>. QED BY <1>5, <1>6

LEMMA DoneStep == IInv /\ TypeOK' /\ Next /\ ~reset /\ Done => IInv'
<1>. SUFFICES ASSUME IInv, TypeOK', Next, ~reset, Done PROVE IInv'
  OBVIOUS
<1>0. /\ st = "DONE" /\ ~rom_req /\ mem = NoAddr
      /\ ~fill_we' /\ ~rom_req' /\ mem' = NoAddr /\ ~rom_ack'
      /\ fill_idx' = fill_idx /\ fill_tag' = fill_tag /\ cpu_q' = cpu_q
  BY DEF Done, NoFill, target, port, IInv, MemRight, TypeOK, Next, Memory, MemTake, MemAnswer, MemWait
<1>1. Coherent' /\ rom' = rom /\ Target' = Target
  BY <1>0, ArraysStep DEF Coherent, Target
<1>2. CASE cpu_req
  <2>1. cpu_req' => cpu_addr' = cpu_addr
    BY <1>2 DEF Next, Cpu, Raise, Drop, cpu
  <2>. QED
    BY <1>0, <1>1, <1>2, <2>1
    DEF Done, IInv, Walked, Looking, Addressed, Filling, Answered, MemRight
<1>3. CASE ~cpu_req
  BY <1>0, <1>1, <1>3
  DEF Done, IInv, Walked, Looking, Addressed, Filling, Answered, MemRight
<1>. QED BY <1>2, <1>3

LEMMA InvNext == IInv /\ [Next]_vars => IInv'
<1>. SUFFICES ASSUME IInv, [Next]_vars PROVE IInv'
  OBVIOUS
<1>1. TypeOK'
  BY TypeNext DEF IInv
<1>2. CASE UNCHANGED vars
  BY <1>1, <1>2
  DEF vars, board, cpu, answer, target, port, memory, IInv, Walked, Coherent, Looking, Addressed,
      Filling, Answered, MemRight, Target
<1>3. CASE Next
  BY <1>1, <1>3, ResetStep, FlushStep, IdleStep, LookStep, MissStep, DoneStep DEF Next, Cache
<1>. QED BY <1>2, <1>3

THEOREM InvCorrect == Spec => []IInv
<1>. QED BY InvInit, InvNext, PTL DEF Spec

(* The CPU takes the right word, whatever the size of the cache.           *)
THEOREM AckedWordCorrect == Spec => []AckedWord
<1>1. IInv => AckedWord
  BY DEF IInv, Answered, Addressed, AckedWord
<1>. QED BY <1>1, InvCorrect, PTL

(* No line of an earlier image is ever valid after the walk.               *)
THEOREM LinesCoherentCorrect == Spec => []LinesCoherent
<1>1. IInv => LinesCoherent
  BY DEF IInv, Coherent, LinesCoherent
<1>. QED BY <1>1, InvCorrect, PTL

(* The ack outlasts the CPU's request.                                     *)
THEOREM AckHeldCorrect == Spec => AckHeld
<1>1. IInv /\ [Next]_vars => [cpu_ack /\ cpu_req /\ ~reset => cpu_ack']_vars
  <2>. SUFFICES ASSUME IInv, Next, cpu_ack, cpu_req, ~reset PROVE cpu_ack'
    OBVIOUS
  <2>1. st = "DONE"
    BY DEF IInv, Answered
  <2>. QED
    BY <2>1 DEF Next, Cache, Reset, Flush, Idle, Look, Miss, Done
<1>. QED BY <1>1, InvCorrect, PTL DEF Spec, AckHeld
=============================================================================
