------------------------------- MODULE H8Core -------------------------------
(***************************************************************************)
(* rtl/h8300h.sv: the sequencer of the H8/300H core and the wrapper that    *)
(* runs on every clock around it.                                           *)
(*                                                                         *)
(* The core moves only on its enable `cen', several clocks apart; the       *)
(* wrapper turns its toggles into bus requests, keeps the answer, divides   *)
(* one bit per clock and turns the interrupt toggle into a pulse.  An       *)
(* instruction is abstracted to the states it spends: the words it          *)
(* fetches, its bus accesses, its internal waits, and whether it writes     *)
(* the I bit of CCR.  Register contents, flags and addresses' arithmetic    *)
(* are left out; which address an access goes to is free.                   *)
(*                                                                         *)
(* This module holds the two halves' steps; H8Sub clocks them together      *)
(* with the chip and the board around them.                                 *)
(***************************************************************************)
EXTENDS Naturals, Sequences

CONSTANTS
  Addr,        (* bus addresses                                            *)
  Rom,         (* the ones instructions, and vectors, are read from        *)
  Writable,    (* the addresses the program writes to                      *)
  Classes,     (* the instruction classes the program uses                 *)
  NoWord,      (* a register that holds no word read from the bus          *)
  DivClocks,   (* the divider's clocks, 32                                 *)
  DivStates    (* the states a division waits for it, 12                   *)

ASSUME RomAssumption == Rom \subseteq Addr /\ Writable \subseteq Addr /\ NoWord \notin Addr
ASSUME DivAssumption == DivClocks \in Nat \ {0} /\ DivStates \in Nat \ {0}

(* What one state's continuation does next.                                *)
Word     == [op |-> "word"]               \* one more word from the program: code, or a vector
Rd       == [op |-> "read"]
Wr       == [op |-> "write"]
Wait(n)  == [op |-> "wait", n |-> n]      \* n internal states
SetCcr   == [op |-> "ccr"]                \* LDC, ANDC, ORC, XORC: CCR, then the boundary
PopCcr   == [op |-> "popccr"]             \* RTE: CCR, then two states
Trap     == [op |-> "trap"]               \* TRAPA: its vector, then two states
Mask     == [op |-> "mask"]               \* entry ends: I set, no interrupt next, two states
Divide   == [op |-> "divide"]             \* start the divider and wait for it
Quotient == [op |-> "quotient"]           \* use its result
Copy     == [op |-> "copy"]               \* EEPMOV: another byte, or done
Doze     == [op |-> "sleep"]
Decode   == [op |-> "decode"]             \* the first word has arrived
Release  == [op |-> "release"]            \* the reset vector has arrived
Micro == {Word, Rd, Wr, Wait(2), SetCcr, PopCcr, Trap, Mask, Divide, Quotient, Copy, Doze, Decode, Release}

(* Interrupt and trap entry: push twice, read the vector, mask.            *)
Entry == <<Wr, Wr, Word, Word, Mask>>

Body == [
  alu    |-> <<>>,
  alu2   |-> <<Word>>,
  ldc    |-> <<SetCcr>>,
  ldcm   |-> <<Word, Rd, SetCcr>>,
  load   |-> <<Rd>>,
  store  |-> <<Wr>>,
  loadl  |-> <<Word, Rd, Rd>>,
  bitmem |-> <<Word, Rd, Wr>>,
  branch |-> <<Wait(2)>>,
  jump   |-> <<Word, Wait(2)>>,
  call   |-> <<Wait(2), Wr, Wr>>,
  return |-> <<Wait(2), Rd, Rd, Wait(2)>>,
  rte    |-> <<Wait(2), Rd, Rd, PopCcr>>,
  trapa  |-> <<Trap>> \o Entry,
  eepmov |-> <<Word, Copy>>,
  divide |-> <<Divide, Quotient>>,
  sleep  |-> <<Doze>> ]

ASSUME ClassesAssumption == Classes \subseteq DOMAIN Body

VARIABLES
  \* h8300h_core
  state, todo, cls, wait_n, bus_cnt, bus_done, mdata, irq_vector, noirq, ccr_i,
  cur_vec, nreq, req_tog, irq_ack_tog, irq_ack_vector, dv_tog,
  \* h8300h
  bus, w_done, w_mdata, req_tog_d, irq_ack_tog_d, dv_tog_d, div_cnt

sampled == <<bus_done, mdata, irq_vector>>
request == <<nreq, req_tog, bus_cnt>>
taken   == <<irq_ack_tog, irq_ack_vector, cur_vec>>
core    == <<state, todo, cls, wait_n, sampled, noirq, ccr_i, request, taken, dv_tog>>
wrapper == <<bus, w_done, w_mdata, req_tog_d, irq_ack_tog_d, dv_tog_d, div_cnt>>

Data    == Addr \cup {NoWord}           \* a word read is named by where it was read from
Vectors == {0, 8, 17, 24}              \* none, TRAPA, IRQ5, a timer

Request == [a : Data, rd : BOOLEAN, wr : BOOLEAN]
NoRequest == [a |-> NoWord, rd |-> FALSE, wr |-> FALSE]

CoreTypeOK ==
  /\ state \in {"RESET0", "FETCH", "BUS", "WAIT", "SLEEP"}
  /\ todo \in Seq(Micro) /\ cls \in Classes \cup {"none"}
  /\ wait_n \in Nat /\ bus_cnt \in BOOLEAN
  /\ bus_done \in BOOLEAN /\ mdata \in Data /\ irq_vector \in Vectors
  /\ noirq \in BOOLEAN /\ ccr_i \in BOOLEAN
  /\ nreq \in Request /\ req_tog \in BOOLEAN
  /\ irq_ack_tog \in BOOLEAN /\ irq_ack_vector \in Vectors /\ cur_vec \in Vectors /\ dv_tog \in BOOLEAN
  /\ bus \in Request /\ w_done \in BOOLEAN /\ w_mdata \in Data
  /\ req_tog_d \in BOOLEAN /\ irq_ack_tog_d \in BOOLEAN /\ dv_tog_d \in BOOLEAN
  /\ div_cnt \in 0 .. DivClocks

CoreInit ==
  /\ state = "RESET0" /\ todo = <<>> /\ cls = "none" /\ wait_n = 0 /\ bus_cnt = FALSE
  /\ bus_done = FALSE /\ mdata = NoWord /\ irq_vector = 0
  /\ noirq = FALSE /\ ccr_i = TRUE
  /\ nreq = NoRequest /\ req_tog = FALSE
  /\ irq_ack_tog = FALSE /\ irq_ack_vector = 0 /\ cur_vec = 0 /\ dv_tog = FALSE

CoreReset ==
  /\ state' = "RESET0" /\ todo' = <<>> /\ cls' = "none" /\ wait_n' = 0 /\ bus_cnt' = FALSE
  /\ bus_done' = FALSE /\ mdata' = NoWord /\ irq_vector' = 0
  /\ noirq' = FALSE /\ ccr_i' = TRUE
  /\ nreq' = NoRequest /\ req_tog' = FALSE
  /\ irq_ack_tog' = FALSE /\ irq_ack_vector' = 0 /\ cur_vec' = 0 /\ dv_tog' = FALSE

WrapperInit ==
  /\ bus = NoRequest /\ w_done = FALSE /\ w_mdata = NoWord
  /\ req_tog_d = FALSE /\ irq_ack_tog_d = FALSE /\ dv_tog_d = FALSE /\ div_cnt = 0

WrapperReset ==
  /\ bus' = NoRequest /\ w_done' = FALSE /\ w_mdata' = NoWord
  /\ req_tog_d' = FALSE /\ irq_ack_tog_d' = FALSE /\ dv_tog_d' = FALSE /\ div_cnt' = 0

-----------------------------------------------------------------------------
(* The core.  `todo' is what is left of the instruction or entry sequence. *)

Start(a, rd) ==
  /\ nreq' = [a |-> a, rd |-> rd, wr |-> ~rd] /\ req_tog' = ~req_tog
  /\ bus_cnt' = FALSE /\ state' = "BUS"
  /\ UNCHANGED wait_n

GoWait(n) == wait_n' = n /\ state' = "WAIT" /\ UNCHANGED request

(* The instruction boundary.  `early' is what the instruction itself has   *)
(* assigned to noirq in this state: the fetch overrides it.                *)
Take(early) ==
  /\ irq_vector # 0 /\ ~noirq
  /\ irq_ack_tog' = ~irq_ack_tog /\ irq_ack_vector' = irq_vector /\ cur_vec' = irq_vector
  /\ GoWait(4) /\ todo' = Entry
  /\ noirq' = early

NextInstruction ==
  /\ irq_vector = 0 \/ noirq
  /\ noirq' = FALSE
  /\ \E a \in Rom : Start(a, TRUE)
  /\ todo' = <<Decode>>
  /\ UNCHANGED taken

Finish(early) == Take(early) \/ NextInstruction

(* One disjunct per kind of continuation.  The first group ends the        *)
(* instruction, the second spends internal states, the third uses the bus. *)
Ends(t) ==
  /\ UNCHANGED dv_tog
  /\ \/ t \in {<<>>, <<Quotient>>, <<Copy>>} /\ Finish(noirq) /\ UNCHANGED ccr_i
     \/ t = <<SetCcr>> /\ ccr_i' \in BOOLEAN /\ Finish(TRUE)
     \/ /\ t = <<Release>> /\ noirq' = TRUE /\ state' = "FETCH" /\ todo' = <<>>
        /\ UNCHANGED <<ccr_i, taken, request, wait_n>>

Waits(t) ==
  /\ t # <<>> /\ todo' = Tail(t) /\ UNCHANGED <<irq_ack_tog, irq_ack_vector>>
  /\ ccr_i'  \in IF Head(t) = PopCcr THEN BOOLEAN ELSE IF Head(t) = Mask THEN {TRUE} ELSE {ccr_i}
  /\ noirq'  = (noirq \/ Head(t) = Mask)
  /\ cur_vec' = IF Head(t) = Trap THEN 8 ELSE cur_vec
  /\ dv_tog' = (dv_tog # (Head(t) = Divide))
  /\ \/ Head(t).op = "wait" /\ GoWait(Head(t).n)
     \/ Head(t) \in {PopCcr, Trap, Mask} /\ GoWait(2)
     \/ Head(t) = Divide /\ GoWait(DivStates)
     \/ Head(t) = Doze /\ state' = "SLEEP" /\ UNCHANGED <<request, wait_n>>

Accesses(t) ==
  /\ t # <<>> /\ UNCHANGED <<noirq, taken, ccr_i, dv_tog>>
  /\ \/ Head(t) = Word /\ (\E a \in Rom : Start(a, TRUE)) /\ todo' = Tail(t)
     \/ Head(t) = Rd /\ (\E a \in Addr : Start(a, TRUE)) /\ todo' = Tail(t)
     \/ Head(t) = Wr /\ (\E a \in Writable : Start(a, FALSE)) /\ todo' = Tail(t)
     \/ Head(t) = Copy /\ (\E a \in Addr : Start(a, TRUE)) /\ todo' = <<Wr, Copy>>

Continue(t) == Ends(t) \/ Waits(t) \/ Accesses(t)

Dispatch ==
  \/ todo = <<Decode>> /\ \E c \in Classes : cls' = c /\ Continue(Body[c])
  \/ todo # <<Decode>> /\ Continue(todo) /\ UNCHANGED cls

(* The states.                                                             *)
Still == UNCHANGED <<state, todo, cls, noirq, ccr_i, nreq, req_tog, taken, dv_tog>>

Reset0 == /\ state = "RESET0" /\ ccr_i' = TRUE
          /\ \E a \in Rom : Start(a, TRUE)
          /\ todo' = <<Word, Release>>
          /\ UNCHANGED <<cls, noirq, taken, dv_tog>>
Fetch  == state = "FETCH" /\ Finish(noirq) /\ UNCHANGED <<cls, ccr_i, dv_tog>>

Bus    == /\ state = "BUS"
          /\ IF bus_done /\ bus_cnt THEN Dispatch
             ELSE bus_cnt' = TRUE /\ Still /\ UNCHANGED wait_n
Pause  == /\ state = "WAIT"
          /\ IF wait_n <= 1 THEN Dispatch
             ELSE wait_n' = wait_n - 1 /\ Still /\ UNCHANGED bus_cnt
Sleep  == /\ state = "SLEEP"
          /\ IF irq_vector # 0 THEN Finish(noirq) /\ UNCHANGED <<cls, ccr_i, dv_tog>>
             ELSE Still /\ UNCHANGED <<wait_n, bus_cnt>>

Core(reset, cen, vector) ==
  IF reset THEN CoreReset
  ELSE IF ~cen THEN UNCHANGED core
  ELSE /\ bus_done' = w_done /\ mdata' = w_mdata /\ irq_vector' = vector
       /\ Reset0 \/ Fetch \/ Bus \/ Pause \/ Sleep

-----------------------------------------------------------------------------
(* The wrapper, on every clock.                                            *)
NewRequest == req_tog # req_tog_d
Answered(ack) == (bus.rd \/ bus.wr) /\ ack

Completion(ack) == ~NewRequest /\ (Answered(ack) \/ w_done)

StillStanding(ack) ==  \* fault variant: the request outlives its ack
  IF NewRequest THEN nreq ELSE bus
Standing(ack) ==
  IF NewRequest THEN nreq
  ELSE IF Answered(ack) THEN [bus EXCEPT !.rd = FALSE, !.wr = FALSE] ELSE bus

SlowDivider ==     \* fault variant: two clocks for each quotient bit
  IF dv_tog # dv_tog_d THEN 2 * DivClocks ELSE IF div_cnt # 0 THEN div_cnt - 1 ELSE 0
Divider ==
  IF dv_tog # dv_tog_d THEN DivClocks ELSE IF div_cnt # 0 THEN div_cnt - 1 ELSE 0

Wrapper(reset, ack, rdata) ==
  IF reset THEN WrapperReset
  ELSE /\ req_tog_d' = req_tog /\ irq_ack_tog_d' = irq_ack_tog /\ dv_tog_d' = dv_tog
       /\ bus' = Standing(ack) /\ w_done' = Completion(ack)
       /\ w_mdata' = IF Answered(ack) THEN rdata ELSE w_mdata
       /\ div_cnt' = Divider

irq_ack == irq_ack_tog # irq_ack_tog_d
=============================================================================
