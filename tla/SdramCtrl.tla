----------------------------- MODULE SdramCtrl -----------------------------
(***************************************************************************)
(* target/pocket/sdram_ctrl.sv: the SDRAM controller, with the chip it      *)
(* drives (sim/sdram_model.sv, in phase: data four clocks after the READ)   *)
(* and the clients that ncv1_mem.sv puts on its ports.                      *)
(*                                                                         *)
(* One step is one clock.  Single-word clients hold a request to its ack;   *)
(* the burst client asks for a run of words that is read from open rows in  *)
(* chunks, with single accesses and refreshes between the chunks.           *)
(*                                                                         *)
(* A word is named by its address, <<row, column>> folded into a number,    *)
(* and a data register holds the address it was read from.  The chip's      *)
(* four banks are one: the controller closes each row before the next one   *)
(* opens.  Start-up is one state left at any clock, its commands left out.  *)
(* b_we and b_abort are 0, as ncv1_mem.sv ties them.                        *)
(***************************************************************************)
EXTENDS Naturals

CONSTANTS
  NCLI,          (* the number of single-word clients                      *)
  Writers,       (* the ones that write (client 0, the loader)             *)
  Rows, Cols,    (* the size of the chip                                   *)
  Asked,         (* bound: the addresses each client asks for, its region  *)
                 (* of the chip; at NCLI, those of the bursts              *)
  Refresh,       (* CYCLES_PER_REFRESH, 750                                *)
  Chunk,         (* BURST_CHUNK, 32                                        *)
  Gap,           (* clocks from one burst READ to the next: 2, slow 5      *)
  Lengths        (* the burst lengths asked for; {}: no bursts             *)

Client == 0 .. NCLI - 1

ASSUME SizesAssumption ==
  /\ NCLI \in Nat \ {0} /\ Rows \in Nat \ {0} /\ Cols \in Nat \ {0}
  /\ Refresh \in Nat /\ Chunk \in Nat \ {0} /\ Gap \in Nat \ {0, 1}
  /\ Lengths \subseteq Nat \ {0} /\ Writers \subseteq Client

Size   == Rows * Cols
Addr   == 0 .. Size - 1
ASSUME AskedAssumption == Asked \in [0 .. NCLI -> SUBSET Addr]
Row(a) == a \div Cols
Col(a) == a % Cols

NoWord == Size             \* a data register that holds nothing read
Closed == Rows             \* no row is open

VARIABLES
  state, command, pin_row, pin_col,             \* the sequencer and the pins
  refresh_count, refresh_due, wait_n,
  cur, cur_col, last,                           \* the single access
  any_req_q, b_start,                           \* decisions registered a clock ahead
  b,                                            \* the burst's context, the registers b_*
  cap, dq_in,                                   \* the capture pipeline
  c_ack, rdata, b_wr, b_idx, b_data, b_done,    \* the answers
  c_req, c_addr, b_req, b_addr, b_len,          \* the clients
  open, pipe,                                   \* the chip: its open row, the READs under way
  since, gone, got, waited                      \* history: clocks since each command, requests
                                                \* abandoned, words delivered, turns lost

pins    == <<command, pin_row, pin_col>>
single  == <<cur, cur_col, last>>
answers == <<c_ack, rdata, b_wr, b_idx, b_data, b_done>>
requests == <<c_req, c_addr, gone>>
burst_client == <<b_req, b_addr, b_len, got>>
vars == <<state, pins, refresh_count, refresh_due, wait_n, single, any_req_q, b_start, b,
          cap, dq_in, answers, requests, burst_client, open, pipe, since, waited>>

States == {"STARTUP", "IDLE", "ARB", "OPEN1", "OPEN2", "WAIT5", "WAIT4", "WAIT3", "WAIT2", "WAIT1",
           "REF", "BOPEN1", "BOPEN2", "BREAD", "BEND"}
Commands == {"NOP", "ACTIVE", "READ", "READA", "WRITEA", "PRECHARGE", "REFRESH"}
NoTag == [kind |-> "none", n |-> 0]
Tags  == [kind : {"none", "single", "burst"}, n : Nat]
Patience == NCLI + 2                      \* bound: where the turns a client has lost stop counting
Old   == 8                                \* where the clocks since a command stop counting

TypeOK ==
  /\ state \in States /\ command \in Commands
  /\ pin_row \in 0 .. Rows - 1 /\ pin_col \in 0 .. Cols - 1
  /\ refresh_count \in Nat /\ refresh_due \in BOOLEAN /\ wait_n \in 0 .. 7
  /\ cur \in Client /\ last \in Client /\ cur_col \in 0 .. Cols - 1
  /\ any_req_q \in BOOLEAN /\ b_start \in BOOLEAN
  /\ b \in [active : BOOLEAN, yield : BOOLEAN, accepted : BOOLEAN, next : Addr, remain : Nat,
            issued : Nat, chunk : Nat, gap : 0 .. Gap - 1]
  /\ cap \in [0 .. 4 -> Tags] /\ dq_in \in 0 .. Size
  /\ c_ack \in [Client -> BOOLEAN] /\ rdata \in 0 .. Size
  /\ b_wr \in BOOLEAN /\ b_idx \in Nat /\ b_data \in 0 .. Size /\ b_done \in BOOLEAN
  /\ c_req \in [Client -> BOOLEAN] /\ c_addr \in [Client -> Addr] /\ gone \in [Client -> BOOLEAN]
  /\ b_req \in BOOLEAN /\ b_addr \in Addr /\ b_len \in Lengths \cup {0} /\ got \in Nat
  /\ open \in 0 .. Rows /\ pipe \in [1 .. 3 -> 0 .. Size]
  /\ since \in [{"ACTIVE", "CLOSE", "REFRESH"} -> 0 .. Old]
  /\ waited \in [Client -> [singles : 0 .. Patience, chunks : 0 .. Patience]]

Init ==
  /\ state = "STARTUP" /\ command = "NOP" /\ pin_row = 0 /\ pin_col = 0
  /\ refresh_count = 0 /\ refresh_due = FALSE /\ wait_n = 0
  /\ cur = 0 /\ last = 0 /\ cur_col = 0 /\ any_req_q = FALSE /\ b_start = FALSE
  /\ b = [active |-> FALSE, yield |-> FALSE, accepted |-> FALSE, next |-> 0, remain |-> 0,
          issued |-> 0, chunk |-> 0, gap |-> 0]
  /\ cap = [k \in 0 .. 4 |-> NoTag] /\ dq_in = NoWord
  /\ c_ack = [i \in Client |-> FALSE] /\ rdata = NoWord
  /\ b_wr = FALSE /\ b_idx = 0 /\ b_data = NoWord /\ b_done = FALSE
  /\ c_req = [i \in Client |-> FALSE] /\ c_addr = [i \in Client |-> 0] /\ gone = [i \in Client |-> FALSE]
  /\ b_req = FALSE /\ b_addr = 0 /\ b_len = 0 /\ got = 0
  /\ open = Closed /\ pipe = [k \in 1 .. 3 |-> NoWord]
  /\ since = [c \in {"ACTIVE", "CLOSE", "REFRESH"} |-> Old]
  /\ waited = [i \in Client |-> [singles |-> 0, chunks |-> 0]]

-----------------------------------------------------------------------------
(* The round robin: the first pending client after the one served last.    *)
(* (A fault variant stands before the definition it distorts; no           *)
(* specification uses it.)                                                 *)
Pending == {i \in Client : c_req[i] /\ ~c_ack[i]}
any_req == Pending # {}
Distance(i) == (i + NCLI - last - 1) % NCLI
PickLowest ==        \* fault variant: a fixed priority
  CHOOSE i \in Pending : \A j \in Pending : i <= j
pick == CHOOSE i \in Pending : \A j \in Pending : Distance(i) <= Distance(j)

(* The pins.                                                               *)
Pins(c, row, col) == command' = c /\ pin_row' = row /\ pin_col' = col
Still == Pins("NOP", pin_row, pin_col)

(* The capture pipeline: a tag placed with a READ reaches stage 0 in the   *)
(* clock its word is in dq_in.                                             *)
PlaceLate(tag) ==    \* fault variant: one stage short, as for a chip clocked out of phase
  cap' = [k \in 0 .. 4 |-> IF k = 3 THEN tag ELSE IF k = 4 THEN NoTag ELSE cap[k + 1]]
Place(tag) == cap' = [k \in 0 .. 4 |-> IF k = 4 THEN tag ELSE cap[k + 1]]
Capture ==
  /\ rdata' = IF cap[0].kind = "none" THEN rdata ELSE dq_in
  /\ b_wr' = (cap[0].kind = "burst")
  /\ IF b_wr' THEN b_idx' = cap[0].n /\ b_data' = dq_in ELSE UNCHANGED <<b_idx, b_data>>
Captured(i) == cap[0] = [kind |-> "single", n |-> i]

(* What most states do with the registers that are not theirs.             *)
Count    == refresh_count' = refresh_count + 1 /\ refresh_due' = (refresh_count > Refresh)
NoRead   == Place(NoTag)
ReadAcks == c_ack' = [i \in Client |-> Captured(i)]
Quiet    == Count /\ NoRead /\ ReadAcks

(* A burst is accepted, and its end is told, beside whatever the state     *)
(* does to the context: n is the context the state leaves.                 *)
Accepting == b_req /\ ~b.active /\ ~b_done /\ ~b.accepted
Completing == state = "WAIT1" /\ ~b.active /\ b_req /\ ~b_done /\ b.issued # 0 /\ b.remain = 0
Settle(n) ==
  /\ b' = IF Accepting
            THEN [n EXCEPT !.active = TRUE, !.accepted = TRUE, !.next = b_addr, !.remain = b_len,
                           !.issued = 0, !.yield = FALSE]
            ELSE [n EXCEPT !.accepted = n.accepted /\ b_req, !.issued = IF Completing THEN 0 ELSE @]
  /\ b_done' = Completing

-----------------------------------------------------------------------------
(* One action for each state of the sequencer.                             *)
Startup ==
  /\ state = "STARTUP"
  /\ \/ state' = "IDLE" /\ Count
     \/ state' = "STARTUP" /\ UNCHANGED <<refresh_count, refresh_due>>
  /\ NoRead /\ ReadAcks /\ Settle(b) /\ Still /\ UNCHANGED <<wait_n, single>>

RefWait  == 6            \* tRFC, 66 ns

IdleRefresh ==
  /\ state = "IDLE" /\ refresh_due
  /\ command' = "REFRESH" /\ pin_row' = (IF b_start /\ b.active THEN Row(b.next) ELSE pin_row)
  /\ refresh_count' = 0 /\ refresh_due' = FALSE /\ wait_n' = RefWait /\ state' = "REF"
  /\ NoRead /\ ReadAcks /\ Settle(b) /\ UNCHANGED <<pin_col, single>>

IdleBurst ==
  /\ state = "IDLE" /\ ~refresh_due /\ b_start /\ b.active
  /\ Pins("ACTIVE", Row(b.next), pin_col)
  /\ Settle([b EXCEPT !.chunk = 0, !.gap = 0]) /\ state' = "BOPEN1"
  /\ Quiet /\ UNCHANGED <<wait_n, single>>

IdleSingle ==
  /\ state = "IDLE" /\ ~refresh_due /\ ~(b_start /\ b.active) /\ any_req
  /\ cur' = pick /\ last' = pick
  /\ Settle([b EXCEPT !.yield = FALSE]) /\ state' = "ARB"
  /\ Quiet /\ Still /\ UNCHANGED <<wait_n, cur_col>>

IdleStay ==
  /\ state = "IDLE" /\ ~refresh_due /\ ~(b_start /\ b.active) /\ ~any_req
  /\ Settle(b) /\ Quiet /\ Still /\ UNCHANGED <<state, wait_n, single>>

Arb ==
  /\ state = "ARB" /\ state' = "OPEN1"
  /\ Pins("ACTIVE", Row(c_addr[cur]), pin_col) /\ cur_col' = Col(c_addr[cur])
  /\ Settle(b) /\ Quiet /\ UNCHANGED <<wait_n, cur, last>>

Open2 ==
  /\ state = "OPEN2"
  /\ \/ /\ cur \in Writers
        /\ Pins("WRITEA", pin_row, cur_col) /\ state' = "WAIT3"
        /\ c_ack' = [i \in Client |-> i = cur \/ Captured(i)] /\ NoRead
     \/ /\ cur \notin Writers
        /\ Pins("READA", pin_row, cur_col) /\ state' = "WAIT5"
        /\ Place([kind |-> "single", n |-> cur]) /\ ReadAcks
  /\ Count /\ Settle(b) /\ UNCHANGED <<wait_n, single>>

(* The states that only let a clock pass.                                  *)
Following(s) ==
  CASE s = "OPEN1" -> "OPEN2" [] s = "BOPEN1" -> "BOPEN2" [] s = "BOPEN2" -> "BREAD" [] s = "WAIT5" -> "WAIT4"
    [] s = "WAIT4" -> "WAIT3" [] s = "WAIT3" -> "WAIT2" [] s = "WAIT2" -> "WAIT1" [] s = "WAIT1" -> "IDLE"
Pass ==
  /\ state \in {"OPEN1", "BOPEN1", "BOPEN2", "WAIT5", "WAIT4", "WAIT3", "WAIT2", "WAIT1"}
  /\ state' = Following(state)
  /\ Settle(b) /\ Quiet /\ Still /\ UNCHANGED <<wait_n, single>>

Ref ==
  /\ state = "REF" /\ wait_n' = (wait_n + 7) % 8
  /\ state' = IF wait_n = 0 THEN "IDLE" ELSE "REF"
  /\ Settle(b) /\ Quiet /\ Still /\ UNCHANGED <<single>>

PastRow  == b.remain = 1 \/ b.chunk = Chunk - 1      \* fault variants: the row's end not looked at,
PastChunk == b.remain = 1 \/ Col(b.next) = Cols - 1  \* nor the chunk's
ChunkEnd == b.remain = 1 \/ b.chunk = Chunk - 1 \/ Col(b.next) = Cols - 1

BRead ==
  /\ state = "BREAD"
  /\ IF b.gap = 0
       THEN /\ Pins("READ", pin_row, Col(b.next))
            /\ Place([kind |-> "burst", n |-> b.issued])
            /\ Settle([b EXCEPT !.next = (@ + 1) % Size, !.issued = @ + 1, !.remain = @ - 1,
                                !.chunk = @ + 1, !.gap = Gap - 1])
            /\ IF ChunkEnd THEN state' = "BEND" /\ wait_n' = 1 ELSE UNCHANGED <<state, wait_n>>
       ELSE /\ Settle([b EXCEPT !.gap = @ - 1])
            /\ NoRead /\ Still /\ UNCHANGED <<state, wait_n>>
  /\ Count /\ ReadAcks /\ UNCHANGED <<single>>

RowKept  == IF b.remain = 0 THEN "PRECHARGE" ELSE "NOP"   \* fault variant: the row stays open between chunks
RowClose == "PRECHARGE"

BEnd ==
  /\ state = "BEND" /\ wait_n' = (wait_n + 7) % 8
  /\ IF wait_n = 0
       THEN /\ Pins(RowClose, pin_row, pin_col)
            /\ Settle([b EXCEPT !.yield = TRUE, !.active = b.remain # 0])
            /\ state' = IF b.remain = 0 THEN "WAIT5" ELSE "WAIT2"
       ELSE Still /\ Settle(b) /\ UNCHANGED state
  /\ Quiet /\ UNCHANGED <<single>>

NoYield     == TRUE                        \* fault variants: chunk after chunk,
Yield == ~(b.yield /\ any_req_q)

Registered ==
  /\ any_req_q' = any_req
  /\ b_start' = (b.active /\ Yield /\ ~refresh_due)

Controller ==
  /\ Registered /\ Capture
  /\ Startup \/ IdleRefresh \/ IdleBurst \/ IdleSingle \/ IdleStay \/ Arb \/ Open2 \/ Pass \/ Ref \/ BRead \/ BEnd

-----------------------------------------------------------------------------
(* The chip obeys the command on the pins.                                 *)
Word == open * Cols + pin_col
Passed(c) == IF since[c] < Old THEN since[c] + 1 ELSE Old
Chip ==
  /\ open' = CASE command = "ACTIVE" -> pin_row
               [] command \in {"READA", "WRITEA", "PRECHARGE"} -> Closed
               [] OTHER -> open
  /\ pipe' = [k \in 1 .. 3 |-> CASE k > 1 -> pipe[k - 1]
                                 [] k = 1 /\ command \in {"READ", "READA"} /\ open # Closed -> Word
                                 [] OTHER -> NoWord]
  /\ dq_in' = pipe[3]
  /\ since' = [c \in {"ACTIVE", "CLOSE", "REFRESH"} |->
                 IF command = c \/ (c = "CLOSE" /\ command \in {"READA", "WRITEA", "PRECHARGE"})
                   THEN 1 ELSE Passed(c)]

(* The clients.  A request stands to its ack; a reset may take it away at  *)
(* any clock, and its client is back only when nothing of it is under way  *)
(* (rom_cache.sv walks its 2048 lines first).                              *)
InFlight(i) ==
  \/ state \in {"ARB", "OPEN1", "OPEN2"} /\ cur = i
  \/ c_ack[i] \/ \E k \in 0 .. 4 : cap[k] = [kind |-> "single", n |-> i]

Raise(i)   == /\ ~c_req[i] /\ ~InFlight(i)
              /\ c_req' = [c_req EXCEPT ![i] = TRUE] /\ gone' = [gone EXCEPT ![i] = FALSE]
              /\ \E a \in Asked[i] : c_addr' = [c_addr EXCEPT ![i] = a]
Abandon(i) == /\ c_req[i] /\ ~c_ack[i] /\ i \notin Writers
              /\ c_req' = [c_req EXCEPT ![i] = FALSE] /\ gone' = [gone EXCEPT ![i] = TRUE]
              /\ c_addr' = [c_addr EXCEPT ![i] = 0]
Drop       == /\ c_req' = [i \in Client |-> c_req[i] /\ ~c_ack[i]] /\ UNCHANGED <<c_addr, gone>>
Served     == \E i \in Client : c_req[i] /\ c_ack[i]
Clients == \/ Drop
           \/ ~Served /\ \E i \in Client : Raise(i) \/ Abandon(i)

(* The burst client holds its request to b_done.                           *)
BurstClient ==
  \/ /\ ~b_req /\ b_req' = TRUE /\ b_addr' \in Asked[NCLI] /\ b_len' \in Lengths /\ got' = 0
  \/ /\ b_req' = (b_req /\ ~b_done) /\ UNCHANGED <<b_addr, b_len>>
     /\ got' = IF b_wr THEN got + 1 ELSE got

(* History: the turns a waiting client has lost to others and to chunks,   *)
(* counted up to a bound beyond what BoundedOvertaking allows.              *)
Turns ==
  LET OneMore(n) == IF n < Patience THEN n + 1 ELSE n IN
  waited' = [i \in Client |->
               IF i \notin Pending THEN [singles |-> 0, chunks |-> 0]
               ELSE IF state = "IDLE" /\ state' = "BOPEN1" THEN [waited[i] EXCEPT !.chunks = OneMore(@)]
               ELSE IF state = "IDLE" /\ state' = "ARB" /\ i # cur' THEN [waited[i] EXCEPT !.singles = OneMore(@)]
               ELSE waited[i]]

Next == Controller /\ Chip /\ Clients /\ BurstClient /\ Turns

Spec == Init /\ [][Next]_vars

(* The clock runs and the chip's start-up ends; nobody need ask.  Such a   *)
(* tick can always be made, so this is the weak fairness of it, written    *)
(* without ENABLED.                                                        *)
Clock == Controller /\ Chip /\ Turns /\ Drop /\ b_req' = (b_req /\ ~b_done) /\ UNCHANGED <<b_addr, b_len>>
         /\ got' = IF b_wr THEN got + 1 ELSE got
FairSpec == Spec /\ []<><<Clock /\ state' # "STARTUP">>_vars

-----------------------------------------------------------------------------
(* The chip is never asked for what it cannot do: a row is opened, and a   *)
(* refresh started, only when every row is closed, and words are read and  *)
(* written in an open row (the errors that sim/sdram_model.sv counts).     *)
RowsProper ==
  /\ command \in {"ACTIVE", "REFRESH"} => open = Closed
  /\ command \in {"READ", "READA", "WRITEA"} => open # Closed

(* Commands keep the chip's distances: tRCD and tRP of 2 clocks, tRFC of   *)
(* 7, and of 6 between two ACTIVEs, whichever two parts of the sequencer   *)
(* issue them.                                                             *)
CommandSpacing ==
  /\ command \in {"READ", "READA", "WRITEA"} => since["ACTIVE"] >= 2
  /\ command \in {"ACTIVE", "REFRESH"} =>
       since["CLOSE"] >= 2 /\ since["REFRESH"] >= 7 /\ since["ACTIVE"] >= 6

(* The rules of the device, with the sequencer's registers in their ranges. *)
DeviceRules == TypeOK /\ RowsProper /\ CommandSpacing

(* An ack answers the request that stands, once: a read with the word at   *)
(* its address, a write with the WRITE on the pins at its address in its   *)
(* open row.  Only a client whose request a reset took away sees a stray.  *)
AckedOwn ==
  \A i \in Client : c_ack[i] /\ ~gone[i] =>
     /\ c_req[i]
     /\ i \notin Writers => rdata = c_addr[i]
     /\ i \in Writers => command = "WRITEA" /\ open = Row(c_addr[i]) /\ pin_col = Col(c_addr[i])

(* A burst delivers its words in order, each once and each from its own    *)
(* address, across chunks, row ends, refreshes and the single accesses let *)
(* in between; and it is done only when all of them have been delivered.   *)
BurstInOrder ==
  /\ b_wr => b_req /\ got < b_len /\ b_idx = got /\ b_data = (b_addr + got) % Size
  /\ b_done => b_req /\ got = b_len

(* The refresh is never put off by more than one chunk: the longest thing  *)
(* the sequencer does between two visits of S_IDLE.                        *)
LongestStay == 3 + (Chunk - 1) * Gap + 1 + 2 + 5
RefreshOnTime == refresh_count <= Refresh + 1 + LongestStay

(* The refresh interval leaves room for the rest of a refresh (7 clocks),  *)
(* a single access (9) of every other client and a longest stay for each   *)
(* client: the code's 750 does, for its clients and chunks of 32 words.    *)
RefreshLeavesRoom == Refresh + 1 >= 7 + 9 * (NCLI - 1) + NCLI * LongestStay

(* A waiting client is overtaken at most once by each other client, and by *)
(* one chunk more than that plus one (the chunk that is opened before the  *)
(* request is noticed, and one that follows a refresh).                    *)
BoundedOvertaking ==
  \A i \in Client : waited[i].singles <= NCLI - 1 /\ waited[i].chunks <= NCLI + 1

(* Every request is answered, and every burst ends, whatever the others    *)
(* ask for.                                                                *)
Answered == \A i \in Client : c_req[i] ~> (c_ack[i] \/ ~c_req[i])
EveryoneServed == Answered /\ (b_req ~> b_done)
=============================================================================
