---------------------------- MODULE H8SubProofs ----------------------------
(***************************************************************************)
(* Theorems about the sub CPU (H8Sub) for every decode, every program of    *)
(* its instruction classes, every interval of the enable that leaves room   *)
(* for what must happen between two enables, and resets at any clock.       *)
(***************************************************************************)
EXTENDS H8Sub, SequenceTheorems, TLAPS

-----------------------------------------------------------------------------
(* Types.                                                                  *)

(* The only internal wait an instruction asks for by name is of two states. *)
LEMMA Waiting == \A m \in Micro : m.op = "wait" => m = Wait(2) /\ m.n = 2
BY SMT DEF Micro, Word, Rd, Wr, Wait, SetCcr, PopCcr, Trap, Mask, Divide, Quotient, Copy, Doze, Decode, Release

LEMMA MicroMembers ==
  /\ Word \in Micro /\ Rd \in Micro /\ Wr \in Micro /\ Wait(2) \in Micro /\ SetCcr \in Micro /\ PopCcr \in Micro
  /\ Trap \in Micro /\ Mask \in Micro /\ Divide \in Micro /\ Quotient \in Micro /\ Copy \in Micro
  /\ Doze \in Micro /\ Decode \in Micro /\ Release \in Micro
BY DEF Micro

LEMMA EntryType == Entry \in Seq(Micro) /\ Len(Entry) = 5 /\ Entry # <<>>
BY MicroMembers DEF Entry

LEMMA Bodies ==
  /\ \A c \in DOMAIN Body :
       c \in {"alu", "alu2", "ldc", "ldcm", "load", "store", "loadl", "bitmem", "branch", "jump", "call", "return",
             "rte", "trapa", "eepmov", "divide", "sleep"}
  /\ Body["alu"] = <<>> /\ Body["alu2"] = <<Word>> /\ Body["ldc"] = <<SetCcr>> /\ Body["ldcm"] = <<Word, Rd, SetCcr>>
  /\ Body["load"] = <<Rd>> /\ Body["store"] = <<Wr>> /\ Body["loadl"] = <<Word, Rd, Rd>>
  /\ Body["bitmem"] = <<Word, Rd, Wr>> /\ Body["branch"] = <<Wait(2)>> /\ Body["jump"] = <<Word, Wait(2)>>
  /\ Body["call"] = <<Wait(2), Wr, Wr>> /\ Body["return"] = <<Wait(2), Rd, Rd, Wait(2)>>
  /\ Body["rte"] = <<Wait(2), Rd, Rd, PopCcr>> /\ Body["trapa"] = <<Trap>> \o Entry
  /\ Body["eepmov"] = <<Word, Copy>> /\ Body["divide"] = <<Divide, Quotient>> /\ Body["sleep"] = <<Doze>>
BY DEF Body

LEMMA BodyType == \A c \in Classes : Body[c] \in Seq(Micro)
<1> SUFFICES ASSUME NEW c \in DOMAIN Body PROVE Body[c] \in Seq(Micro)
  BY ClassesAssumption
<1>1. <<Trap>> \o Entry \in Seq(Micro)
  BY MicroMembers, EntryType
<1>2. /\ <<>> \in Seq(Micro) /\ <<Word>> \in Seq(Micro) /\ <<SetCcr>> \in Seq(Micro) /\ <<Word, Rd, SetCcr>> \in Seq(Micro)
      /\ <<Rd>> \in Seq(Micro) /\ <<Wr>> \in Seq(Micro) /\ <<Word, Rd, Rd>> \in Seq(Micro) /\ <<Word, Rd, Wr>> \in Seq(Micro)
      /\ <<Wait(2)>> \in Seq(Micro) /\ <<Word, Wait(2)>> \in Seq(Micro) /\ <<Wait(2), Wr, Wr>> \in Seq(Micro)
      /\ <<Wait(2), Rd, Rd, Wait(2)>> \in Seq(Micro) /\ <<Wait(2), Rd, Rd, PopCcr>> \in Seq(Micro)
      /\ <<Word, Copy>> \in Seq(Micro) /\ <<Divide, Quotient>> \in Seq(Micro) /\ <<Doze>> \in Seq(Micro)
  BY MicroMembers
<1> QED BY <1>1, <1>2, Bodies

LEMMA StartShape ==
  ASSUME NEW a \in Addr, NEW rd \in BOOLEAN, Start(a, rd), wait_n \in Nat
  PROVE  state' = "BUS" /\ nreq' \in Request /\ wait_n' \in Nat
<1>1. [a |-> a, rd |-> rd, wr |-> ~rd] \in Request
  BY DEF Request, Data
<1> QED BY <1>1 DEF Start

LEMMA FinishShape ==
  ASSUME CoreTypeOK, NEW early \in BOOLEAN, Finish(early)
  PROVE  /\ state' \in {"RESET0", "FETCH", "BUS", "WAIT", "SLEEP"} /\ todo' \in Seq(Micro) /\ wait_n' \in Nat
         /\ nreq' \in Request /\ irq_ack_vector' \in Vectors /\ cur_vec' \in Vectors
<1>1. CASE Take(early)
  BY <1>1, EntryType DEF Take, GoWait, request, CoreTypeOK
<1>2. CASE NextInstruction
  <2>1. PICK a \in Rom : Start(a, TRUE)
    BY <1>2 DEF NextInstruction
  <2>2. a \in Addr
    BY RomAssumption
  <2>3. state' = "BUS" /\ nreq' \in Request /\ wait_n' \in Nat
    BY <2>1, <2>2, StartShape DEF CoreTypeOK
  <2>4. todo' \in Seq(Micro) /\ UNCHANGED <<irq_ack_vector, cur_vec>>
    BY <1>2, MicroMembers DEF NextInstruction, taken
  <2> QED BY <2>3, <2>4 DEF CoreTypeOK
<1> QED BY <1>1, <1>2 DEF Finish

LEMMA FinishFlags ==
  ASSUME CoreTypeOK, NEW early \in BOOLEAN, Finish(early)
  PROVE  bus_cnt' \in BOOLEAN /\ noirq' \in BOOLEAN /\ req_tog' \in BOOLEAN /\ irq_ack_tog' \in BOOLEAN
BY Zenon DEF Finish, Take, NextInstruction, Start, GoWait, request, taken, CoreTypeOK

LEMMA ContinueShape ==
  ASSUME CoreTypeOK, NEW t \in Seq(Micro), Continue(t)
  PROVE  /\ state' \in {"RESET0", "FETCH", "BUS", "WAIT", "SLEEP"} /\ todo' \in Seq(Micro) /\ wait_n' \in Nat
         /\ nreq' \in Request /\ irq_ack_vector' \in Vectors /\ cur_vec' \in Vectors
<1>1. CASE Ends(t)
  <2>1. CASE Finish(noirq) \/ Finish(TRUE)
    BY <2>1, FinishShape DEF CoreTypeOK
  <2>2. CASE t = <<Release>> /\ state' = "FETCH" /\ todo' = <<>> /\ UNCHANGED <<taken, request, wait_n>>
    BY <2>2 DEF CoreTypeOK, taken, request
  <2> QED BY <1>1, <2>1, <2>2 DEF Ends
<1>2. CASE Waits(t)
  <2>1. Head(t) \in Micro /\ Tail(t) \in Seq(Micro)
    BY <1>2 DEF Waits
  <2>2. todo' \in Seq(Micro) /\ irq_ack_vector' \in Vectors /\ cur_vec' \in Vectors
    BY <1>2, <2>1 DEF Waits, CoreTypeOK, Vectors
  <2>3. CASE Head(t).op = "wait" /\ GoWait(Head(t).n)
    BY <2>3, <2>2, <2>1, Waiting DEF GoWait, request, CoreTypeOK
  <2>4. CASE GoWait(2) \/ GoWait(DivStates)
    BY <2>4, <2>2, DivAssumption DEF GoWait, request, CoreTypeOK
  <2>5. CASE state' = "SLEEP" /\ UNCHANGED <<request, wait_n>>
    BY <2>5, <2>2 DEF request, CoreTypeOK
  <2> QED BY <1>2, <2>3, <2>4, <2>5 DEF Waits
<1>3. CASE Accesses(t)
  <2>1. Head(t) \in Micro /\ Tail(t) \in Seq(Micro) /\ <<Wr, Copy>> \in Seq(Micro)
    BY <1>3, MicroMembers DEF Accesses
  <2>2. PICK a \in Addr, rd \in BOOLEAN : Start(a, rd)
    BY <1>3, RomAssumption DEF Accesses
  <2>3. todo' \in Seq(Micro)
    BY <1>3, <2>1 DEF Accesses
  <2> QED BY <1>3, <2>2, <2>3, StartShape DEF Accesses, CoreTypeOK, taken
<1> QED BY <1>1, <1>2, <1>3 DEF Continue

LEMMA ContinueFlags ==
  ASSUME CoreTypeOK, NEW t, Continue(t)
  PROVE  bus_cnt' \in BOOLEAN /\ noirq' \in BOOLEAN /\ ccr_i' \in BOOLEAN /\ req_tog' \in BOOLEAN
         /\ irq_ack_tog' \in BOOLEAN /\ dv_tog' \in BOOLEAN
<1>1. CASE Ends(t)
  <2>1. ccr_i' \in BOOLEAN /\ dv_tog' \in BOOLEAN
    BY <1>1, Zenon DEF Ends, CoreTypeOK
  <2>2. CASE Finish(noirq) \/ Finish(TRUE)
    BY <2>1, <2>2, FinishFlags DEF CoreTypeOK
  <2>3. CASE noirq' = TRUE /\ UNCHANGED <<taken, request>>
    BY <2>1, <2>3 DEF CoreTypeOK, taken, request
  <2> QED BY <1>1, <2>2, <2>3 DEF Ends
<1>2. CASE Waits(t)
  <2>1. noirq' \in BOOLEAN /\ dv_tog' \in BOOLEAN
    BY <1>2, Zenon DEF Waits
  <2>2. ccr_i' \in BOOLEAN /\ irq_ack_tog' \in BOOLEAN
    BY <1>2 DEF Waits, CoreTypeOK
  <2>3. UNCHANGED request
    BY <1>2, Zenon DEF Waits, GoWait
  <2> QED BY <2>1, <2>2, <2>3 DEF request, CoreTypeOK
<1>3. CASE Accesses(t)
  <2>1. bus_cnt' \in BOOLEAN /\ req_tog' \in BOOLEAN
    BY <1>3, Zenon DEF Accesses, Start
  <2> QED BY <1>3, <2>1 DEF Accesses, taken, CoreTypeOK
<1> QED BY <1>1, <1>2, <1>3 DEF Continue

Moves == Reset0 \/ Fetch \/ Bus \/ Pause \/ Sleep

LEMMA MovesShape ==
  ASSUME CoreTypeOK, Moves
  PROVE  /\ state' \in {"RESET0", "FETCH", "BUS", "WAIT", "SLEEP"} /\ todo' \in Seq(Micro) /\ wait_n' \in Nat
         /\ nreq' \in Request /\ irq_ack_vector' \in Vectors /\ cur_vec' \in Vectors /\ cls' \in Classes \cup {"none"}
<1>1. CASE Reset0
  <2>1. PICK a \in Addr : Start(a, TRUE)
    BY <1>1, RomAssumption DEF Reset0
  <2>2. todo' \in Seq(Micro)
    BY <1>1, MicroMembers DEF Reset0
  <2> QED BY <1>1, <2>1, <2>2, StartShape DEF Reset0, taken, CoreTypeOK
<1>2. CASE Dispatch
  <2>1. CASE todo # <<Decode>>
    BY <1>2, <2>1, ContinueShape DEF Dispatch, CoreTypeOK
  <2>2. CASE todo = <<Decode>>
    <3>1. PICK c \in Classes : cls' = c /\ Continue(Body[c])
      BY <1>2, <2>2 DEF Dispatch
    <3> QED BY <3>1, BodyType, ContinueShape
  <2> QED BY <2>1, <2>2
<1>3. CASE Finish(noirq) /\ UNCHANGED cls
  BY <1>3, FinishShape DEF CoreTypeOK
<1>4. CASE Still /\ (UNCHANGED wait_n \/ (wait_n > 1 /\ wait_n' = wait_n - 1))
  BY <1>4 DEF Still, taken, CoreTypeOK
<1> QED BY <1>1, <1>2, <1>3, <1>4 DEF Moves, Fetch, Bus, Pause, Sleep, CoreTypeOK

LEMMA MovesFlags ==
  ASSUME CoreTypeOK, Moves
  PROVE  bus_cnt' \in BOOLEAN /\ noirq' \in BOOLEAN /\ ccr_i' \in BOOLEAN /\ req_tog' \in BOOLEAN
         /\ irq_ack_tog' \in BOOLEAN /\ dv_tog' \in BOOLEAN
<1>1. CASE Reset0
  <2>1. bus_cnt' \in BOOLEAN /\ req_tog' \in BOOLEAN
    BY <1>1, Zenon DEF Reset0, Start
  <2> QED BY <1>1, <2>1 DEF Reset0, taken, CoreTypeOK
<1>2. CASE Dispatch
  <2>1. CASE todo # <<Decode>>
    BY <1>2, <2>1, ContinueFlags DEF Dispatch, CoreTypeOK
  <2>2. CASE todo = <<Decode>>
    <3>1. PICK c \in Classes : cls' = c /\ Continue(Body[c])
      BY <1>2, <2>2 DEF Dispatch
    <3> QED BY <3>1, BodyType, ContinueFlags
  <2> QED BY <2>1, <2>2
<1>3. CASE Finish(noirq) /\ UNCHANGED <<ccr_i, dv_tog>>
  BY <1>3, FinishFlags DEF CoreTypeOK
<1>4. CASE Still /\ (bus_cnt' = TRUE \/ UNCHANGED bus_cnt)
  BY <1>4 DEF Still, taken, CoreTypeOK
<1> QED BY <1>1, <1>2, <1>3, <1>4 DEF Moves, Fetch, Bus, Pause, Sleep

LEMMA CoreStepType ==
  ASSUME TypeOK, NEW cen \in BOOLEAN, Core(reset, cen, vector)
  PROVE  /\ state' \in {"RESET0", "FETCH", "BUS", "WAIT", "SLEEP"} /\ todo' \in Seq(Micro) /\ wait_n' \in Nat
         /\ nreq' \in Request /\ irq_ack_vector' \in Vectors /\ cur_vec' \in Vectors /\ cls' \in Classes \cup {"none"}
         /\ bus_cnt' \in BOOLEAN /\ noirq' \in BOOLEAN /\ ccr_i' \in BOOLEAN /\ req_tog' \in BOOLEAN
         /\ irq_ack_tog' \in BOOLEAN /\ dv_tog' \in BOOLEAN
         /\ bus_done' \in BOOLEAN /\ mdata' \in Data /\ irq_vector' \in Vectors
<1>0. CoreTypeOK /\ vector \in Vectors
  BY DEF TypeOK
<1>1. CASE CoreReset
  <2>1. NoRequest \in Request
    BY DEF NoRequest, Request, Data
  <2>2. <<>> \in Seq(Micro) /\ 0 \in Vectors /\ NoWord \in Data
    BY DEF Vectors, Data
  <2> QED BY <1>1, <2>1, <2>2 DEF CoreReset
<1>2. CASE UNCHANGED core
  BY <1>0, <1>2 DEF core, sampled, request, taken, CoreTypeOK
<1>3. CASE bus_done' = w_done /\ mdata' = w_mdata /\ irq_vector' = vector /\ Moves
  <2>1. bus_done' \in BOOLEAN /\ mdata' \in Data /\ irq_vector' \in Vectors
    BY <1>0, <1>3 DEF CoreTypeOK
  <2> QED BY <1>0, <1>3, <2>1, MovesShape, MovesFlags
<1> QED BY <1>1, <1>2, <1>3 DEF Core, Moves

LEMMA WrapperStepType ==
  ASSUME TypeOK, Wrapper(reset, BusAck, BusData)
  PROVE  /\ bus' \in Request /\ w_done' \in BOOLEAN /\ w_mdata' \in Data
         /\ req_tog_d' \in BOOLEAN /\ irq_ack_tog_d' \in BOOLEAN /\ dv_tog_d' \in BOOLEAN /\ div_cnt' \in 0 .. DivClocks
<1>0. CoreTypeOK
  BY DEF TypeOK
<1>1. CASE WrapperReset
  <2>1. NoRequest \in Request
    BY DEF NoRequest, Request, Data
  <2>2. 0 \in 0 .. DivClocks /\ NoWord \in Data
    BY DivAssumption DEF Data
  <2> QED BY <1>1, <2>1, <2>2 DEF WrapperReset
<1>2. CASE ~reset
  <2>1. Standing(BusAck) \in Request
    <3>1. [bus EXCEPT !.rd = FALSE, !.wr = FALSE] \in Request
      BY <1>0 DEF CoreTypeOK, Request
    <3> QED BY <1>0, <3>1 DEF Standing, CoreTypeOK
  <2>2. BusData \in Data
    BY <1>0 DEF BusData, TypeOK, CoreTypeOK, Request
  <2>3. Divider \in 0 .. DivClocks
    BY <1>0, DivAssumption DEF Divider, CoreTypeOK
  <2>4. w_done' \in BOOLEAN
    BY <1>2, Zenon DEF Wrapper, Completion
  <2>5. w_mdata' \in Data
    BY <1>0, <1>2, <2>2 DEF Wrapper, CoreTypeOK
  <2> QED BY <1>0, <1>2, <2>1, <2>3, <2>4, <2>5 DEF Wrapper, CoreTypeOK
<1> QED BY <1>1, <1>2 DEF Wrapper, TypeOK

LEMMA Ports ==
  ASSUME TypeOK, OnChipPort, SharedPort, SoundPort, InputPort, RomPort
  PROVE  /\ int_busy' \in BOOLEAN /\ int_pulse' \in BOOLEAN /\ chip_q' \in Data
         /\ sh_sel_r' \in BOOLEAN /\ b_busy' \in BOOLEAN /\ b_ack' \in BOOLEAN /\ b_q' \in Data
         /\ c_busy' \in BOOLEAN /\ c_p1' \in BOOLEAN /\ c_pulse' \in BOOLEAN /\ c_strobe' \in BOOLEAN /\ c_q' \in Data
         /\ o_busy' \in BOOLEAN /\ o_pulse' \in BOOLEAN
         /\ rom' \in {"idle", "busy", "done"} /\ rom_q' \in Data
<1>1. bus.a \in Data
  BY DEF TypeOK, CoreTypeOK, Request
<1>2. /\ int_busy' \in BOOLEAN /\ int_pulse' \in BOOLEAN
  BY Zenon DEF OnChipPort, Busy, Go
<1>3. sh_sel_r' \in BOOLEAN /\ b_busy' \in BOOLEAN /\ b_ack' \in BOOLEAN
  BY Zenon DEF SharedPort, Go
<1>4. c_busy' \in BOOLEAN /\ c_p1' \in BOOLEAN /\ c_strobe' \in BOOLEAN
  BY Zenon DEF SoundPort, CFirst, Go, Busy
<1>5. o_busy' \in BOOLEAN /\ o_pulse' \in BOOLEAN
  BY Zenon DEF InputPort, Go, Busy
<1>6. c_pulse' \in BOOLEAN /\ chip_q' \in Data /\ b_q' \in Data /\ c_q' \in Data
  BY <1>1 DEF SoundPort, OnChipPort, SharedPort, TypeOK
<1>7. rom' \in {"idle", "busy", "done"} /\ rom_q' \in Data
  BY <1>1 DEF RomPort, TypeOK
<1> QED BY <1>2, <1>3, <1>4, <1>5, <1>6, <1>7

LEMMA IntCtlType ==
  ASSUME TypeOK, NEW cen \in BOOLEAN, IntCtl(cen)
  PROVE  /\ ier5' \in BOOLEAN /\ isr5' \in BOOLEAN /\ irq5_n' \in BOOLEAN /\ irq5_q' \in BOOLEAN /\ irq5_prev' \in BOOLEAN
         /\ pend' \in BOOLEAN /\ vector' \in Vectors
<1>1. irq5_n' \in BOOLEAN
  <2>1. CASE irq5_n' = irq5_n
    BY <2>1 DEF TypeOK
  <2>2. CASE irq5_n' \in Levels
    BY <2>2, EnvAssumption
  <2> QED BY <2>1, <2>2, Zenon DEF IntCtl, Pin
<1>2. CASE reset
  BY <1>1, <1>2 DEF IntCtl, Vectors
<1>3. CASE ~reset
  <2>1. isr5' \in BOOLEAN
    BY <1>3, Zenon DEF IntCtl, Status
  <2>2. pend' \in BOOLEAN
    BY <1>3, Zenon DEF IntCtl
  <2>3. vector' \in Vectors /\ irq5_q' \in BOOLEAN /\ irq5_prev' \in BOOLEAN /\ ier5' \in BOOLEAN
    BY <1>3 DEF IntCtl, Select, Vectors, TypeOK
  <2> QED BY <1>1, <2>1, <2>2, <2>3
<1> QED BY <1>2, <1>3

(* Init and every step keep each register in its range.                    *)
LEMMA InitType == Init => TypeOK
<1> SUFFICES ASSUME Init PROVE TypeOK
  OBVIOUS
<1>1. NoRequest \in Request /\ NoWord \in Data /\ 0 \in Vectors /\ 0 \in 0 .. DivClocks /\ <<>> \in Seq(Micro)
      /\ 1 \in 1 .. MaxGap
  BY DivAssumption, GapAssumption DEF NoRequest, Request, Data, Vectors
<1>2. CoreTypeOK
  BY <1>1 DEF Init, CoreInit, WrapperInit, CoreTypeOK
<1>3. phase \in 1 .. MaxGap /\ chip_q \in Data /\ b_q \in Data /\ c_q \in Data /\ rom_q \in Data /\ vector \in Vectors
      /\ rom \in {"idle", "busy", "done"} /\ hits \in 0 .. 2
  BY <1>1 DEF Init
<1> QED BY <1>2, <1>3 DEF Init, TypeOK

LEMMA TypeStep == TypeOK /\ [Next]_vars => TypeOK'
<1> SUFFICES ASSUME TypeOK, [Next]_vars PROVE TypeOK'
  OBVIOUS
<1>1. CASE Next
  <2>1. PICK cen \in BOOLEAN : Clock(cen)
    BY <1>1 DEF Next
  <2>2. CoreTypeOK'
    BY <2>1, CoreStepType, WrapperStepType DEF Clock, CoreTypeOK
  <2>3. phase' \in 1 .. MaxGap
    BY <2>1, GapAssumption DEF Clock, Enable, TypeOK
  <2>4. reset' \in BOOLEAN /\ owed' \in BOOLEAN
    BY <2>1, Zenon DEF Clock, ResetLine, History
  <2>5. hits' \in 0 .. 2
    BY <2>1 DEF Clock, History, TypeOK
  <2> QED BY <2>1, <2>2, <2>3, <2>4, <2>5, Ports, IntCtlType DEF Clock, TypeOK
<1>2. CASE UNCHANGED vars
  <2>1. CoreTypeOK'
    BY <1>2 DEF vars, core, sampled, request, taken, wrapper, TypeOK, CoreTypeOK
  <2> QED BY <1>2, <2>1 DEF vars, clocking, onchip, intc, shram, sound, inputs, cache, TypeOK
<1> QED BY <1>1, <1>2

(* Each register keeps its range: TypeOK is invariant.                     *)
THEOREM TypeCorrect == Spec => []TypeOK
<1>1. Init => TypeOK
  BY InitType
<1>2. TypeOK /\ [Next]_vars => TypeOK'
  BY TypeStep
<1> QED BY <1>1, <1>2, PTL DEF Spec

-----------------------------------------------------------------------------
(* What an enable does to the bus: the core issues a request, goes where   *)
(* there is none, or waits one state more for the one it has made.         *)
Finished == state = "BUS" /\ bus_cnt /\ bus_done
Idle == ~NewRequest /\ ~req

Issues == /\ state' = "BUS" /\ bus_cnt' = FALSE /\ req_tog' = ~req_tog
          /\ nreq'.rd \/ nreq'.wr
Leaves == state' # "BUS" /\ UNCHANGED <<nreq, req_tog>>
Lingers == state = "BUS" /\ ~Finished /\ state' = "BUS" /\ bus_cnt' = TRUE /\ UNCHANGED <<nreq, req_tog>>
Samples == bus_done' = w_done /\ mdata' = w_mdata /\ irq_vector' = vector

LEMMA StartIssues == ASSUME NEW a, NEW rd \in BOOLEAN, Start(a, rd) PROVE Issues
<1>1. nreq'.rd = rd /\ nreq'.wr = ~rd
  BY DEF Start
<1>2. nreq'.rd \/ nreq'.wr
  BY <1>1, Zenon
<1> QED BY <1>2, Zenon DEF Start, Issues

LEMMA WaitLeaves == ASSUME NEW n, GoWait(n) PROVE Leaves
BY DEF GoWait, request, Leaves

LEMMA FinishBus == ASSUME NEW early, Finish(early) PROVE Issues \/ Leaves
BY StartIssues, WaitLeaves, Zenon DEF Finish, Take, NextInstruction

LEMMA ContinueBus == ASSUME NEW t, Continue(t) PROVE Issues \/ Leaves
<1>1. CASE Ends(t)
  <2>1. CASE Finish(noirq) \/ Finish(TRUE)
    BY <2>1, FinishBus
  <2>2. CASE state' = "FETCH" /\ UNCHANGED request
    BY <2>2 DEF request, Leaves
  <2> QED BY <1>1, <2>1, <2>2 DEF Ends
<1>2. CASE Waits(t)
  <2>1. CASE state' = "SLEEP" /\ UNCHANGED request
    BY <2>1 DEF request, Leaves
  <2> QED BY <1>2, <2>1, WaitLeaves DEF Waits
<1>3. CASE Accesses(t)
  BY <1>3, StartIssues, Zenon DEF Accesses
<1> QED BY <1>1, <1>2, <1>3 DEF Continue

LEMMA MovesBus == ASSUME Moves PROVE ((state = "BUS" => Finished) /\ (Issues \/ Leaves)) \/ Lingers
<1>1. CASE Reset0
  BY <1>1, StartIssues, Zenon DEF Reset0
<1>2. CASE Dispatch /\ (state = "BUS" => Finished)
  BY <1>2, ContinueBus DEF Dispatch
<1>3. CASE Finish(noirq) /\ state # "BUS"
  BY <1>3, FinishBus
<1>4. CASE Still /\ state # "BUS"
  BY <1>4 DEF Still, Leaves
<1>5. CASE Still /\ state = "BUS" /\ ~Finished /\ bus_cnt' = TRUE
  BY <1>5 DEF Still, Lingers
<1> QED BY <1>1, <1>2, <1>3, <1>4, <1>5 DEF Moves, Fetch, Bus, Pause, Sleep, Finished

LEMMA CoreBus ==
  ASSUME NEW cen \in BOOLEAN, ~reset, Core(reset, cen, vector)
  PROVE  \/ ~cen /\ UNCHANGED core
         \/ cen /\ Samples /\ (state = "BUS" => Finished) /\ Issues
         \/ cen /\ Samples /\ (state = "BUS" => Finished) /\ Leaves
         \/ cen /\ Samples /\ Lingers
BY MovesBus DEF Core, Moves, Samples

-----------------------------------------------------------------------------
(* The wrapper between them.  A request the core has issued is on the bus  *)
(* a clock later and falls with its ack; what the core looks at two        *)
(* enables later is the ack and the word of that request.                  *)
Handshake ==
  /\ NewRequest => phase = 1 /\ ~req /\ state = "BUS" /\ ~bus_cnt /\ (nreq.rd \/ nreq.wr)
  /\ req => ~NewRequest /\ bus = nreq /\ ~w_done /\ state = "BUS" /\ ~Finished
  /\ state = "BUS" /\ Idle => w_done /\ (nreq.rd => w_mdata = nreq.a)
  /\ Finished => Idle /\ (nreq.rd => mdata = nreq.a)

(* Each slave makes its one access where it should, and has the word of    *)
(* the standing address when it acks.                                      *)
OnChipServes ==
  /\ int_pulse => int_busy /\ At(OnChip) /\ chip_q = bus.a /\ phase = 3 /\ ~bus_cnt
  /\ int_busy /\ req => int_pulse
  /\ At(OnChip) /\ ~int_busy => phase = 2 /\ ~bus_cnt
SharedServes ==
  /\ b_ack => b_busy /\ (req => bus.a \in Shared /\ b_q = bus.a)
  /\ sh_sel_r /\ req => bus.a \in Shared
  /\ b_busy /\ req => b_ack
SoundServes ==
  /\ c_p1 <=> c_strobe
  /\ c_p1 => At(C352) /\ c_busy /\ ~c_pulse
  /\ c_pulse => At(C352) /\ c_busy /\ c_q = bus.a
  /\ c_busy /\ req => c_p1 \/ c_pulse
InputsServe ==
  /\ o_pulse => At(Inputs) /\ o_busy
  /\ o_busy /\ req => o_pulse
RomServes ==
  /\ rom # "idle" /\ RomReq => rom_q = bus.a
  /\ rom = "idle" /\ RomReq => phase = 2
  /\ ~reset /\ rom = "busy" => RomReq
  /\ ~reset /\ rom = "done" /\ ~RomReq => state = "BUS" /\ ~Finished /\ Idle
Slaves == OnChipServes /\ SharedServes /\ SoundServes /\ InputsServe /\ RomServes

Answers == req /\ BusAck
Arrives  == NewRequest /\ bus' = nreq /\ ~w_done' /\ w_mdata' = w_mdata
Falls    == ~NewRequest /\ Answers /\ ~req' /\ w_done' /\ w_mdata' = BusData
Stands   == ~NewRequest /\ ~Answers /\ bus' = bus /\ w_done' = w_done /\ w_mdata' = w_mdata

LEMMA Resets ==
  ASSUME NEW cen \in BOOLEAN, reset, Clock(cen)
  PROVE  ~NewRequest' /\ ~req' /\ state' = "RESET0" /\ ~bus_done' /\ ~irq_ack' /\ todo' = <<>> /\ dv_tog' = dv_tog_d'
         /\ ~int_busy' /\ ~int_pulse' /\ ~c_p1' /\ ~c_pulse' /\ ~c_strobe' /\ ~o_pulse' /\ ~o_busy'
<1>1. state' = "RESET0" /\ ~bus_done' /\ todo' = <<>> /\ req_tog' = FALSE /\ irq_ack_tog' = FALSE /\ dv_tog' = FALSE
  BY DEF Clock, Core, CoreReset
<1>2. bus' = NoRequest /\ req_tog_d' = FALSE /\ irq_ack_tog_d' = FALSE /\ dv_tog_d' = FALSE
  BY DEF Clock, Wrapper, WrapperReset
<1>3. ~req'
  BY <1>2 DEF req, NoRequest
<1>4. ~int_busy' /\ ~int_pulse' /\ ~c_p1' /\ ~c_pulse' /\ ~c_strobe' /\ ~o_pulse' /\ ~o_busy'
  BY DEF Clock, OnChipPort, SoundPort, InputPort
<1> QED BY <1>1, <1>2, <1>3, <1>4 DEF NewRequest, irq_ack

LEMMA WrapperBus ==
  ASSUME TypeOK, ~reset, Wrapper(reset, BusAck, BusData), Handshake
  PROVE  /\ Arrives \/ Falls \/ Stands
         /\ req_tog_d' = req_tog
<1>1. bus \in Request
  BY DEF TypeOK, CoreTypeOK
<1>2. NewRequest => ~req
  BY DEF Handshake
<1>3. CASE NewRequest
  <2>1. ~w_done'
    BY <1>3, Zenon DEF Wrapper, Completion
  <2> QED BY <1>2, <1>3, <2>1 DEF Wrapper, Standing, Answered, req, Arrives
<1>4. CASE ~NewRequest /\ Answers
  <2>1. bus' = [bus EXCEPT !.rd = FALSE, !.wr = FALSE]
    BY <1>4 DEF Wrapper, Standing, Answers, Answered, req
  <2>2. ~req'
    BY <1>1, <2>1 DEF req, Request
  <2>3. w_done'
    BY <1>4, Zenon DEF Wrapper, Completion, Answers, Answered, req
  <2> QED BY <1>4, <2>2, <2>3 DEF Wrapper, Answers, Answered, req, Falls
<1>5. CASE ~NewRequest /\ ~Answers
  <2>1. w_done' = w_done
    BY <1>5, Zenon DEF Wrapper, Completion, Answers, Answered, req, TypeOK, CoreTypeOK
  <2> QED BY <1>5, <2>1 DEF Wrapper, Standing, Answers, Answered, req, Stands
<1>6. req_tog_d' = req_tog
  BY DEF Wrapper
<1> QED BY <1>3, <1>4, <1>5, <1>6

LEMMA OwnAnswer == ASSUME TypeOK, Slaves, Answers, bus.rd PROVE BusData = bus.a
<1>1. bus.a \in Rom /\ rom = "done" => rom_q = bus.a
  BY DEF Slaves, RomServes, RomReq
<1> QED BY <1>1, DecodeAssumption DEF Answers, BusAck, BusData, Slaves, OnChipServes, SharedServes, SoundServes

LEMMA HandshakeStep ==
  ASSUME MinGap >= 3, TypeOK, Handshake, Slaves, NEW cen \in BOOLEAN, Clock(cen)
  PROVE  Handshake'
<1>1. CASE reset
  BY <1>1, Resets DEF Handshake, Finished
<1>2. CASE ~reset
  <2>1. Wrapper(reset, BusAck, BusData) /\ Core(reset, cen, vector) /\ Enable(cen)
    BY DEF Clock
  <2>2. req_tog_d' = req_tog /\ (Arrives \/ Falls \/ Stands)
    BY <1>2, <2>1, WrapperBus
  <2>3. nreq \in Request /\ req_tog \in BOOLEAN /\ phase \in Nat
    BY DEF TypeOK, CoreTypeOK
  <2>4. CASE ~cen /\ UNCHANGED core
    <3>1. ~NewRequest' /\ UNCHANGED <<state, nreq, bus_cnt, bus_done, mdata>>
      BY <2>2, <2>4 DEF core, sampled, request, NewRequest
    <3>2. Finished' = Finished
      BY <3>1 DEF Finished
    <3>3. CASE Arrives
      BY <2>3, <3>1, <3>2, <3>3 DEF Arrives, Handshake, Idle, req, Finished
    <3>4. CASE Falls
      BY <2>3, <3>1, <3>2, <3>4, OwnAnswer DEF Falls, Handshake, Idle, Answers
    <3>5. CASE Stands
      BY <2>3, <3>1, <3>2, <3>5 DEF Stands, Handshake, Idle, req
    <3> QED BY <2>2, <3>3, <3>4, <3>5
  <2>5. CASE cen /\ Samples
    <3>1. ~NewRequest /\ (Falls \/ Stands)
      BY <2>1, <2>2, <2>3, <2>5, GapAssumption DEF Enable, Handshake, Arrives
    <3>2. CASE (state = "BUS" => Finished) /\ Issues
      <4>1. ~req /\ Stands
        BY <3>1, <3>2 DEF Handshake, Falls, Answers
      <4>2. NewRequest' /\ ~Idle' /\ ~Finished' /\ state' = "BUS" /\ ~bus_cnt'
        BY <2>2, <2>3, <3>2 DEF Issues, NewRequest, Idle, Finished
      <4>3. phase' = 1 /\ ~req'
        BY <2>1, <2>5, <4>1 DEF Enable, Stands, req
      <4> QED BY <3>2, <4>2, <4>3 DEF Issues, Handshake
    <3>3. CASE (state = "BUS" => Finished) /\ Leaves
      <4>1. ~req /\ Stands
        BY <3>1, <3>3 DEF Handshake, Falls, Answers
      <4>2. ~NewRequest' /\ ~Finished' /\ state' # "BUS" /\ ~req'
        BY <2>2, <3>3, <4>1 DEF Leaves, NewRequest, Finished, Stands, req
      <4> QED BY <4>2 DEF Handshake
    <3>4. CASE Lingers
      <4>1. ~NewRequest' /\ state' = "BUS" /\ state = "BUS" /\ UNCHANGED nreq
        BY <2>2, <3>4 DEF Lingers, NewRequest
      <4>2. CASE Falls
        <5>1. ~req' /\ w_done' /\ req /\ (nreq.rd => w_mdata' = nreq.a)
          BY <2>3, <4>2, OwnAnswer DEF Falls, Answers, Handshake
        <5>2. ~Finished'
          BY <2>5, <5>1 DEF Samples, Finished, Handshake
        <5> QED BY <4>1, <5>1, <5>2 DEF Handshake
      <4>3. CASE Stands
        <5>1. req' = req /\ w_done' = w_done /\ w_mdata' = w_mdata
          BY <4>3 DEF Stands, req
        <5>2. Finished' => w_done /\ mdata' = w_mdata
          BY <2>5 DEF Samples, Finished
        <5> QED BY <3>1, <4>1, <4>3, <5>1, <5>2 DEF Handshake, Idle, Stands
      <4> QED BY <3>1, <4>2, <4>3
    <3> QED BY <1>2, <2>1, <2>5, <3>2, <3>3, <3>4, CoreBus
  <2> QED BY <1>2, <2>1, <2>4, <2>5, CoreBus
<1> QED BY <1>1, <1>2

(* A standing request was issued two clocks ago, or stood unanswered.      *)
LEMMA RequestStep ==
  ASSUME MinGap >= 3, TypeOK, Handshake, NEW cen \in BOOLEAN, Clock(cen), req'
  PROVE  /\ ~reset
         /\ \/ NewRequest /\ ~req /\ phase' = 2 /\ ~bus_cnt'
            \/ req /\ ~Answers /\ bus' = bus
<1>1. ~reset
  BY Resets
<1>2. Arrives \/ Falls \/ Stands
  BY <1>1, WrapperBus DEF Clock
<1>3. CASE Arrives
  <2>1. phase = 1 /\ ~req /\ ~bus_cnt
    BY <1>3 DEF Arrives, Handshake
  <2>2. ~cen /\ phase' = 2
    BY <2>1, GapAssumption DEF Clock, Enable
  <2> QED BY <1>1, <1>3, <2>1, <2>2 DEF Clock, Core, core, request, Arrives
<1>4. CASE Stands
  BY <1>1, <1>4 DEF Stands, req
<1> QED BY <1>1, <1>2, <1>3, <1>4 DEF Falls

LEMMA OnChipStep ==
  ASSUME MinGap >= 3, TypeOK, Handshake, OnChipServes, NEW cen \in BOOLEAN, Clock(cen)
  PROVE  OnChipServes'
<1>1. CASE ~reset /\ int_pulse'
  <2>1. At(OnChip) /\ ~int_busy /\ phase = 2 /\ ~bus_cnt /\ int_busy' /\ chip_q' = bus.a
    BY <1>1 DEF Clock, OnChipPort, Go, Busy, OnChipServes
  <2>2. ~Answers
    BY <2>1, DecodeAssumption DEF At, Answers, BusAck, OnChipServes
  <2>3. ~cen /\ phase' = 3
    BY <2>1, GapAssumption DEF Clock, Enable
  <2>4. Stands
    BY <1>1, <2>1, <2>2, WrapperBus DEF Clock, Arrives, Falls, Handshake, At
  <2>5. ~bus_cnt' /\ bus' = bus
    BY <1>1, <2>1, <2>3, <2>4 DEF Clock, Core, core, request, Stands
  <2> QED BY <1>1, <2>1, <2>3, <2>5 DEF OnChipServes, At, req
<1>2. CASE ~reset /\ ~int_pulse'
  <2>1. ~(int_busy' /\ req')
    <3>1. SUFFICES ASSUME int_busy', req' PROVE FALSE
      OBVIOUS
    <3>2. int_busy /\ req
      BY <1>2, <3>1 DEF Clock, OnChipPort, Busy, Go
    <3>3. Answers
      BY <3>2 DEF OnChipServes, Answers, BusAck, At
    <3> QED BY <3>1, <3>2, <3>3, RequestStep
  <2>2. ASSUME At(OnChip)', ~int_busy' PROVE phase' = 2 /\ ~bus_cnt'
    <3>1. req' /\ ~Go(At(OnChip), int_busy) /\ ~(int_busy /\ req)
      BY <1>2, <2>2 DEF Clock, OnChipPort, Busy, At
    <3>2. CASE req /\ bus' = bus
      BY <2>2, <3>1, <3>2 DEF At, Go
    <3> QED BY <3>1, <3>2, RequestStep
  <2> QED BY <1>2, <2>1, <2>2 DEF OnChipServes
<1>3. CASE reset
  BY <1>3, Resets DEF OnChipServes, At
<1> QED BY <1>1, <1>2, <1>3

LEMMA SharedStep ==
  ASSUME MinGap >= 3, TypeOK, Handshake, SharedServes, NEW cen \in BOOLEAN, Clock(cen)
  PROVE  SharedServes'
<1>1. ASSUME b_ack', req' PROVE bus'.a \in Shared /\ b_q' = bus'.a
  <2>1. req /\ sh_sel_r /\ b_q' = bus.a
    BY <1>1 DEF Clock, SharedPort, Go, SharedReq
  <2>2. bus' = bus
    BY <1>1, <2>1, RequestStep
  <2> QED BY <2>1, <2>2 DEF SharedServes
<1>2. ASSUME sh_sel_r', req' PROVE bus'.a \in Shared
  <2>1. At(Shared)
    BY <1>2 DEF Clock, SharedPort
  <2> QED BY <1>2, <2>1, RequestStep DEF At
<1>3. ASSUME b_busy', req' PROVE b_ack'
  <2>1. SUFFICES ASSUME b_busy, SharedReq PROVE FALSE
    BY <1>3 DEF Clock, SharedPort
  <2>2. Answers
    BY <2>1 DEF SharedServes, SharedReq, Answers, BusAck
  <2> QED BY <1>3, <2>1, <2>2, RequestStep DEF SharedReq
<1>4. b_ack' => b_busy'
  BY DEF Clock, SharedPort
<1> QED BY <1>1, <1>2, <1>3, <1>4 DEF SharedServes

LEMMA SoundStep ==
  ASSUME MinGap >= 3, TypeOK, Handshake, SoundServes, NEW cen \in BOOLEAN, Clock(cen)
  PROVE  SoundServes'
<1>1. CASE reset
  BY <1>1, Resets DEF SoundServes
<1>2. CASE ~reset
  <2>1. c_p1' = CFirst /\ c_pulse' = c_p1 /\ c_strobe' = CFirst /\ c_busy' = Busy(At(C352), c_busy)
        /\ c_q' = IF c_strobe THEN bus.a ELSE c_q
    BY <1>2 DEF Clock, SoundPort
  <2>2. CFirst => At(C352) /\ ~c_busy /\ ~c_p1 /\ ~c_pulse
    BY DEF CFirst, Go, SoundServes
  <2>3. At(C352) /\ ~c_pulse => Stands /\ req' /\ At(C352)'
    <3>1. SUFFICES ASSUME At(C352), ~c_pulse PROVE Stands /\ req' /\ At(C352)'
      OBVIOUS
    <3>2. ~Answers
      BY <3>1, DecodeAssumption DEF At, Answers, BusAck
    <3>3. Stands
      BY <1>2, <3>1, <3>2, WrapperBus DEF Clock, Arrives, Falls, Handshake, At
    <3> QED BY <3>1, <3>3 DEF Stands, At, req
  <2>4. c_p1' <=> c_strobe'
    BY <2>1
  <2>5. c_p1' => At(C352)' /\ c_busy' /\ ~c_pulse'
    BY <2>1, <2>2, <2>3 DEF CFirst, Busy
  <2>6. c_pulse' => At(C352)' /\ c_busy' /\ c_q' = bus'.a
    BY <2>1, <2>3 DEF SoundServes, Busy, At, Stands
  <2>7. ASSUME c_busy', req' PROVE c_p1' \/ c_pulse'
    <3>1. SUFFICES ASSUME c_busy, req, ~c_p1 PROVE FALSE
      BY <2>1, <2>7 DEF Busy, CFirst
    <3>2. c_pulse /\ At(C352)
      BY <3>1 DEF SoundServes
    <3> QED BY <2>7, <3>1, <3>2, RequestStep DEF Answers, BusAck, At
  <2> QED BY <2>4, <2>5, <2>6, <2>7 DEF SoundServes
<1> QED BY <1>1, <1>2

LEMMA InputsStep ==
  ASSUME MinGap >= 3, TypeOK, Handshake, InputsServe, NEW cen \in BOOLEAN, Clock(cen)
  PROVE  InputsServe'
<1>1. CASE reset
  BY <1>1, Resets DEF InputsServe
<1>2. CASE ~reset
  <2>1. o_pulse' = Go(At(Inputs), o_busy) /\ o_busy' = Busy(At(Inputs), o_busy)
    BY <1>2 DEF Clock, InputPort
  <2>2. ASSUME o_pulse' PROVE At(Inputs)' /\ o_busy'
    <3>1. At(Inputs) /\ ~o_busy /\ ~o_pulse
      BY <2>1, <2>2 DEF Go, InputsServe
    <3>2. ~Answers
      BY <3>1, DecodeAssumption DEF At, Answers, BusAck
    <3>3. Stands
      BY <1>2, <3>1, <3>2, WrapperBus DEF Clock, Arrives, Falls, Handshake, At
    <3> QED BY <2>1, <2>2, <3>1, <3>3 DEF Stands, At, req, Busy
  <2>3. ASSUME o_busy', req' PROVE o_pulse'
    <3>1. SUFFICES ASSUME o_busy, req PROVE FALSE
      BY <2>1, <2>3 DEF Busy
    <3>2. Answers
      BY <3>1 DEF InputsServe, Answers, BusAck, At
    <3> QED BY <2>3, <3>1, <3>2, RequestStep
  <2> QED BY <2>2, <2>3 DEF InputsServe
<1> QED BY <1>1, <1>2

(* A request that is answered leaves the core waiting for it.              *)
LEMMA AnsweredStep ==
  ASSUME TypeOK, Handshake, NEW cen \in BOOLEAN, Clock(cen), ~reset, Answers
  PROVE  Falls /\ Idle' /\ state' = "BUS" /\ ~Finished'
<1>1. req /\ ~NewRequest /\ ~w_done /\ state = "BUS" /\ ~Finished
  BY DEF Answers, Handshake
<1>2. Falls /\ req_tog_d' = req_tog
  BY <1>1, WrapperBus DEF Clock, Arrives, Stands
<1>3. CASE UNCHANGED core
  BY <1>1, <1>2, <1>3 DEF core, sampled, request, Falls, Idle, NewRequest, Finished
<1>4. CASE Samples /\ Lingers
  BY <1>1, <1>2, <1>4 DEF Samples, Lingers, Falls, Idle, NewRequest, Finished
<1> QED BY <1>1, <1>3, <1>4, CoreBus DEF Clock

LEMMA RomStep ==
  ASSUME MinGap >= 3, TypeOK, Handshake, RomServes, NEW cen \in BOOLEAN, Clock(cen)
  PROVE  RomServes'
<1>0. RomPort /\ rom \in {"idle", "busy", "done"} /\ (RomReq => req)
  BY DEF Clock, TypeOK, RomReq, req
<1>1. RomReq /\ rom = "done" => Answers
  BY DEF RomReq, req, Answers, BusAck
<1>2. RomReq /\ rom # "done" => ~Answers
  BY DecodeAssumption DEF RomReq, Answers, BusAck
<1>3. ASSUME ~reset, RomReq, rom # "done" PROVE RomReq' /\ bus' = bus
  <2>1. Stands
    BY <1>0, <1>2, <1>3, WrapperBus DEF Clock, Arrives, Falls, Handshake
  <2> QED BY <1>3, <2>1 DEF Stands, RomReq
<1>4. ASSUME RomReq' PROVE /\ ~reset
                           /\ \/ ~RomReq /\ rom = "idle" /\ phase' = 2
                              \/ RomReq /\ rom # "done" /\ bus' = bus
  <2>1. req'
    BY <1>4 DEF RomReq, req
  <2>2. ~reset
    BY <2>1, RequestStep
  <2>3. CASE NewRequest /\ ~req /\ phase' = 2
    BY <1>0, <2>2, <2>3 DEF RomServes, Idle
  <2>4. CASE req /\ ~Answers /\ bus' = bus
    BY <1>1, <1>4, <2>2, <2>4 DEF RomReq
  <2> QED BY <2>1, <2>2, <2>3, <2>4, RequestStep
<1>5. rom' # "idle" /\ RomReq' => rom_q' = bus'.a
  BY <1>0, <1>4 DEF RomPort, RomServes
<1>6. rom' = "idle" /\ RomReq' => phase' = 2
  BY <1>0, <1>4 DEF RomPort, RomServes
<1>7. ASSUME ~reset' PROVE ~reset \/ (reset /\ rom' # "done" /\ rom' # "busy")
  <2>1. SUFFICES ASSUME reset PROVE rom = "idle" /\ ~RomReq
    BY <1>0, <1>7, <2>1 DEF RomPort
  <2>2. cen /\ rom = "idle"
    BY <1>7, <2>1 DEF Clock, ResetLine, HeldLongerThanAccess
  <2>3. phase >= 3
    BY <2>2, GapAssumption DEF Clock, Enable, TypeOK
  <2> QED BY <2>2, <2>3 DEF RomServes
<1>8. ASSUME ~reset', rom' = "busy" PROVE RomReq'
  <2>1. RomReq /\ rom # "done"
    BY <1>0, <1>7, <1>8 DEF RomPort, RomServes
  <2> QED BY <1>3, <1>7, <1>8, <2>1
<1>9. ASSUME ~reset', rom' = "done", ~RomReq' PROVE state' = "BUS" /\ ~Finished' /\ Idle'
  <2>1. ~reset /\ RomReq /\ rom = "done"
    BY <1>0, <1>3, <1>7, <1>9 DEF RomPort, RomServes
  <2> QED BY <1>1, <2>1, AnsweredStep
<1> QED BY <1>5, <1>6, <1>8, <1>9 DEF RomServes

LEMMA SlavesStep ==
  ASSUME MinGap >= 3, TypeOK, Handshake, Slaves, NEW cen \in BOOLEAN, Clock(cen)
  PROVE  Slaves'
BY OnChipStep, SharedStep, SoundStep, InputsStep, RomStep DEF Slaves

(* Words: the invariant behind OwnWord.                                    *)
Words == TypeOK /\ Handshake /\ Slaves

LEMMA InitWords == Init => Words
<1> SUFFICES ASSUME Init PROVE Words
  OBVIOUS
<1>1. TypeOK
  BY InitType
<1>2. ~NewRequest /\ ~req /\ state = "RESET0" /\ ~int_pulse /\ ~int_busy /\ ~b_ack /\ ~sh_sel_r /\ ~c_p1 /\ ~c_strobe
      /\ ~c_pulse /\ ~o_pulse /\ rom = "idle"
  BY DEF Init, CoreInit, WrapperInit, NewRequest, req, NoRequest
<1>3. Handshake
  BY <1>2 DEF Handshake, Finished
<1>4. Slaves
  BY <1>2 DEF Slaves, OnChipServes, SharedServes, SoundServes, InputsServe, RomServes, At, RomReq, req
<1> QED BY <1>1, <1>3, <1>4 DEF Words

LEMMA Stutter ==
  ASSUME UNCHANGED vars
  PROVE  /\ UNCHANGED <<state, todo, cls, wait_n, bus_done, mdata, irq_vector, noirq, ccr_i, nreq, req_tog, bus_cnt,
                        irq_ack_tog, irq_ack_vector, cur_vec, dv_tog>>
         /\ UNCHANGED <<bus, w_done, w_mdata, req_tog_d, irq_ack_tog_d, dv_tog_d, div_cnt, reset, phase>>
         /\ UNCHANGED <<int_busy, int_pulse, chip_q, ier5, isr5, irq5_n, irq5_q, irq5_prev, pend, vector>>
         /\ UNCHANGED <<sh_sel_r, b_busy, b_ack, b_q, c_busy, c_p1, c_pulse, c_strobe, c_q, o_busy, o_pulse, rom, rom_q,
                        hits, owed>>
BY DEF vars, core, sampled, request, taken, wrapper, clocking, onchip, intc, shram, sound, inputs, cache

LEMMA WordsStep == ASSUME MinGap >= 3, Words, [Next]_vars PROVE Words'
<1>1. TypeOK'
  BY TypeStep DEF Words
<1>2. CASE Next
  <2>1. PICK cen \in BOOLEAN : Clock(cen)
    BY <1>2 DEF Next
  <2> QED BY <1>1, <2>1, HandshakeStep, SlavesStep DEF Words
<1>3. CASE UNCHANGED vars
  <2>1. Handshake'
    BY <1>3, Stutter DEF Words, Handshake, Finished, Idle, NewRequest, req
  <2>2. Slaves'
    BY <1>3, Stutter DEF Words, Slaves, OnChipServes, SharedServes, SoundServes, InputsServe, RomServes, At, RomReq, req,
                         Finished, Idle, NewRequest
  <2> QED BY <1>1, <2>1, <2>2 DEF Words
<1> QED BY <1>2, <1>3

(* What an access completes with is the word of the address it asked for,  *)
(* whichever slave answers and however the clocks fall, when there are at  *)
(* least three of them from one enable to the next.                        *)
THEOREM OwnWordCorrect == ASSUME MinGap >= 3 PROVE Spec => []OwnWord
<1>1. Words => OwnWord
  BY DEF Words, OwnWord, Handshake, Finished
<1>2. Words /\ [Next]_vars => Words'
  BY WordsStep
<1> QED BY InitWords, <1>1, <1>2, PTL DEF Spec

-----------------------------------------------------------------------------
(* How often a slave has been accessed for the standing request: not at    *)
(* all until the clock before its ack, except where the access is made on  *)
(* the ack itself, and once when the ack has come.                         *)
Made == \/ bus.a \in Shared /\ b_ack
        \/ bus.a \in C352 /\ c_pulse
        \/ bus.a \in Inputs /\ o_pulse
        \/ RomReq /\ rom = "done"
Counted ==
  /\ hits < 2
  /\ req => hits = IF Made THEN 1 ELSE 0
  /\ state = "BUS" /\ Idle => hits = 1

LEMMA AccessesAsked == ASSUME Slaves, ~reset, Accessed PROVE req
BY DEF Slaves, OnChipServes, SoundServes, RomServes, RomReq, Accessed, SharedReq, Go, At, req

LEMMA AccessedAtAnswer ==
  ASSUME TypeOK, Slaves, ~reset, req, Answers
  PROVE  (Made /\ ~Accessed) \/ (~Made /\ Accessed)
<1>1. CASE bus.a \in OnChip
  BY <1>1, DecodeAssumption DEF Answers, BusAck, Made, Accessed, RomReq
<1>2. CASE bus.a \in Shared
  <2>1. b_ack /\ b_busy
    BY <1>2, DecodeAssumption DEF Answers, BusAck, Slaves, SharedServes
  <2> QED BY <1>2, <2>1, DecodeAssumption DEF Made, Accessed, Go, SharedReq, At, Slaves, SoundServes, RomServes, RomReq
<1>3. CASE bus.a \in C352
  <2>1. c_pulse /\ ~c_strobe
    BY <1>3, DecodeAssumption DEF Answers, BusAck, Slaves, SoundServes
  <2> QED BY <1>3, <2>1, DecodeAssumption DEF Made, Accessed, Go, SharedReq, At, Slaves, SharedServes, RomServes, RomReq
<1>4. CASE bus.a \in Inputs
  <2>1. o_pulse /\ o_busy
    BY <1>4, DecodeAssumption DEF Answers, BusAck, Slaves, InputsServe
  <2> QED BY <1>4, <2>1, DecodeAssumption
          DEF Made, Accessed, Go, SharedReq, At, Slaves, SharedServes, SoundServes, RomServes, RomReq
<1>5. CASE bus.a \in Rom
  <2>1. rom = "done"
    BY <1>5, DecodeAssumption DEF Answers, BusAck
  <2>2. RomReq
    BY <2>1 DEF Slaves, RomServes, Idle
  <2> QED BY <1>5, <2>1, <2>2, DecodeAssumption
          DEF Made, Accessed, Go, SharedReq, At, Slaves, SharedServes, SoundServes
<1> QED BY <1>1, <1>2, <1>3, <1>4, <1>5 DEF Answers, BusAck

LEMMA AccessedWaiting ==
  ASSUME TypeOK, Handshake, Slaves, NEW cen \in BOOLEAN, Clock(cen), ~reset, req, ~Answers
  PROVE  /\ Stands /\ req' /\ ~Made
         /\ Made' <=> Accessed
<1>1. Stands
  BY WrapperBus DEF Clock, Arrives, Falls, Handshake
<1>2. req' /\ RomReq' = RomReq /\ bus' = bus
  BY <1>1 DEF Stands, req, RomReq
<1>3. ~Made /\ ~(int_pulse /\ bus.a \in OnChip) /\ ~(RomReq /\ rom = "done")
  BY DEF Answers, BusAck, Made, RomReq
<1>4. b_ack' <=> Go(SharedReq, b_busy)
  BY DEF Clock, SharedPort
<1>5. c_pulse' <=> c_strobe
  BY DEF Clock, SoundPort, Slaves, SoundServes
<1>6. o_pulse' <=> Go(At(Inputs), o_busy)
  BY DEF Clock, InputPort
<1>7. RomReq /\ rom' = "done" <=> rom = "busy" /\ rom' = "done"
  BY <1>3 DEF Clock, RomPort, Slaves, RomServes
<1>8. /\ Go(SharedReq, b_busy) => bus.a \in Shared
      /\ c_strobe => bus.a \in C352
      /\ Go(At(Inputs), o_busy) => bus.a \in Inputs
  BY DEF Go, SharedReq, At, Slaves, SharedServes, SoundServes
<1>9. Made' <=> Accessed
  BY <1>2, <1>3, <1>4, <1>5, <1>6, <1>7, <1>8, Zenon DEF Made, Accessed
<1> QED BY <1>1, <1>2, <1>3, <1>9

LEMMA NothingMadeYet ==
  ASSUME MinGap >= 3, TypeOK, Handshake, Slaves, NEW cen \in BOOLEAN, Clock(cen), ~reset, NewRequest
  PROVE  req' /\ ~Made'
<1>1. ~req /\ bus' = nreq /\ (nreq.rd \/ nreq.wr)
  BY WrapperBus DEF Clock, Arrives, Falls, Stands, Handshake
<1>2. req'
  BY <1>1 DEF req
<1>3. ~b_ack' /\ ~c_pulse' /\ ~o_pulse'
  BY <1>1 DEF Clock, SharedPort, SoundPort, InputPort, Go, SharedReq, At, Slaves, SoundServes
<1>4. rom = "idle" /\ ~RomReq
  BY <1>1 DEF TypeOK, Slaves, RomServes, Idle, RomReq, req
<1>5. rom' = "idle"
  BY <1>4 DEF Clock, RomPort
<1> QED BY <1>2, <1>3, <1>5 DEF Made

LEMMA CountedStep ==
  ASSUME MinGap >= 3, Words, Counted, NEW cen \in BOOLEAN, Clock(cen)
  PROVE  Counted'
<1>0. TypeOK /\ Handshake /\ Slaves /\ hits \in Nat
  BY DEF Words, TypeOK
<1>1. hits' = IF reset \/ NewRequest THEN 0 ELSE IF Accessed /\ hits < 2 THEN hits + 1 ELSE hits
  BY DEF Clock, History
<1>2. CASE reset
  BY <1>1, <1>2, Resets DEF Counted
<1>3. CASE ~reset /\ NewRequest
  BY <1>0, <1>1, <1>3, NothingMadeYet DEF Counted, Idle
<1>4. CASE ~reset /\ ~NewRequest /\ req /\ Answers
  <2>1. hits' = 1
    BY <1>0, <1>1, <1>4, AccessedAtAnswer DEF Counted
  <2> QED BY <1>0, <1>4, <2>1, AnsweredStep DEF Counted, Idle
<1>5. CASE ~reset /\ ~NewRequest /\ req /\ ~Answers
  <2>1. ~Made /\ (Made' <=> Accessed) /\ req'
    BY <1>0, <1>5, AccessedWaiting
  <2> QED BY <1>0, <1>1, <1>5, <2>1 DEF Counted, Idle
<1>6. CASE ~reset /\ Idle
  <2>1. hits' = hits
    BY <1>0, <1>1, <1>6, AccessesAsked DEF Idle
  <2>2. Stands /\ req_tog_d' = req_tog
    BY <1>0, <1>6, WrapperBus DEF Clock, Arrives, Falls, Answers, Idle
  <2>3. ~req'
    BY <1>6, <2>2 DEF Stands, Idle, req
  <2>4. state' = "BUS" /\ Idle' => state = "BUS"
    <3>1. CASE UNCHANGED core
      BY <3>1 DEF core
    <3>2. CASE Issues
      BY <1>0, <2>2, <3>2 DEF Issues, Idle, NewRequest, TypeOK, CoreTypeOK
    <3> QED BY <1>6, <3>1, <3>2, CoreBus DEF Clock, Leaves, Lingers
  <2> QED BY <1>6, <2>1, <2>3, <2>4 DEF Counted
<1> QED BY <1>2, <1>3, <1>4, <1>5, <1>6 DEF Idle

(* Each request has its slave perform one access, never two, and the       *)
(* access has been made when the core goes on: whatever the decode, and    *)
(* however long the word's completion waits for its enable.                *)
THEOREM OncePerRequestCorrect == ASSUME MinGap >= 3 PROVE Spec => []OncePerRequest
<1>1. Init => Words /\ Counted
  <2>1. SUFFICES ASSUME Init PROVE Counted
    BY InitWords
  <2> QED BY <2>1 DEF Init, CoreInit, WrapperInit, Counted, req, NoRequest
<1>2. Words /\ Counted /\ [Next]_vars => Words' /\ Counted'
  <2>1. SUFFICES ASSUME Words, Counted, [Next]_vars PROVE Counted'
    BY WordsStep
  <2>2. CASE Next
    BY <2>1, <2>2, CountedStep DEF Next
  <2>3. CASE UNCHANGED vars
    BY <2>1, <2>3, Stutter DEF Counted, Made, RomReq, Idle, NewRequest, req
  <2> QED BY <2>1, <2>2, <2>3
<1>3. Words /\ Counted => OncePerRequest
  BY DEF Words, Handshake, Finished, Counted, OncePerRequest
<1> QED BY <1>1, <1>2, <1>3, PTL DEF Spec

-----------------------------------------------------------------------------
(* What is left of an instruction.  A division is waited for and its       *)
(* quotient read at once after; nothing is left to do when the core sleeps. *)
Tidy(t) == \A k \in 1 .. Len(t) :
  /\ t[k] = Quotient => k > 1 /\ t[k - 1] = Divide
  /\ t[k] = Divide => Len(t) = k + 1 /\ t[k + 1] = Quotient
  /\ t[k] = Doze => k = Len(t)
Left ==
  /\ Tidy(todo) \/ todo = <<Quotient>>
  /\ state \in {"FETCH", "SLEEP", "RESET0"} => todo = <<>>

LEMMA MicroDistinct ==
  /\ \A m \in {Word, Rd, Wr, Wait(2), SetCcr, PopCcr, Trap, Mask, Copy, Decode, Release} :
       m # Divide /\ m # Quotient /\ m # Doze
  /\ Divide # Quotient /\ Divide # Doze /\ Quotient # Doze
  /\ \A m \in {Wr, Word, Mask} : m \notin {SetCcr, PopCcr, Trap, Copy, Decode, Release, Wait(2)} /\ m.op # "wait"
  /\ \A m \in {PopCcr, Mask, Divide, Doze, Trap} : m.op # "wait"
  /\ Mask # Wr /\ Mask # Word /\ Wr # Word /\ Mask # Rd /\ Rd # Wr /\ Rd # Word /\ Rd # Copy
  /\ \A m \in {Word, Rd, Wr, Wait(2), PopCcr, Trap, Mask, Divide, Copy, Decode, Release, Doze, Quotient} : m # SetCcr
BY SMT DEF Word, Rd, Wr, Wait, SetCcr, PopCcr, Trap, Mask, Divide, Quotient, Copy, Doze, Decode, Release

LEMMA TidyShort ==
  /\ Tidy(<<>>) /\ Tidy(<<Decode>>) /\ Tidy(<<Wr, Copy>>) /\ Tidy(<<Word, Release>>) /\ Tidy(Entry)
  /\ <<>> # <<Quotient>> /\ <<Decode>> # <<Quotient>> /\ <<Wr, Copy>> # <<Quotient>> /\ <<Word, Release>> # <<Quotient>>
  /\ Entry # <<Quotient>>
<1>1. Tidy(<<>>) /\ Tidy(<<Decode>>) /\ Tidy(<<Wr, Copy>>) /\ Tidy(<<Word, Release>>) /\ Tidy(Entry)
  BY MicroDistinct DEF Tidy, Entry
<1>2. /\ <<>> # <<Quotient>> /\ <<Decode>> # <<Quotient>> /\ <<Wr, Copy>> # <<Quotient>> /\ <<Word, Release>> # <<Quotient>>
      /\ Entry # <<Quotient>>
  BY MicroDistinct DEF Entry
<1> QED BY <1>1, <1>2

LEMMA TidyBody == \A c \in Classes : Tidy(Body[c]) /\ Body[c] # <<Quotient>> /\ (Body[c] = <<SetCcr>> => c = "ldc")
<1>1. /\ Tidy(<<Word>>) /\ Tidy(<<SetCcr>>) /\ Tidy(<<Word, Rd, SetCcr>>) /\ Tidy(<<Rd>>) /\ Tidy(<<Wr>>)
      /\ Tidy(<<Word, Rd, Rd>>) /\ Tidy(<<Word, Rd, Wr>>) /\ Tidy(<<Wait(2)>>) /\ Tidy(<<Word, Wait(2)>>)
  BY MicroDistinct DEF Tidy
<1>2. /\ Tidy(<<Wait(2), Wr, Wr>>) /\ Tidy(<<Wait(2), Rd, Rd, Wait(2)>>) /\ Tidy(<<Wait(2), Rd, Rd, PopCcr>>)
      /\ Tidy(<<Word, Copy>>) /\ Tidy(<<Doze>>)
  BY MicroDistinct DEF Tidy
<1>3. Tidy(<<Divide, Quotient>>)
  BY MicroDistinct DEF Tidy
<1>4. Len(<<Trap>> \o Entry) = 6 /\ \A k \in 1 .. 6 : (<<Trap>> \o Entry)[k] \in {Trap, Wr, Word, Mask}
  BY DEF Entry
<1>5. Tidy(<<Trap>> \o Entry)
  BY <1>4, MicroDistinct DEF Tidy
<1> SUFFICES ASSUME NEW c \in DOMAIN Body PROVE Tidy(Body[c]) /\ Body[c] # <<Quotient>> /\ (Body[c] = <<SetCcr>> => c = "ldc")
  BY ClassesAssumption
<1>6. Tidy(Body[c])
  BY <1>1, <1>2, <1>3, <1>4, <1>5, TidyShort, Bodies
<1>7. ASSUME NEW m \in {Quotient, SetCcr}
      PROVE  /\ <<m>> \notin {<<>>, <<Word>>, <<Word, Rd, SetCcr>>, <<Rd>>, <<Wr>>, <<Word, Rd, Rd>>, <<Word, Rd, Wr>>}
             /\ <<m>> \notin {<<Wait(2)>>, <<Word, Wait(2)>>, <<Wait(2), Wr, Wr>>, <<Wait(2), Rd, Rd, Wait(2)>>}
             /\ <<m>> \notin {<<Wait(2), Rd, Rd, PopCcr>>, <<Word, Copy>>, <<Divide, Quotient>>, <<Doze>>}
             /\ <<m>> # <<Trap>> \o Entry
  BY <1>4, MicroDistinct
<1>8. Body[c] # <<Quotient>> /\ (Body[c] = <<SetCcr>> => c = "ldc")
  BY <1>7, Bodies, MicroDistinct
<1> QED BY <1>6, <1>8

LEMMA TidyTail ==
  ASSUME NEW t \in Seq(Micro), t # <<>>, Tidy(t)
  PROVE  /\ Head(t) = Divide => Tail(t) = <<Quotient>>
         /\ Head(t) # Divide => Tidy(Tail(t)) /\ Tail(t) # <<Quotient>>
         /\ Head(t) = Doze => Tail(t) = <<>>
         /\ Head(t) # Quotient
<1> DEFINE u == Tail(t)
           n == Len(u)
           l == Len(t)
<1>1. u \in Seq(Micro) /\ l \in Nat \ {0} /\ n \in Nat /\ n = l - 1 /\ Head(t) = t[1]
      /\ \A k \in 1 .. n : u[k] = t[k + 1]
  BY HeadTailProperties, EmptySeq
<1>0. /\ \A k \in 1 .. l : /\ t[k] = Quotient => k > 1 /\ t[k - 1] = Divide
                           /\ t[k] = Divide => l = k + 1 /\ t[k + 1] = Quotient
                           /\ t[k] = Doze => k = l
      /\ u = <<Quotient>> => n = 1 /\ u[1] = Quotient
      /\ n = 1 /\ u[1] = Quotient => u = <<Quotient>>
      /\ n = 0 => u = <<>>
  <2>1. ASSUME n = 1, u[1] = Quotient PROVE u = <<Quotient>>
    <3>1. <<Quotient>> \in Seq(Micro) /\ Len(<<Quotient>>) = 1 /\ <<Quotient>>[1] = Quotient
      BY MicroMembers
    <3>2. \A i \in 1 .. n : i = 1
      <4> HIDE DEF n
      <4> QED BY <2>1
    <3> HIDE DEF u
    <3> QED BY <1>1, <2>1, <3>1, <3>2, SeqEqual
  <2>2. u = <<Quotient>> => n = 1 /\ u[1] = Quotient
    <3>1. Len(<<Quotient>>) = 1 /\ <<Quotient>>[1] = Quotient
      OBVIOUS
    <3> HIDE DEF u
    <3> QED BY <3>1, Zenon
  <2>3. n = 0 => u = <<>>
    BY <1>1, EmptySeq
  <2> QED BY <2>1, <2>2, <2>3 DEF Tidy
<1> HIDE DEF u, n, l
<1>2. /\ t[1] # Quotient
      /\ t[1] = Divide => l = 2 /\ t[2] = Quotient
      /\ t[1] = Doze => l = 1
  <2>1. 1 \in 1 .. l
    BY <1>1
  <2>2. /\ t[1] = Quotient => 1 > 1
        /\ t[1] = Divide => l = 1 + 1 /\ t[1 + 1] = Quotient
        /\ t[1] = Doze => 1 = l
    BY <1>0, <2>1, Zenon
  <2> QED BY <2>2
<1>3. Head(t) = Divide => u = <<Quotient>>
  <2>1. SUFFICES ASSUME t[1] = Divide PROVE n = 1 /\ u[1] = t[1 + 1]
    BY <1>0, <1>1, <1>2
  <2> QED BY <1>1, <1>2, <2>1
<1>4. Head(t) = Doze => u = <<>>
  BY <1>0, <1>1, <1>2
<1>5. ASSUME Head(t) # Divide, NEW k \in 1 .. n
      PROVE  /\ u[k] = Quotient => k > 1 /\ u[k - 1] = Divide
             /\ u[k] = Divide => n = k + 1 /\ u[k + 1] = Quotient
             /\ u[k] = Doze => k = n
  <2>1. k \in Nat /\ k + 1 \in 1 .. l /\ u[k] = t[k + 1] /\ (k + 1) - 1 = k
    BY <1>1
  <2>2. /\ t[k + 1] = Quotient => t[k] = Divide
        /\ t[k + 1] = Divide => l = k + 2 /\ t[k + 2] = Quotient
        /\ t[k + 1] = Doze => k + 1 = l
    <3>1. /\ t[k + 1] = Quotient => t[(k + 1) - 1] = Divide
          /\ t[k + 1] = Divide => l = (k + 1) + 1 /\ t[(k + 1) + 1] = Quotient
          /\ t[k + 1] = Doze => k + 1 = l
      BY <1>0, <2>1, Zenon
    <3>2. (k + 1) - 1 = k /\ (k + 1) + 1 = k + 2
      BY <2>1
    <3> QED BY <3>1, <3>2
  <2>3. k > 1 => k - 1 \in 1 .. n /\ u[k - 1] = t[k]
    <3>1. SUFFICES ASSUME k > 1 PROVE k - 1 \in 1 .. n /\ u[k - 1] = t[(k - 1) + 1] /\ (k - 1) + 1 = k
      OBVIOUS
    <3>2. k - 1 \in 1 .. n /\ (k - 1) + 1 = k
      BY <1>1, <2>1, <3>1
    <3> QED BY <1>1, <3>2
  <2>4. t[k + 1] = Divide => k + 1 \in 1 .. n /\ u[k + 1] = t[k + 2]
    <3>1. SUFFICES ASSUME t[k + 1] = Divide
                   PROVE  k + 1 \in 1 .. n /\ u[k + 1] = t[(k + 1) + 1] /\ (k + 1) + 1 = k + 2
      OBVIOUS
    <3>2. k + 1 \in 1 .. n
      BY <1>1, <2>1, <2>2, <3>1
    <3> QED BY <1>1, <2>1, <3>2
  <2>5. t[k + 1] = Quotient => k # 1
    BY <1>1, <1>5, <2>2
  <2> QED BY <1>1, <2>1, <2>2, <2>3, <2>4, <2>5
<1>6. Head(t) # Divide => u # <<Quotient>>
  <2>1. SUFFICES ASSUME Head(t) # Divide, n = 1, u[1] = Quotient PROVE FALSE
    BY <1>0
  <2>2. 1 \in 1 .. n
    BY <2>1
  <2> QED BY <1>5, <2>1, <2>2
<1>7. Head(t) # Divide => Tidy(u)
  BY <1>5 DEF Tidy, n
<1> QED BY <1>1, <1>2, <1>3, <1>4, <1>6, <1>7 DEF u

(* Where a step of the core leaves the instruction: at the entry of an     *)
(* interrupt, at the next instruction, at a division with its quotient to  *)
(* read, or at something else that is left in order.                       *)
Takes == /\ irq_vector # 0 /\ irq_ack_tog' = ~irq_ack_tog
         /\ irq_ack_vector' = irq_vector /\ cur_vec' = irq_vector
         /\ state' = "WAIT" /\ wait_n' = 4 /\ todo' = Entry
Fetches == state' = "BUS" /\ ~bus_cnt' /\ todo' = <<Decode>> /\ UNCHANGED taken
Divides == todo' = <<Quotient>> /\ state' = "WAIT" /\ wait_n' = DivStates /\ dv_tog' = ~dv_tog
InOrder == /\ Tidy(todo') /\ todo' # <<Quotient>>
           /\ state' \in {"FETCH", "SLEEP", "RESET0"} => todo' = <<>>

LEMMA FinishTodo == ASSUME NEW early, Finish(early) PROVE Takes \/ Fetches
<1>1. CASE Take(early)
  BY <1>1, Zenon DEF Take, GoWait, Takes
<1>2. CASE NextInstruction
  <2>1. PICK a : Start(a, TRUE)
    BY <1>2 DEF NextInstruction
  <2> QED BY <1>2, <2>1 DEF NextInstruction, Start, Fetches
<1> QED BY <1>1, <1>2 DEF Finish

LEMMA TakesInOrder == Takes \/ Fetches => InOrder
BY TidyShort DEF Takes, Fetches, InOrder

LEMMA WaitsTodo ==
  ASSUME NEW t \in Seq(Micro), Tidy(t) \/ t = <<Quotient>>, Waits(t)
  PROVE  /\ Divides \/ InOrder
         /\ UNCHANGED <<irq_ack_tog, irq_ack_vector>>
         /\ Head(t) \notin {Wr, Word} /\ todo' = Tail(t) /\ t # <<>>
         /\ ccr_i' = ccr_i \/ (state' = "WAIT" /\ wait_n' = 2)
         /\ state' # "BUS"
<1>0. t # <<>> /\ todo' = Tail(t) /\ UNCHANGED <<irq_ack_tog, irq_ack_vector>> /\ Head(t) \in Micro
  BY DEF Waits
<1>1. CASE Head(t) = Divide
  <2>1. Tidy(t)
    BY <1>1, MicroDistinct
  <2>2. todo' = <<Quotient>>
    BY <1>0, <1>1, <2>1, TidyTail
  <2>3. GoWait(DivStates) /\ ccr_i' = ccr_i
    BY <1>1, MicroDistinct DEF Waits
  <2>4. dv_tog' = ~dv_tog
    BY <1>1, Zenon DEF Waits
  <2> QED BY <1>0, <1>1, <2>2, <2>3, <2>4, MicroDistinct DEF GoWait, Divides
<1>2. CASE Head(t) # Divide
  <2>1. Head(t).op = "wait" \/ Head(t) \in {PopCcr, Trap, Mask, Doze}
    BY <1>2 DEF Waits
  <2>2. Head(t) # Quotient
    BY <2>1, MicroDistinct DEF Quotient
  <2>3. Tidy(t)
    BY <2>2
  <2>4. Tidy(todo') /\ todo' # <<Quotient>> /\ (Head(t) = Doze => todo' = <<>>)
    BY <1>0, <1>2, <2>3, TidyTail
  <2>5. Head(t) \notin {Wr, Word}
    BY <2>1, MicroDistinct
  <2>6. CASE Head(t).op = "wait"
    BY <1>0, <2>4, <2>5, <2>6, MicroDistinct DEF Waits, GoWait, InOrder
  <2>7. CASE Head(t) \in {PopCcr, Trap, Mask}
    BY <1>0, <2>4, <2>5, <2>7, MicroDistinct DEF Waits, GoWait, InOrder
  <2>8. CASE Head(t) = Doze
    BY <1>0, <2>4, <2>5, <2>8, MicroDistinct DEF Waits, GoWait, InOrder
  <2> QED BY <2>1, <2>6, <2>7, <2>8
<1> QED BY <1>1, <1>2

LEMMA AccessesTodo ==
  ASSUME NEW t \in Seq(Micro), Tidy(t) \/ t = <<Quotient>>, Accesses(t)
  PROVE  /\ InOrder
         /\ UNCHANGED <<irq_ack_tog, irq_ack_vector, cur_vec, ccr_i>>
         /\ t # <<>> /\ (Head(t) # Copy => todo' = Tail(t))
         /\ state' = "BUS" /\ ~bus_cnt'
<1>1. t # <<>> /\ UNCHANGED <<irq_ack_tog, irq_ack_vector, cur_vec, ccr_i>>
      /\ (Head(t) # Copy => todo' = Tail(t)) /\ (Head(t) = Copy => todo' = <<Wr, Copy>>)
      /\ Head(t) \in {Word, Rd, Wr, Copy}
  BY MicroDistinct DEF Accesses, taken
<1>2. state' = "BUS" /\ ~bus_cnt'
  BY Zenon DEF Accesses, Start
<1>3. Head(t) # Divide /\ Head(t) # Quotient
  BY <1>1, MicroDistinct
<1>4. Tidy(t)
  BY <1>3
<1>5. Tidy(todo') /\ todo' # <<Quotient>>
  BY <1>1, <1>3, <1>4, TidyTail, TidyShort
<1> QED BY <1>1, <1>2, <1>5 DEF InOrder

LEMMA ContinueTodo ==
  ASSUME NEW t \in Seq(Micro), Tidy(t) \/ t = <<Quotient>>, Continue(t)
  PROVE  /\ Divides \/ InOrder
         /\ Takes \/ UNCHANGED <<irq_ack_tog, irq_ack_vector>>
         /\ ccr_i' = ccr_i \/ (t = <<SetCcr>> /\ (Takes \/ Fetches)) \/ (state' = "WAIT" /\ wait_n' = 2)
<1>1. CASE Ends(t)
  <2>1. CASE Finish(noirq) /\ UNCHANGED ccr_i
    BY <2>1, FinishTodo, TakesInOrder DEF Fetches, taken
  <2>2. CASE t = <<SetCcr>> /\ Finish(TRUE)
    BY <2>2, FinishTodo, TakesInOrder DEF Fetches, taken
  <2>3. CASE state' = "FETCH" /\ todo' = <<>> /\ UNCHANGED <<ccr_i, taken>>
    BY <2>3, TidyShort DEF InOrder, taken
  <2> QED BY <1>1, <2>1, <2>2, <2>3 DEF Ends
<1>2. CASE Waits(t)
  BY <1>2, WaitsTodo
<1>3. CASE Accesses(t)
  BY <1>3, AccessesTodo
<1> QED BY <1>1, <1>2, <1>3 DEF Continue

(* The states in which the core may take an interrupt, on an enable.       *)
CanTake == \/ state \in {"FETCH", "SLEEP"}
           \/ state = "WAIT" /\ wait_n <= 1
           \/ Finished

Counts == state = "WAIT" /\ state' = "WAIT" /\ wait_n > 1 /\ wait_n' = wait_n - 1

LEMMA DispatchTodo ==
  ASSUME TypeOK, Left, Dispatch
  PROVE  /\ Divides \/ InOrder
         /\ Takes \/ UNCHANGED <<irq_ack_tog, irq_ack_vector>>
         /\ ccr_i' = ccr_i \/ (CcrBoundary /\ (Takes \/ Fetches)) \/ (state' = "WAIT" /\ wait_n' = 2)
<1>0. todo \in Seq(Micro)
  BY DEF TypeOK, CoreTypeOK
<1>1. CASE todo = <<Decode>>
  <2>1. PICK c \in Classes : cls' = c /\ Continue(Body[c])
    BY <1>1 DEF Dispatch
  <2>2. Body[c] = <<SetCcr>> => CcrBoundary
    BY <1>1, <2>1, TidyBody DEF CcrBoundary
  <2>3. Body[c] \in Seq(Micro) /\ Tidy(Body[c])
    BY BodyType, TidyBody
  <2> QED BY <2>1, <2>2, <2>3, ContinueTodo
<1>2. CASE todo # <<Decode>>
  <2>1. Continue(todo) /\ (Tidy(todo) \/ todo = <<Quotient>>)
    BY <1>2 DEF Dispatch, Left
  <2>2. todo = <<SetCcr>> => CcrBoundary
    BY DEF CcrBoundary
  <2> QED BY <1>0, <2>1, <2>2, ContinueTodo
<1> QED BY <1>1, <1>2

LEMMA MovesTodo ==
  ASSUME TypeOK, Left, Moves
  PROVE  \/ /\ Still
            /\ Counts \/ (state = "BUS" /\ state' = "BUS") \/ (state = "SLEEP" /\ state' = "SLEEP")
         \/ /\ CanTake \/ (state = "RESET0" /\ state' = "BUS" /\ ~bus_cnt')
            /\ Divides \/ InOrder
            /\ (Takes /\ CanTake) \/ UNCHANGED <<irq_ack_tog, irq_ack_vector>>
            /\ \/ ccr_i' = ccr_i
               \/ CcrBoundary /\ (Takes \/ Fetches)
               \/ state' = "WAIT" /\ wait_n' = 2
               \/ state' = "BUS" /\ ~bus_cnt' /\ ~Takes
<1>1. CASE Reset0
  <2>1. PICK a : Start(a, TRUE)
    BY <1>1 DEF Reset0
  <2> QED BY <1>1, <2>1, TidyShort DEF Reset0, Start, InOrder, taken, Takes
<1>2. CASE Dispatch /\ CanTake
  BY <1>2, DispatchTodo
<1>3. CASE Finish(noirq) /\ UNCHANGED ccr_i /\ CanTake
  BY <1>3, FinishTodo, TakesInOrder DEF Fetches, taken
<1>4. CASE Still /\ (Counts \/ (state = "BUS" /\ state' = "BUS") \/ (state = "SLEEP" /\ state' = "SLEEP"))
  BY <1>4
<1>5. Fetch => Finish(noirq) /\ UNCHANGED ccr_i /\ CanTake
  BY DEF Fetch, CanTake
<1>6. Bus => (Dispatch /\ CanTake) \/ (Still /\ state = "BUS" /\ state' = "BUS")
  BY DEF Bus, CanTake, Finished, Still
<1>7. Pause => (Dispatch /\ CanTake) \/ (Still /\ Counts)
  BY DEF Pause, CanTake, Still, Counts, TypeOK, CoreTypeOK
<1>8. Sleep => (Finish(noirq) /\ UNCHANGED ccr_i /\ CanTake) \/ (Still /\ state = "SLEEP" /\ state' = "SLEEP")
  BY DEF Sleep, CanTake, Still
<1> QED BY <1>1, <1>2, <1>3, <1>4, <1>5, <1>6, <1>7, <1>8 DEF Moves

LEMMA LeftStep ==
  ASSUME TypeOK, Left, NEW cen \in BOOLEAN, Clock(cen)
  PROVE  Left'
<1>1. CASE reset
  BY <1>1, Resets, TidyShort DEF Left
<1>2. CASE UNCHANGED <<todo, state>>
  BY <1>2 DEF Left
<1>3. CASE ~reset /\ Moves
  BY <1>3, MovesTodo DEF Left, Still, Divides, InOrder
<1> QED BY <1>1, <1>2, <1>3 DEF Clock, Core, core, Moves

-----------------------------------------------------------------------------
(* The interrupt's way to the core.  The registered vector is true to its  *)
(* source from five clocks after an enable on: by then an acknowledge of   *)
(* that enable, and a store of the access it started, have gone through    *)
(* all the registers; and what the core has sampled stays true while it    *)
(* may take it.                                                            *)
Valid(v) == /\ v = 17 => ~ccr_i /\ isr5 /\ ier5
            /\ v = 24 => ~ccr_i /\ pend
Acknowledging == irq_ack => phase = 1 /\ state = "WAIT" /\ wait_n = 4 /\ todo = Entry /\ cur_vec = irq_ack_vector
Vectored ==
  /\ Acknowledging
  /\ irq_vector # 8 /\ vector # 8
  /\ phase >= 5 => Valid(vector)
  /\ CanTake => Valid(irq_vector)

LEMMA AcknowledgingStep ==
  ASSUME TypeOK, Left, NEW cen \in BOOLEAN, Clock(cen)
  PROVE  Acknowledging'
<1>1. CASE reset
  BY <1>1, Resets DEF Acknowledging
<1>2. CASE ~reset
  <2>1. irq_ack_tog_d' = irq_ack_tog
    BY <1>2 DEF Clock, Wrapper
  <2>2. CASE UNCHANGED irq_ack_tog
    BY <2>1, <2>2 DEF Acknowledging, irq_ack
  <2>3. CASE cen /\ Takes
    BY <2>3 DEF Takes, Acknowledging, Clock, Enable
  <2>4. UNCHANGED irq_ack_tog \/ (cen /\ Takes)
    <3>1. CASE UNCHANGED core
      BY <3>1 DEF core, taken
    <3>2. CASE cen /\ Moves
      BY <3>2, MovesTodo DEF Still, taken
    <3> QED BY <1>2, <3>1, <3>2 DEF Clock, Core, Moves
  <2> QED BY <2>2, <2>3, <2>4
<1> QED BY <1>1, <1>2

LEMMA SourcesStay ==
  ASSUME NEW cen \in BOOLEAN, ~reset, IntCtl(cen), ~irq_ack, ~int_pulse
  PROVE  (isr5 => isr5') /\ ier5' = ier5 /\ (pend => pend')
<1>1. isr5 => isr5'
  BY Zenon DEF IntCtl, Status, IoWrite
<1>2. pend => pend'
  BY Zenon DEF IntCtl
<1>3. ier5' = ier5
  BY DEF IntCtl, IoWrite
<1> QED BY <1>1, <1>2, <1>3

LEMMA Selected == ASSUME NEW cen \in BOOLEAN, IntCtl(cen) PROVE vector' = 0 \/ vector' = Select
BY DEF IntCtl

LEMMA VectoredStep ==
  ASSUME MinGap >= 5, Words, Left, Vectored, NEW cen \in BOOLEAN, Clock(cen)
  PROVE  Vectored'
<1>0. TypeOK /\ Handshake /\ Slaves /\ phase \in Nat
  BY DEF Words, TypeOK
<1>1. Acknowledging'
  BY <1>0, AcknowledgingStep
<1>2. vector' # 8 /\ (vector' = 17 => ~ccr_i /\ isr5 /\ ier5) /\ (vector' = 24 => ~ccr_i /\ pend)
  BY Selected DEF Clock, Select
<1>3. irq_vector' # 8
  BY DEF Clock, Core, CoreReset, core, sampled, Vectored
<1>4. ASSUME phase' >= 5 PROVE Valid(vector)'
  <2>1. CASE reset
    BY <2>1 DEF Clock, IntCtl, Valid
  <2>2. CASE ~reset
    <3>1. ~cen /\ phase >= 4
      BY <1>0, <1>4 DEF Clock, Enable
    <3>2. ~irq_ack /\ ~int_pulse /\ UNCHANGED ccr_i
      BY <1>0, <2>2, <3>1 DEF Vectored, Acknowledging, Slaves, OnChipServes, Clock, Core, core
    <3> QED BY <1>2, <2>2, <3>2, SourcesStay DEF Clock, Valid
  <2> QED BY <2>1, <2>2
<1>5. ASSUME CanTake' PROVE Valid(irq_vector)'
  <2>1. ~reset
    BY <1>5, Resets DEF CanTake, Finished
  <2>2. CASE ~cen /\ UNCHANGED core
    <3>1. CanTake /\ UNCHANGED <<irq_vector, ccr_i>>
      BY <1>5, <2>2 DEF core, sampled, request, CanTake, Finished
    <3>2. ~irq_ack
      BY <3>1 DEF Vectored, Acknowledging, CanTake, Finished
    <3>3. ~int_pulse
      BY <1>0, <3>1 DEF Slaves, OnChipServes, At, Handshake, CanTake, Finished
    <3> QED BY <2>1, <3>1, <3>2, <3>3, SourcesStay DEF Clock, Vectored, Valid
  <2>3. CASE cen /\ Samples /\ Moves
    <3>1. phase >= 5
      BY <1>0, <2>3, GapAssumption DEF Clock, Enable
    <3>2. Valid(vector) /\ ~irq_ack /\ ~int_pulse /\ irq_vector' = vector
      BY <1>0, <2>3, <3>1 DEF Vectored, Acknowledging, Slaves, OnChipServes, Samples
    <3>3. ccr_i' = ccr_i
      <4>1. ~Takes /\ ~Fetches /\ ~(state' = "WAIT" /\ wait_n' = 2) /\ ~(state' = "BUS" /\ ~bus_cnt')
        BY <1>5 DEF CanTake, Finished, Takes, Fetches
      <4> QED BY <1>0, <2>3, <4>1, MovesTodo DEF Still
    <3> QED BY <2>1, <3>2, <3>3, SourcesStay DEF Clock, Valid
  <2> QED BY <2>1, <2>2, <2>3 DEF Clock, Core, Moves, Samples
<1> QED BY <1>1, <1>2, <1>3, <1>4, <1>5 DEF Vectored

(* The interrupt half of the machine in one invariant.                     *)
Interrupts == Words /\ Left /\ Vectored

LEMMA InitInterrupts == Init => Interrupts
<1> SUFFICES ASSUME Init PROVE Left /\ Vectored
  BY InitWords DEF Interrupts
<1>1. ~irq_ack /\ state = "RESET0" /\ todo = <<>> /\ irq_vector = 0 /\ vector = 0
  BY DEF Init, CoreInit, WrapperInit, irq_ack
<1> QED BY <1>1, TidyShort DEF Left, Vectored, Acknowledging, Valid, CanTake, Finished

LEMMA InterruptsStep == ASSUME MinGap >= 5, Interrupts, [Next]_vars PROVE Interrupts'
<1>1. Words'
  BY WordsStep, GapAssumption DEF Interrupts
<1>2. CASE Next
  BY <1>1, <1>2, LeftStep, VectoredStep DEF Next, Interrupts, Words
<1>3. CASE UNCHANGED vars
  BY <1>1, <1>3, Stutter DEF Interrupts, Left, Vectored, Acknowledging, Valid, CanTake, Finished, irq_ack
<1> QED BY <1>2, <1>3

(* A taken interrupt is of a source pending, enabled and unmasked in that  *)
(* clock, whatever program runs and whatever it stores to IER, ISR and CCR,*)
(* when at least five clocks part two enables.                             *)
THEOREM TakenIsPendingCorrect == ASSUME MinGap >= 5 PROVE Spec => TakenIsPending
<1>1. ASSUME Interrupts, [Next]_vars
      PROVE  [Taking => /\ IF irq_ack_vector' = 17 THEN isr5 /\ ier5 ELSE pend
                        /\ ~ccr_i /\ (~CcrBoundary => ~ccr_i')]_vars
  <2>1. SUFFICES ASSUME NEW cen \in BOOLEAN, Clock(cen), Taking
                 PROVE  /\ IF irq_ack_vector' = 17 THEN isr5 /\ ier5 ELSE pend
                        /\ ~ccr_i /\ (~CcrBoundary => ~ccr_i')
    BY <1>1 DEF Next
  <2>2. TypeOK /\ Left /\ Vectored
    BY <1>1 DEF Interrupts, Words
  <2>3. ~reset /\ irq_ack_tog' # irq_ack_tog
    BY <2>1 DEF Taking
  <2>4. Moves
    BY <2>1, <2>3 DEF Clock, Core, Moves, core, taken
  <2>5. Takes /\ CanTake
    BY <2>2, <2>3, <2>4, MovesTodo DEF Still, taken
  <2>6. irq_ack_vector' = irq_vector /\ irq_vector \in {17, 24} /\ Valid(irq_vector)
    BY <2>2, <2>5 DEF Takes, Vectored, TypeOK, CoreTypeOK, Vectors
  <2>7. ~CcrBoundary => ccr_i' = ccr_i
    BY <2>2, <2>3, <2>4, <2>5, MovesTodo DEF Takes, Still, taken
  <2> QED BY <2>6, <2>7 DEF Valid
<1> QED BY <1>1, InitInterrupts, InterruptsStep, PTL DEF Spec, TakenIsPending

-----------------------------------------------------------------------------
(* The edges of IRQ5.  What is left of an entry keeps its end, the masking. *)
LEMMA Suffix ==
  ASSUME NEW k \in 1 .. Len(Entry), NEW s, s = SubSeq(Entry, k, Len(Entry))
  PROVE  /\ s \in Seq(Micro) /\ s # <<>> /\ Head(s) \in {Wr, Word, Mask}
         /\ Head(s) = Mask => Tail(s) = <<>>
         /\ Head(s) # Mask => k + 1 \in 1 .. Len(Entry) /\ Tail(s) = SubSeq(Entry, k + 1, Len(Entry))
<1>1. Len(Entry) = 5 /\ Entry \in Seq(Micro) /\ k \in 1 .. 5 /\ k \in Int /\ 5 \in k .. 5
  BY EntryType
<1>2. Head(s) = Entry[k] /\ Tail(s) = SubSeq(Entry, k + 1, 5)
  BY <1>1, HeadTailOfSubSeq
<1>3. \A i \in 1 .. 5 : Entry[i] \in {Wr, Word, Mask} /\ Entry[i] \in Micro /\ (Entry[i] = Mask <=> i = 5)
  BY MicroDistinct, MicroMembers DEF Entry
<1>4. s \in Seq(Micro) /\ Len(s) = 5 - k + 1
  <2>1. \A i \in k .. 5 : Entry[i] \in Micro
    BY <1>1, <1>3
  <2> QED BY <1>1, <2>1, SubSeqProperties
<1>5. s # <<>>
  BY <1>1, <1>4, EmptySeq
<1>6. k = 5 => Tail(s) = <<>>
  BY <1>1, <1>2, SubSeqEmpty
<1> DEFINE h == Entry[k]
<1>7. h \in {Wr, Word, Mask} /\ (h = Mask <=> k = 5)
  BY <1>1, <1>3
<1>8. Head(s) = h /\ Tail(s) = SubSeq(Entry, k + 1, Len(Entry))
  BY <1>1, <1>2
<1> HIDE DEF h
<1>9. Head(s) \in {Wr, Word, Mask} /\ (Head(s) = Mask => Tail(s) = <<>>)
  BY <1>6, <1>7, <1>8
<1>10. Head(s) # Mask => k + 1 \in 1 .. Len(Entry)
  <2>1. k # 5 => k + 1 \in 1 .. 5
    BY <1>1
  <2> QED BY <1>1, <1>7, <1>8, <2>1
<1> QED BY <1>4, <1>5, <1>8, <1>9, <1>10

LEMMA EntryGoesOn ==
  ASSUME TypeOK, Left, Entering, NEW cen \in BOOLEAN, Clock(cen), ~reset
  PROVE  Entering' \/ Entered
<1>1. PICK k \in 1 .. Len(Entry) : todo = SubSeq(Entry, k, Len(Entry)) /\ cur_vec = 17
  BY DEF Entering
<1>2. /\ todo \in Seq(Micro) /\ todo # <<>> /\ Head(todo) \in {Wr, Word, Mask}
      /\ Head(todo) = Mask => Tail(todo) = <<>>
      /\ Head(todo) # Mask => k + 1 \in 1 .. Len(Entry) /\ Tail(todo) = SubSeq(Entry, k + 1, Len(Entry))
  BY <1>1, Suffix
<1>3. CASE UNCHANGED <<todo, cur_vec>>
  BY <1>1, <1>3 DEF Entering
<1>4. CASE Dispatch
  <2>1. /\ todo # <<Decode>> /\ todo # <<Quotient>> /\ todo # <<Copy>> /\ todo # <<SetCcr>> /\ todo # <<Release>>
    <3>1. \A m \in {Decode, Quotient, Copy, SetCcr, Release} : Head(<<m>>) = m /\ m \notin {Wr, Word, Mask}
      BY MicroDistinct
    <3> QED BY <1>2, <3>1
  <2>2. ~Ends(todo) /\ Continue(todo) /\ Tidy(todo)
    BY <1>2, <1>4, <2>1 DEF Dispatch, Ends, Left
  <2>3. CASE Waits(todo)
    <3>1. Head(todo) = Mask /\ todo' = <<>>
      BY <1>2, <2>2, <2>3, WaitsTodo
    <3> QED BY <1>1, <1>2, <3>1 DEF Entered
  <2>4. CASE Accesses(todo)
    <3>1. todo' = Tail(todo) /\ cur_vec' = cur_vec
      BY <1>2, <2>2, <2>4, AccessesTodo, MicroDistinct
    <3>2. Head(todo) # Mask
      BY <2>4, MicroDistinct DEF Accesses
    <3> QED BY <1>1, <1>2, <3>1, <3>2 DEF Entering
  <2> QED BY <2>2, <2>3, <2>4 DEF Continue
<1>5. state \notin {"FETCH", "SLEEP", "RESET0"}
  BY <1>2 DEF Left
<1>6. CASE Moves
  <2>1. Dispatch \/ Still
    BY <1>5, <1>6 DEF Moves, Reset0, Fetch, Sleep, Bus, Pause
  <2> QED BY <1>3, <1>4, <2>1 DEF Still, taken
<1> QED BY <1>3, <1>6 DEF Clock, Core, core, taken, Moves

Kept == owed => isr5 \/ Entering

LEMMA KeptStep ==
  ASSUME MinGap >= 3, Words, Left, Acknowledging, Kept, NEW cen \in BOOLEAN, Clock(cen)
  PROVE  Kept'
<1> SUFFICES ASSUME owed', ~isr5' PROVE Entering'
  BY DEF Kept
<1>0. TypeOK
  BY DEF Words
<1>1. ~reset /\ ((owed /\ ~Entered /\ ~IoWrite(Isr)) \/ Edge)
  BY Zenon DEF Clock, History
<1>2. CASE irq_ack /\ irq_ack_vector = 17
  <2>1. ~cen
    BY <1>0, <1>2, GapAssumption DEF Acknowledging, Clock, Enable
  <2>2. cur_vec' = 17 /\ todo' = Entry
    BY <1>1, <1>2, <2>1 DEF Acknowledging, Clock, Core, core, taken
  <2>3. 1 \in 1 .. Len(Entry) /\ Entry = SubSeq(Entry, 1, Len(Entry))
    BY EntryType, SubSeqFull
  <2> QED BY <2>2, <2>3 DEF Entering
<1>3. CASE ~(irq_ack /\ irq_ack_vector = 17)
  <2>1. ~Edge /\ ~(isr5 /\ ~IoWrite(Isr))
    BY <1>1, <1>3, Zenon DEF Clock, IntCtl, Status
  <2>2. Entering /\ ~Entered
    BY <1>1, <2>1 DEF Kept
  <2> QED BY <1>0, <1>1, <2>2, EntryGoesOn
<1> QED BY <1>2, <1>3

(* A recognised edge of IRQ5 stays pending until its handler is entered    *)
(* after it or the program clears it: no acknowledge of an earlier one, no *)
(* store and no interrupt of another source loses it.                      *)
THEOREM EdgeKeptCorrect == ASSUME MinGap >= 3 PROVE Spec => []EdgeKept
<1> DEFINE Edges == Words /\ Left /\ Acknowledging /\ Kept
<1>1. Init => Edges
  BY InitInterrupts DEF Interrupts, Vectored, Kept, Init
<1>2. Edges /\ [Next]_vars => Edges'
  <2>1. SUFFICES ASSUME Edges, [Next]_vars PROVE Left' /\ Acknowledging' /\ Kept'
    BY WordsStep
  <2>2. CASE Next
    BY <2>1, <2>2, LeftStep, AcknowledgingStep, KeptStep DEF Next, Words
  <2>3. CASE UNCHANGED vars
    BY <2>1, <2>3, Stutter DEF Left, Acknowledging, irq_ack, Kept, Entering
  <2> QED BY <2>1, <2>2, <2>3
<1>3. Edges => EdgeKept
  BY DEF Kept, EdgeKept
<1> QED BY <1>1, <1>2, <1>3, PTL DEF Spec

-----------------------------------------------------------------------------
(* The divider.  It takes a bit on every clock while the core counts the   *)
(* states on its enables: each state gone leaves at least MinGap clocks    *)
(* less for it to do.                                                      *)
Dividing ==
  todo = <<Quotient>> =>
    /\ state = "WAIT" /\ wait_n \in 1 .. DivStates
    /\ IF dv_tog # dv_tog_d THEN phase = 1 /\ wait_n = DivStates
       ELSE div_cnt = 0 \/ div_cnt + (DivStates - wait_n) * MinGap + phase <= DivClocks + 2

LEMMA OneStateLess ==
  ASSUME NEW s \in Nat, NEW w \in 1 .. s, NEW g \in Nat
  PROVE  /\ (s - (w - 1)) * g = (s - w) * g + g /\ (s - w) * g \in Nat
         /\ (s - s) * g = 0
<1>1. \A x, y \in Nat : (x + 1) * y = x * y + y /\ x * y \in Nat /\ 0 * y = 0
  OBVIOUS
<1>2. s - w \in Nat /\ s - (w - 1) = (s - w) + 1 /\ s - s = 0
  OBVIOUS
<1> QED BY <1>1, <1>2

LEMMA DividingStep ==
  ASSUME MinGap >= 2, TypeOK, Left, Dividing, NEW cen \in BOOLEAN, Clock(cen)
  PROVE  Dividing'
<1> SUFFICES ASSUME todo' = <<Quotient>>
             PROVE  /\ state' = "WAIT" /\ wait_n' \in 1 .. DivStates
                    /\ IF dv_tog' # dv_tog_d' THEN phase' = 1 /\ wait_n' = DivStates
                       ELSE div_cnt' = 0 \/ div_cnt' + (DivStates - wait_n') * MinGap + phase' <= DivClocks + 2
  BY DEF Dividing
<1>0. /\ wait_n \in Nat /\ phase \in Nat \ {0} /\ div_cnt \in Nat /\ DivStates \in Nat \ {0} /\ DivClocks \in Nat \ {0}
      /\ MinGap \in Nat \ {0} /\ dv_tog \in BOOLEAN
  BY DivAssumption, GapAssumption DEF TypeOK, CoreTypeOK
<1>1. ~reset
  BY Resets
<1>2. dv_tog_d' = dv_tog /\ div_cnt' = Divider
  BY <1>1 DEF Clock, Wrapper
<1>3. (cen => phase >= MinGap /\ phase' = 1) /\ (~cen => phase' = phase + 1)
  BY DEF Clock, Enable
<1>4. CASE ~cen /\ UNCHANGED core
  <2>1. UNCHANGED <<state, todo, wait_n, dv_tog>>
    BY <1>4 DEF core
  <2>2. state = "WAIT" /\ wait_n \in 1 .. DivStates
    BY <2>1 DEF Dividing
  <2>3. CASE dv_tog # dv_tog_d
    <3>1. phase' = 2 /\ wait_n = DivStates /\ div_cnt' = DivClocks
      BY <1>0, <1>2, <1>3, <1>4, <2>1, <2>3 DEF Dividing, Divider
    <3>2. (DivStates - wait_n') * MinGap = 0
      BY <1>0, <2>1, <3>1, OneStateLess
    <3> QED BY <1>0, <1>2, <2>1, <2>2, <3>1, <3>2
  <2>4. CASE dv_tog = dv_tog_d
    <3>1. div_cnt' = IF div_cnt # 0 THEN div_cnt - 1 ELSE 0
      BY <1>2, <2>4 DEF Divider
    <3>2. div_cnt = 0 \/ div_cnt + (DivStates - wait_n) * MinGap + phase <= DivClocks + 2
      BY <2>1, <2>4 DEF Dividing
    <3>3. (DivStates - wait_n') * MinGap = (DivStates - wait_n) * MinGap /\ (DivStates - wait_n) * MinGap \in Nat
      BY <1>0, <2>1, <2>2, OneStateLess
    <3>4. div_cnt' = 0 \/ div_cnt' + (DivStates - wait_n') * MinGap + phase' <= DivClocks + 2
      BY <1>0, <1>3, <1>4, <3>1, <3>2, <3>3
    <3> QED BY <1>2, <2>1, <2>2, <3>4
  <2> QED BY <2>3, <2>4
<1>5. CASE cen /\ Moves
  <2>1. CASE Still /\ (Counts \/ state = "BUS" \/ state = "SLEEP")
    <3>1. UNCHANGED <<todo, dv_tog>> /\ state = "WAIT" /\ wait_n \in 1 .. DivStates
      BY <2>1 DEF Still, Dividing
    <3>2. state' = "WAIT" /\ wait_n > 1 /\ wait_n' = wait_n - 1
      BY <2>1, <3>1 DEF Counts
    <3>3. dv_tog = dv_tog_d /\ (div_cnt = 0 \/ div_cnt + (DivStates - wait_n) * MinGap + phase <= DivClocks + 2)
      BY <1>0, <1>3, <1>5, <3>1 DEF Dividing
    <3>4. div_cnt' = IF div_cnt # 0 THEN div_cnt - 1 ELSE 0
      BY <1>2, <3>3 DEF Divider
    <3>5. (DivStates - wait_n') * MinGap = (DivStates - wait_n) * MinGap + MinGap /\ (DivStates - wait_n) * MinGap \in Nat
      BY <1>0, <3>1, <3>2, OneStateLess
    <3>6. wait_n' \in 1 .. DivStates
      BY <1>0, <3>1, <3>2
    <3>7. div_cnt' = 0 \/ div_cnt' + (DivStates - wait_n') * MinGap + phase' <= DivClocks + 2
      BY <1>0, <1>3, <1>5, <3>3, <3>4, <3>5
    <3> QED BY <1>2, <3>1, <3>2, <3>3, <3>6, <3>7
  <2>2. CASE Divides
    <3>1. dv_tog' # dv_tog_d'
      BY <1>0, <1>2, <2>2 DEF Divides
    <3> QED BY <1>0, <1>3, <1>5, <2>2, <3>1 DEF Divides
  <2>3. CASE InOrder
    BY <2>3 DEF InOrder
  <2> QED BY <1>5, <2>1, <2>2, <2>3, MovesTodo
<1> QED BY <1>1, <1>4, <1>5 DEF Clock, Core, Moves

(* The quotient is read from a divider at rest that has done this          *)
(* division, for every width of it that the wait leaves time for: the 12   *)
(* states of at least five clocks that the core waits are enough for its   *)
(* 32 bits, 34 clocks would be.                                            *)
THEOREM DivideReadyCorrect ==
  ASSUME MinGap >= 2, DivStates * MinGap >= DivClocks + 2
  PROVE  Spec => DivideReady
<1> DEFINE Ready == TypeOK /\ Left /\ Dividing
<1>1. Init => Ready
  <2>1. SUFFICES ASSUME Init PROVE Dividing
    BY InitType, InitInterrupts DEF Interrupts
  <2> QED BY <2>1, TidyShort DEF Init, CoreInit, Dividing
<1>2. Ready /\ [Next]_vars => Ready'
  <2>1. SUFFICES ASSUME Ready, [Next]_vars PROVE Left' /\ Dividing'
    BY TypeStep
  <2>2. CASE Next
    BY <2>1, <2>2, LeftStep, DividingStep DEF Next
  <2>3. CASE UNCHANGED vars
    BY <2>1, <2>3, Stutter DEF Left, Dividing
  <2> QED BY <2>1, <2>2, <2>3
<1>3. ASSUME Ready, [Next]_vars
      PROVE  [todo = <<Quotient>> /\ todo' # todo /\ ~reset => div_cnt = 0 /\ dv_tog = dv_tog_d]_vars
  <2>1. SUFFICES ASSUME NEW cen \in BOOLEAN, Clock(cen), todo = <<Quotient>>, todo' # todo, ~reset
                 PROVE  div_cnt = 0 /\ dv_tog = dv_tog_d
    BY <1>3 DEF Next
  <2>2. cen /\ Moves /\ ~Still
    BY <2>1 DEF Clock, Core, core, Moves, Still
  <2>3. state = "WAIT" /\ wait_n \in 1 .. DivStates
    BY <1>3, <2>1 DEF Dividing
  <2>4. wait_n = 1
    BY <1>3, <2>2, <2>3, MovesTodo DEF CanTake, Finished
  <2>5. phase >= MinGap /\ phase \in Nat /\ div_cnt \in Nat /\ MinGap \in Nat /\ DivStates \in Nat \ {0}
        /\ DivClocks \in Nat
    BY <1>3, <2>1, <2>2, DivAssumption, GapAssumption DEF Clock, Enable, TypeOK, CoreTypeOK
  <2>6. dv_tog = dv_tog_d /\ (div_cnt = 0 \/ div_cnt + (DivStates - 1) * MinGap + phase <= DivClocks + 2)
    BY <1>3, <2>1, <2>4, <2>5 DEF Dividing
  <2>7. DivStates * MinGap = (DivStates - 1) * MinGap + MinGap /\ (DivStates - 1) * MinGap \in Nat
    <3>1. 1 \in 1 .. DivStates /\ 1 - 1 = 0 /\ DivStates - 0 = DivStates
      BY <2>5
    <3>2. (DivStates - (1 - 1)) * MinGap = (DivStates - 1) * MinGap + MinGap /\ (DivStates - 1) * MinGap \in Nat
      BY <2>5, <3>1, OneStateLess
    <3> QED BY <3>1, <3>2
  <2> QED BY <2>5, <2>6, <2>7
<1> QED BY <1>1, <1>2, <1>3, PTL DEF Spec, DivideReady
=============================================================================
