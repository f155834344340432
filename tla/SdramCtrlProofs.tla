--------------------------- MODULE SdramCtrlProofs ---------------------------
(***************************************************************************)
(* What the run of SdramCtrl shows of two clients on a chip of six words   *)
(* is proved here of any number of clients, any chip, any chunk, refresh   *)
(* interval and burst length.                                               *)
(***************************************************************************)
EXTENDS SdramCtrl, Integers, WellFoundedInduction, TLAPS

USE SizesAssumption

-----------------------------------------------------------------------------
(* Arithmetic of addresses.                                                *)
LEMMA Division ==
  ASSUME NEW c \in Nat \ {0}, NEW a \in Nat
  PROVE  \E q \in Nat, r \in 0 .. c - 1 : a = q * c + r /\ q = a \div c /\ r = a % c
<1> DEFINE q == a \div c
           r == a % c
<1>1. r \in 0 .. c - 1
  OBVIOUS
<1>2. q \in Nat /\ q * c \in Int
  OBVIOUS
<1>3. r = a - q * c
  OBVIOUS
<1>4. a = q * c + r
  <2> HIDE DEF q, r
  <2> DEFINE p == q * c
  <2>1. r = a - p /\ p \in Int
    BY <1>3, <1>2
  <2> HIDE DEF p
  <2>2. a = p + r
    BY <1>1, <2>1
  <2> QED BY <2>2 DEF p
<1> QED BY <1>1, <1>2, <1>4, Zenon

LEMMA Quotient ==
  ASSUME NEW c \in Nat \ {0}, NEW q \in Nat
  PROVE  \A r \in 0 .. c - 1 : \A a \in Nat : a = q * c + r => a \div c = q /\ a % c = r
OBVIOUS

LEMMA Above ==
  ASSUME NEW c \in Nat \ {0}, NEW n \in Nat, NEW q \in Nat, NEW r \in 0 .. c - 1, q * c + r < n * c
  PROVE  q < n
OBVIOUS

LEMMA Times == ASSUME NEW s \in Nat, NEW x \in Nat, NEW y \in Nat, x <= y PROVE x * s <= y * s
OBVIOUS

LEMMA OneMoreTime == ASSUME NEW s \in Nat, NEW x \in Nat PROVE (x + 1) * s = x * s + s /\ x * s \in Nat
OBVIOUS

LEMMA ModularStep == ASSUME NEW s \in Nat \ {0}, NEW x \in Nat PROVE ((x % s) + 1) % s = (x + 1) % s
<1>1. PICK q \in Nat, r \in 0 .. s - 1 : x = q * s + r /\ r = x % s
  BY Division
<1>2. CASE r + 1 < s
  <2>1. x + 1 \in Nat /\ x + 1 = q * s + (r + 1) /\ r + 1 \in 0 .. s - 1
    BY <1>1, <1>2
  <2>2. (x + 1) % s = r + 1
    <3>1. \A k \in 0 .. s - 1 : \A a \in Nat : a = q * s + k => a % s = k
      BY Quotient
    <3> QED BY <2>1, <3>1, Zenon
  <2>3. (r + 1) % s = r + 1
    BY <2>1
  <2> QED BY <1>1, <2>2, <2>3
<1>3. CASE r + 1 = s
  <2> PICK p \in Nat : p = q + 1
    OBVIOUS
  <2>1. x + 1 \in Nat /\ x + 1 = p * s + 0 /\ 0 \in 0 .. s - 1
    BY <1>1, <1>3
  <2>2. (x + 1) % s = 0
    <3>1. \A k \in 0 .. s - 1 : \A a \in Nat : a = p * s + k => a % s = k
      BY Quotient
    <3> QED BY <2>1, <3>1, Zenon
  <2>3. s % s = 0
    OBVIOUS
  <2> QED BY <1>1, <1>3, <2>2, <2>3
<1> QED BY <1>1, <1>2, <1>3

LEMMA SizeType == Size \in Nat \ {0} /\ Addr \subseteq Nat /\ Cols \in Nat \ {0} /\ Rows \in Nat \ {0} /\ 0 \in Addr
BY DEF Size, Addr

LEMMA RowCol ==
  ASSUME NEW a \in Addr
  PROVE  Row(a) \in 0 .. Rows - 1 /\ Col(a) \in 0 .. Cols - 1 /\ Row(a) * Cols + Col(a) = a
<1>1. a \in Nat /\ a < Rows * Cols
  BY DEF Addr, Size
<1>2. PICK q \in Nat, r \in 0 .. Cols - 1 : a = q * Cols + r /\ q = a \div Cols /\ r = a % Cols
  BY <1>1, Division
<1>3. q < Rows
  BY <1>1, <1>2, Above
<1> QED BY <1>2, <1>3 DEF Row, Col

LEMMA NextInRow ==
  ASSUME NEW a \in Addr, Col(a) # Cols - 1
  PROVE  (a + 1) % Size \in Addr /\ Row((a + 1) % Size) = Row(a)
<1> DEFINE q == Row(a)
           r == Col(a)
<1>1. q \in 0 .. Rows - 1 /\ r \in 0 .. Cols - 1 /\ r + 1 \in 0 .. Cols - 1 /\ q * Cols + r = a
  BY RowCol
<1> HIDE DEF q, r
<1>2. a + 1 = q * Cols + (r + 1)
  BY <1>1 DEF Addr, Size
<1>3. q * Cols \in Nat /\ (q + 1) * Cols = q * Cols + Cols /\ (q + 1) * Cols <= Rows * Cols
  BY <1>1, OneMoreTime, Times
<1>4. a + 1 < Size
  BY <1>1, <1>2, <1>3 DEF Size
<1>5. (a + 1) % Size = a + 1
  BY <1>4, SizeType DEF Addr
<1>6. (a + 1) \div Cols = q
  <2>1. Cols \in Nat \ {0} /\ q \in Nat /\ a + 1 \in Nat
    BY <1>1, SizeType
  <2>2. \A k \in 0 .. Cols - 1 : \A c \in Nat : c = q * Cols + k => c \div Cols = q
    BY <2>1, Quotient
  <2> QED BY <1>1, <1>2, <2>1, <2>2, Zenon
<1> QED BY <1>4, <1>5, <1>6, SizeType DEF Addr, Row, q

(* Wherever a burst goes on from, it goes on inside the chip.              *)
LEMMA NextInChip == ASSUME NEW a \in Nat PROVE a % Size \in Addr
BY SizeType DEF Addr

-----------------------------------------------------------------------------
(* The clients.                                                            *)
LEMMA Least ==
  ASSUME NEW S \in SUBSET Nat, S # {}
  PROVE  \E m \in S : \A k \in S : m <= k
<1> DEFINE R == OpToRel(<, Nat)
<1>1. IsWellFoundedOn(R, Nat)
  BY NatLessThanWellFounded
<1>2. \A x, y \in Nat : x < y => <<x, y>> \in R
  BY DEF OpToRel
<1> HIDE DEF R
<1>3. PICK m \in S : \A k \in S : ~(<<k, m>> \in R)
  BY <1>1, WFMin
<1>4. ASSUME NEW k \in S PROVE m <= k
  <2>1. m \in Nat /\ k \in Nat
    OBVIOUS
  <2>2. ~(<<k, m>> \in R)
    BY <1>3
  <2>3. ~(k < m)
    BY <1>2, <2>1, <2>2
  <2> QED BY <2>1, <2>3
<1> QED BY <1>4

LEMMA InRing ==
  \A n \in Nat \ {0} : \A i, l \in 0 .. n - 1 : (i + n - l - 1) % n \in 0 .. n - 1
<1> SUFFICES ASSUME NEW n \in Nat \ {0}, NEW i \in 0 .. n - 1, NEW l \in 0 .. n - 1
             PROVE  (i + n - l - 1) % n \in 0 .. n - 1
  OBVIOUS
<1>1. PICK x \in Nat : x = i + n - l - 1
  OBVIOUS
<1>2. x % n \in 0 .. n - 1
  OBVIOUS
<1> QED BY <1>1, <1>2

LEMMA DistanceType ==
  ASSUME last \in Client, NEW i \in Client
  PROVE  /\ Distance(i) = IF i > last THEN i - last - 1 ELSE i + NCLI - last - 1
         /\ Distance(i) \in 0 .. NCLI - 1
BY DEF Distance, Client

(* Somebody is first in the round, so the round robin picks him.           *)
LEMMA PickPending ==
  ASSUME last \in Client, any_req
  PROVE  pick \in Pending /\ \A j \in Pending : Distance(pick) <= Distance(j)
<1> DEFINE S == {Distance(i) : i \in Pending}
<1>1. Pending \subseteq Client /\ Pending # {}
  BY DEF any_req, Pending
<1>2. S \in SUBSET Nat /\ S # {}
  BY <1>1, DistanceType
<1>3. PICK m \in S : \A k \in S : m <= k
  BY <1>2, Least
<1>4. \E i \in Pending : \A j \in Pending : Distance(i) <= Distance(j)
  BY <1>3
<1> QED BY <1>4, Zenon DEF pick

-----------------------------------------------------------------------------
(* The burst's context.                                                    *)
BurstType == [active : BOOLEAN, yield : BOOLEAN, accepted : BOOLEAN, next : Addr, remain : Nat,
              issued : Nat, chunk : Nat, gap : 0 .. Gap - 1]

LEMMA Settled ==
  ASSUME NEW n \in BurstType, Settle(n), b_addr \in Addr, b_len \in Nat
  PROVE  /\ b' \in BurstType
         /\ b'.chunk = n.chunk /\ b'.gap = n.gap
         /\ Accepting => /\ b'.active /\ b'.accepted /\ ~b'.yield
                         /\ b'.next = b_addr /\ b'.remain = b_len /\ b'.issued = 0
         /\ ~Accepting => /\ b'.active = n.active /\ b'.yield = n.yield /\ b'.accepted = (n.accepted /\ b_req)
                          /\ b'.next = n.next /\ b'.remain = n.remain
                          /\ b'.issued = IF Completing THEN 0 ELSE n.issued
<1>1. CASE Accepting
  BY <1>1 DEF Settle, BurstType
<1>2. CASE ~Accepting
  <2>1. b' = [n EXCEPT !.accepted = n.accepted /\ b_req, !.issued = IF Completing THEN 0 ELSE @]
    BY <1>2 DEF Settle
  <2>2. (n.accepted /\ b_req) \in BOOLEAN /\ (IF Completing THEN 0 ELSE n.issued) \in Nat
    BY DEF BurstType
  <2> QED BY <1>2, <2>1, <2>2 DEF BurstType
<1> QED BY <1>1, <1>2

-----------------------------------------------------------------------------
(* What is on the pins, what is open and how long ago each command was, in *)
(* each state of the sequencer: the distances the chip asks for are the    *)
(* states that lie between two commands.                                    *)
Nop    == command = "NOP"
Shut   == open = Closed
Opened == open = pin_row
Apart(active, close) == since["ACTIVE"] >= active /\ since["CLOSE"] >= close

Sequenced ==
  /\ state = "STARTUP" => Nop /\ Shut /\ Apart(Old, Old) /\ since["REFRESH"] = Old /\ refresh_count = 0
  /\ state # "REF" => since["REFRESH"] >= 7
  /\ state = "REF" => /\ Shut /\ Apart(5, 2) /\ wait_n <= RefWait
                      /\ \/ command = "REFRESH" /\ wait_n = RefWait /\ Apart(6, 2) /\ since["REFRESH"] >= 7
                         \/ Nop /\ wait_n < RefWait /\ since["REFRESH"] + wait_n >= 6
  /\ state \in {"IDLE", "ARB"} => Nop /\ Shut /\ Apart(5, 2)
  /\ state \in {"OPEN1", "BOPEN1"} => command = "ACTIVE" /\ Shut /\ Apart(6, 2)
  /\ state \in {"OPEN2", "BOPEN2"} => Nop /\ Opened /\ Apart(1, 0)
  /\ state = "BREAD" => command \in {"NOP", "READ"} /\ Opened /\ Apart(2, 0)
  /\ state = "BEND"  => command \in {"NOP", "READ"} /\ Opened /\ Apart(3, 0) /\ wait_n \in {0, 1}
  /\ state = "WAIT5" => command \in {"READA", "PRECHARGE"} /\ Opened /\ Apart(2, 0)
  /\ state = "WAIT4" => Nop /\ Shut /\ Apart(3, 1)
  /\ state = "WAIT3" => \/ command = "WRITEA" /\ Opened /\ Apart(2, 0)
                        \/ Nop /\ Shut /\ Apart(3, 1)
  /\ state = "WAIT2" => \/ command = "PRECHARGE" /\ Opened /\ Apart(3, 0)
                        \/ Nop /\ Shut /\ Apart(3, 1)
  /\ state = "WAIT1" => Nop /\ Shut /\ Apart(4, 1)

(* The burst that the sequencer is reading has words left, in the open row. *)
InBurst == state \in {"BOPEN1", "BOPEN2", "BREAD", "BEND"}
Bursting ==
  /\ InBurst => b.active
  /\ b.active /\ state # "BEND" => b.remain # 0
  /\ state \in {"BOPEN1", "BOPEN2"} => b.chunk = 0 /\ b.gap = 0
  /\ state \in {"BOPEN1", "BOPEN2", "BREAD"} => pin_row = Row(b.next)
  /\ state = "BREAD" => b.chunk < Chunk
  /\ b_req => b_len \in Lengths

LEMMA ChipStep ==
  ASSUME TypeOK, Chip
  PROVE  /\ open' = IF command = "ACTIVE" THEN pin_row
                    ELSE IF command \in {"READA", "WRITEA", "PRECHARGE"} THEN Closed ELSE open
         /\ since' \in [{"ACTIVE", "CLOSE", "REFRESH"} -> 0 .. Old]
         /\ since'["ACTIVE"] = IF command = "ACTIVE" THEN 1
                              ELSE IF since["ACTIVE"] < Old THEN since["ACTIVE"] + 1 ELSE Old
         /\ since'["CLOSE"] = IF command \in {"READA", "WRITEA", "PRECHARGE"} THEN 1
                             ELSE IF since["CLOSE"] < Old THEN since["CLOSE"] + 1 ELSE Old
         /\ since'["REFRESH"] = IF command = "REFRESH" THEN 1
                               ELSE IF since["REFRESH"] < Old THEN since["REFRESH"] + 1 ELSE Old
         /\ pipe' \in [1 .. 3 -> 0 .. Size] /\ dq_in' \in 0 .. Size
         /\ pipe'[2] = pipe[1] /\ pipe'[3] = pipe[2] /\ dq_in' = pipe[3]
         /\ command \in {"READ", "READA"} /\ open # Closed => pipe'[1] = Word
<1>1. open' = IF command = "ACTIVE" THEN pin_row
              ELSE IF command \in {"READA", "WRITEA", "PRECHARGE"} THEN Closed ELSE open
  BY DEF Chip
<1>2. ASSUME NEW c \in {"ACTIVE", "CLOSE", "REFRESH"}
      PROVE  /\ since'[c] = IF command = c \/ (c = "CLOSE" /\ command \in {"READA", "WRITEA", "PRECHARGE"})
                             THEN 1 ELSE Passed(c)
             /\ since'[c] \in 0 .. Old
             /\ since[c] \in 0 .. Old
  BY DEF Chip, Passed, TypeOK, Old
<1>3. since' \in [{"ACTIVE", "CLOSE", "REFRESH"} -> 0 .. Old]
  BY <1>2 DEF Chip
<1>4. ASSUME open # Closed PROVE Word \in 0 .. Size
  <2>1. open \in 0 .. Rows - 1 /\ pin_col \in 0 .. Cols - 1 /\ open + 1 <= Rows
    BY <1>4 DEF TypeOK, Closed
  <2>2. open * Cols \in Nat /\ (open + 1) * Cols = open * Cols + Cols /\ (open + 1) * Cols <= Rows * Cols
    BY <2>1, OneMoreTime, Times
  <2> QED BY <2>1, <2>2 DEF Word, Size
<1>5. pipe' \in [1 .. 3 -> 0 .. Size]
  BY <1>4, SizeType DEF Chip, TypeOK, NoWord
<1>6. /\ pipe'[2] = pipe[1] /\ pipe'[3] = pipe[2] /\ dq_in' = pipe[3] /\ dq_in' \in 0 .. Size
      /\ command \in {"READ", "READA"} /\ open # Closed => pipe'[1] = Word
  BY DEF Chip, TypeOK
<1>7. command # "CLOSE"
  BY DEF TypeOK, Commands
<1> QED BY <1>1, <1>2, <1>3, <1>5, <1>6, <1>7 DEF Passed

-----------------------------------------------------------------------------
(* Types.                                                                  *)
ControlTyped ==
  /\ state \in States /\ command \in Commands
  /\ pin_row \in 0 .. Rows - 1 /\ pin_col \in 0 .. Cols - 1
  /\ refresh_count \in Nat /\ refresh_due \in BOOLEAN /\ wait_n \in 0 .. 7
  /\ cur \in Client /\ last \in Client /\ cur_col \in 0 .. Cols - 1
  /\ b \in BurstType /\ b_done \in BOOLEAN
  /\ cap \in [0 .. 4 -> Tags] /\ c_ack \in [Client -> BOOLEAN]

Sequencer == Startup \/ IdleRefresh \/ IdleBurst \/ IdleSingle \/ IdleStay \/ Arb \/ Open2 \/ Pass \/ Ref \/ BRead \/ BEnd

LEMMA ControlStaysTyped == ASSUME TypeOK, Bursting, Sequencer PROVE ControlTyped'
<1>1. /\ b \in BurstType /\ b_addr \in Addr /\ b_len \in Nat /\ b.next \in Addr /\ b.remain \in Nat /\ b.issued \in Nat
      /\ b.chunk \in Nat /\ b.gap \in 0 .. Gap - 1
  BY DEF TypeOK, BurstType
<1>2. \A a \in Addr : Row(a) \in 0 .. Rows - 1 /\ Col(a) \in 0 .. Cols - 1
  BY RowCol
<1>3. \A t \in Tags : Place(t) => cap' \in [0 .. 4 -> Tags]
  BY DEF Place, TypeOK
<1>4. NoTag \in Tags
  BY DEF NoTag, Tags
<1>5. NoRead => cap' \in [0 .. 4 -> Tags]
  BY <1>3, <1>4 DEF NoRead
<1>6. ReadAcks => c_ack' \in [Client -> BOOLEAN]
  BY DEF ReadAcks, Captured
<1>7. Count => refresh_count' \in Nat /\ refresh_due' \in BOOLEAN
  BY DEF Count, TypeOK
<1>8. \A n \in BurstType : Settle(n) => b' \in BurstType /\ b_done' \in BOOLEAN
  BY <1>1, Settled DEF Settle, Completing
<1>9. Quiet => cap' \in [0 .. 4 -> Tags] /\ c_ack' \in [Client -> BOOLEAN] /\ refresh_count' \in Nat /\ refresh_due' \in BOOLEAN
  BY <1>5, <1>6, <1>7 DEF Quiet
<1>10. Still => command' \in Commands /\ pin_row' \in 0 .. Rows - 1 /\ pin_col' \in 0 .. Cols - 1
  BY DEF Still, Pins, Commands, TypeOK
<1>11. Settle(b) => b' \in BurstType /\ b_done' \in BOOLEAN
  BY <1>1, <1>8
<1>12. 0 \in 0 .. Gap - 1 /\ Gap - 1 \in 0 .. Gap - 1
  OBVIOUS
<1> USE DEF ControlTyped, States, Commands
<1>20. CASE Startup
  BY <1>20, <1>5, <1>6, <1>7, <1>10, <1>11 DEF Startup, single, TypeOK
<1>21. CASE IdleRefresh
  <2>1. pin_row' \in 0 .. Rows - 1
    BY <1>21, <1>1, <1>2 DEF IdleRefresh, TypeOK
  <2>2. b' \in BurstType /\ b_done' \in BOOLEAN /\ cap' \in [0 .. 4 -> Tags] /\ c_ack' \in [Client -> BOOLEAN]
    BY <1>21, <1>5, <1>6, <1>11 DEF IdleRefresh
  <2>3. command' \in Commands /\ state' \in States /\ wait_n' \in 0 .. 7 /\ refresh_count' \in Nat
    BY <1>21 DEF IdleRefresh, RefWait
  <2>4. refresh_due' \in BOOLEAN
    BY <1>21, Zenon DEF IdleRefresh
  <2> QED BY <1>21, <2>1, <2>2, <2>3, <2>4 DEF IdleRefresh, single, TypeOK
<1>22. CASE IdleBurst
  <2>1. [b EXCEPT !.chunk = 0, !.gap = 0] \in BurstType
    BY <1>1, <1>12 DEF BurstType
  <2> QED BY <1>22, <1>1, <1>2, <1>8, <1>9, <2>1 DEF IdleBurst, Pins, single, TypeOK
<1>23. CASE IdleSingle
  <2>1. [b EXCEPT !.yield = FALSE] \in BurstType
    BY <1>1 DEF BurstType
  <2>2. pick \in Client
    BY <1>23, PickPending DEF IdleSingle, Pending, TypeOK
  <2> QED BY <1>23, <1>8, <1>9, <1>10, <2>1, <2>2 DEF IdleSingle, TypeOK
<1>24. CASE IdleStay
  BY <1>24, <1>9, <1>10, <1>11 DEF IdleStay, single, TypeOK
<1>25. CASE Arb
  <2>1. c_addr[cur] \in Addr
    BY DEF TypeOK
  <2> QED BY <1>25, <1>2, <1>9, <1>11, <2>1 DEF Arb, Pins, TypeOK
<1>26. CASE Open2
  <2>1. [kind |-> "single", n |-> cur] \in Tags
    BY DEF Tags, TypeOK, Client
  <2>2. cap' \in [0 .. 4 -> Tags]
    BY <1>26, <1>3, <1>5, <2>1 DEF Open2
  <2>3. c_ack' \in [Client -> BOOLEAN]
    <3>1. \A i \in Client : (i = cur \/ Captured(i)) \in BOOLEAN
      BY DEF Captured
    <3> QED BY <1>26, <1>6, <3>1 DEF Open2
  <2> QED BY <1>26, <1>7, <1>11, <2>2, <2>3 DEF Open2, Pins, single, TypeOK
<1>27. CASE Pass
  <2>1. state' \in States
    BY <1>27 DEF Pass, Following
  <2> QED BY <1>27, <1>9, <1>10, <1>11, <2>1 DEF Pass, single, TypeOK
<1>28. CASE Ref
  BY <1>28, <1>9, <1>10, <1>11 DEF Ref, single, TypeOK
<1>29. CASE BRead
  <2>1. CASE b.gap = 0
    <3>1. b.remain - 1 \in Nat
      BY <1>29, <1>1 DEF BRead, Bursting, InBurst
    <3>2. (b.next + 1) % Size \in Addr
      <4>1. b.next + 1 \in Nat
        <5>1. b.next \in Nat
          BY <1>1, SizeType
        <5> QED BY ONLY <5>1
      <4> QED BY <4>1, NextInChip
    <3>3. [b EXCEPT !.next = (@ + 1) % Size, !.issued = @ + 1, !.remain = @ - 1, !.chunk = @ + 1, !.gap = Gap - 1] \in BurstType
      <4>1. b.issued + 1 \in Nat /\ b.chunk + 1 \in Nat
        BY <1>1
      <4> QED BY <1>1, <1>12, <3>1, <3>2, <4>1, Zenon DEF BurstType
    <3>4. [kind |-> "burst", n |-> b.issued] \in Tags
      BY <1>1 DEF Tags, BurstType
    <3>5. cap' \in [0 .. 4 -> Tags]
      BY <1>29, <1>3, <2>1, <3>4 DEF BRead
    <3>6. b' \in BurstType /\ b_done' \in BOOLEAN
      BY <1>29, <1>8, <2>1, <3>3 DEF BRead
    <3>7. command' \in Commands /\ pin_row' \in 0 .. Rows - 1 /\ pin_col' \in 0 .. Cols - 1
      BY <1>29, <1>1, <1>2, <2>1 DEF BRead, Pins, TypeOK
    <3> QED BY <1>29, <1>6, <1>7, <2>1, <3>5, <3>6, <3>7 DEF BRead, single, TypeOK
  <2>2. CASE b.gap # 0
    <3>1. [b EXCEPT !.gap = @ - 1] \in BurstType
      BY <1>1, <2>2 DEF BurstType
    <3> QED BY <1>29, <1>5, <1>6, <1>7, <1>8, <1>10, <2>2, <3>1 DEF BRead, single, TypeOK
  <2> QED BY <2>1, <2>2
<1>30. CASE BEnd
  <2>1. [b EXCEPT !.yield = TRUE, !.active = b.remain # 0] \in BurstType
    BY <1>1 DEF BurstType
  <2> QED BY <1>30, <1>1, <1>8, <1>9, <1>10, <2>1 DEF BEnd, Pins, RowClose, single, TypeOK
<1> QED BY <1>20, <1>21, <1>22, <1>23, <1>24, <1>25, <1>26, <1>27, <1>28, <1>29, <1>30 DEF Sequencer

LEMMA AnswersStayTyped ==
  ASSUME TypeOK, Registered, Capture
  PROVE  /\ any_req_q' \in BOOLEAN /\ b_start' \in BOOLEAN
         /\ rdata' \in 0 .. Size /\ b_wr' \in BOOLEAN /\ b_idx' \in Nat /\ b_data' \in 0 .. Size
<1>1. any_req_q' \in BOOLEAN /\ b_start' \in BOOLEAN
  BY DEF Registered, any_req, Yield
<1>2. rdata' \in 0 .. Size /\ b_wr' \in BOOLEAN
  BY DEF Capture, TypeOK
<1>3. cap[0] \in Tags /\ cap[0].n \in Nat
  BY DEF TypeOK, Tags
<1>4. b_idx' \in Nat /\ b_data' \in 0 .. Size
  BY <1>3 DEF Capture, TypeOK
<1> QED BY <1>1, <1>2, <1>4

LEMMA ClientsStayTyped ==
  ASSUME TypeOK, Clients
  PROVE  c_req' \in [Client -> BOOLEAN] /\ c_addr' \in [Client -> Addr] /\ gone' \in [Client -> BOOLEAN]
<1>1. CASE Drop
  BY <1>1 DEF Drop, TypeOK
<1>2. ASSUME NEW i \in Client, Raise(i) PROVE c_req' \in [Client -> BOOLEAN] /\ c_addr' \in [Client -> Addr] /\ gone' \in [Client -> BOOLEAN]
  <2>1. i \in 0 .. NCLI
    BY DEF Client
  <2>2. Asked[i] \subseteq Addr
    BY <2>1, AskedAssumption
  <2> QED BY <1>2, <2>2 DEF Raise, TypeOK
<1>3. ASSUME NEW i \in Client, Abandon(i) PROVE c_req' \in [Client -> BOOLEAN] /\ c_addr' \in [Client -> Addr] /\ gone' \in [Client -> BOOLEAN]
  BY <1>3, SizeType DEF Abandon, TypeOK
<1> QED BY <1>1, <1>2, <1>3 DEF Clients

LEMMA BurstClientStaysTyped ==
  ASSUME TypeOK, BurstClient
  PROVE  b_req' \in BOOLEAN /\ b_addr' \in Addr /\ b_len' \in Lengths \cup {0} /\ got' \in Nat
<1>1. NCLI \in 0 .. NCLI
  OBVIOUS
<1>2. Asked[NCLI] \subseteq Addr
  BY <1>1, AskedAssumption
<1>3. b_req' \in BOOLEAN
  BY Zenon DEF BurstClient
<1>4. b_addr' \in Addr /\ b_len' \in Lengths \cup {0}
  BY <1>2 DEF BurstClient, TypeOK
<1>5. got' \in Nat
  BY DEF BurstClient, TypeOK
<1> QED BY <1>3, <1>4, <1>5

LEMMA TurnsStayTyped ==
  ASSUME TypeOK, Turns
  PROVE  waited' \in [Client -> [singles : 0 .. Patience, chunks : 0 .. Patience]]
<1> DEFINE Count2 == [singles : 0 .. Patience, chunks : 0 .. Patience]
<1>1. Patience \in Nat
  BY DEF Patience
<1>2. \A n \in 0 .. Patience : (IF n < Patience THEN n + 1 ELSE n) \in 0 .. Patience
  BY <1>1
<1>3. \A i \in Client : waited[i] \in Count2
  BY DEF TypeOK
<1>4. \A i \in Client : /\ [waited[i] EXCEPT !.chunks = IF @ < Patience THEN @ + 1 ELSE @] \in Count2
                         /\ [waited[i] EXCEPT !.singles = IF @ < Patience THEN @ + 1 ELSE @] \in Count2
  BY <1>2, <1>3
<1>5. [singles |-> 0, chunks |-> 0] \in Count2
  BY <1>1
<1> QED BY <1>3, <1>4, <1>5, Zenon DEF Turns

LEMMA TypeStep == ASSUME TypeOK, Bursting, [Next]_vars PROVE TypeOK'
<1>1. CASE Next
  <2>1. Sequencer /\ Registered /\ Capture /\ Chip /\ Clients /\ BurstClient /\ Turns
    BY <1>1 DEF Next, Controller, Sequencer
  <2>2. open' \in 0 .. Rows
    BY <2>1, ChipStep DEF TypeOK, Closed
  <2> QED BY <2>1, <2>2, ControlStaysTyped, AnswersStayTyped, ChipStep, ClientsStayTyped, BurstClientStaysTyped,
             TurnsStayTyped DEF ControlTyped, BurstType, TypeOK
<1>2. CASE UNCHANGED vars
  BY <1>2 DEF TypeOK, vars, pins, single, answers, requests, burst_client
<1> QED BY <1>1, <1>2

LEMMA InitTyped == Init => TypeOK /\ Sequenced /\ Bursting
<1> SUFFICES ASSUME Init PROVE TypeOK /\ Sequenced /\ Bursting
  OBVIOUS
<1>1. 0 \in Client /\ Patience \in Nat /\ NoTag \in Tags /\ NoWord \in 0 .. Size /\ Closed \in 0 .. Rows
  BY SizeType DEF Client, Patience, NoTag, Tags, NoWord, Closed
<1>2. /\ cap \in [0 .. 4 -> Tags] /\ pipe \in [1 .. 3 -> 0 .. Size]
      /\ c_ack \in [Client -> BOOLEAN] /\ c_req \in [Client -> BOOLEAN] /\ gone \in [Client -> BOOLEAN]
      /\ c_addr \in [Client -> Addr] /\ since \in [{"ACTIVE", "CLOSE", "REFRESH"} -> 0 .. Old]
      /\ waited \in [Client -> [singles : 0 .. Patience, chunks : 0 .. Patience]]
  BY <1>1, SizeType DEF Init, Old
<1>3. b \in BurstType
  BY SizeType DEF Init, BurstType
<1>4. TypeOK
  <2>1. /\ state \in States /\ command \in Commands /\ pin_row \in 0 .. Rows - 1 /\ pin_col \in 0 .. Cols - 1
        /\ refresh_count \in Nat /\ wait_n \in 0 .. 7 /\ cur \in Client /\ last \in Client /\ cur_col \in 0 .. Cols - 1
    BY <1>1 DEF Init, States, Commands
  <2>2. /\ refresh_due \in BOOLEAN /\ any_req_q \in BOOLEAN /\ b_start \in BOOLEAN /\ b_wr \in BOOLEAN
        /\ b_done \in BOOLEAN /\ b_req \in BOOLEAN
    BY Zenon DEF Init
  <2>3. /\ dq_in \in 0 .. Size /\ rdata \in 0 .. Size /\ b_idx \in Nat /\ b_data \in 0 .. Size
        /\ b_addr \in Addr /\ b_len \in Lengths \cup {0} /\ got \in Nat /\ open \in 0 .. Rows
    BY <1>1, SizeType DEF Init
  <2> QED BY <1>2, <1>3, <2>1, <2>2, <2>3 DEF TypeOK, BurstType
<1>5. Sequenced
  BY DEF Init, Sequenced, Nop, Shut, Apart, Old
<1>6. Bursting
  BY DEF Init, Bursting, InBurst
<1> QED BY <1>4, <1>5, <1>6

-----------------------------------------------------------------------------
(* The device's rules.                                                     *)
LEMMA SequencedStep ==
  ASSUME TypeOK, Sequenced, Bursting, Next
  PROVE  Sequenced'
<1>1. Chip /\ Sequencer
  BY DEF Next, Controller, Sequencer
<1>2. /\ open' = IF command = "ACTIVE" THEN pin_row
                  ELSE IF command \in {"READA", "WRITEA", "PRECHARGE"} THEN Closed ELSE open
      /\ since'["ACTIVE"] = IF command = "ACTIVE" THEN 1
                            ELSE IF since["ACTIVE"] < 8 THEN since["ACTIVE"] + 1 ELSE 8
      /\ since'["CLOSE"] = IF command \in {"READA", "WRITEA", "PRECHARGE"} THEN 1
                           ELSE IF since["CLOSE"] < 8 THEN since["CLOSE"] + 1 ELSE 8
      /\ since'["REFRESH"] = IF command = "REFRESH" THEN 1
                             ELSE IF since["REFRESH"] < 8 THEN since["REFRESH"] + 1 ELSE 8
  BY <1>1, ChipStep DEF Old
<1>3. since["ACTIVE"] \in 0 .. 8 /\ since["CLOSE"] \in 0 .. 8 /\ since["REFRESH"] \in 0 .. 8 /\ wait_n \in 0 .. 7
  BY DEF TypeOK, Old
<1> USE DEF Sequenced, Nop, Shut, Opened, Apart, Pins, Still, Old, RefWait
<1>20. CASE Startup
  BY <1>20, <1>2, <1>3 DEF Startup
<1>21. CASE IdleRefresh
  BY <1>21, <1>2, <1>3 DEF IdleRefresh
<1>22. CASE IdleBurst
  BY <1>22, <1>2, <1>3 DEF IdleBurst
<1>23. CASE IdleSingle
  BY <1>23, <1>2, <1>3 DEF IdleSingle
<1>24. CASE IdleStay
  BY <1>24, <1>2, <1>3 DEF IdleStay
<1>25. CASE Arb
  BY <1>25, <1>2, <1>3 DEF Arb
<1>26. CASE Open2
  BY <1>26, <1>2, <1>3 DEF Open2
<1>27. CASE Pass
  BY <1>27, <1>2, <1>3 DEF Pass, Following
<1>28. CASE Ref
  BY <1>28, <1>2, <1>3 DEF Ref
<1>29. CASE BRead
  BY <1>29, <1>2, <1>3 DEF BRead
<1>30. CASE BEnd
  BY <1>30, <1>2, <1>3 DEF BEnd, RowClose
<1> QED BY <1>1, <1>20, <1>21, <1>22, <1>23, <1>24, <1>25, <1>26, <1>27, <1>28, <1>29, <1>30 DEF Sequencer

LEMMA BurstingStep ==
  ASSUME TypeOK, Bursting, Next
  PROVE  Bursting'
<1>1. Sequencer /\ BurstClient
  BY DEF Next, Controller, Sequencer
<1>2. b_req' => b_len' \in Lengths
  BY <1>1 DEF BurstClient, Bursting
<1>3. /\ b \in BurstType /\ b_addr \in Addr /\ b_len \in Nat /\ b.next \in Addr /\ b.remain \in Nat
      /\ b.active \in BOOLEAN /\ b.issued \in Nat /\ b.chunk \in Nat /\ b.gap \in 0 .. Gap - 1
  BY DEF TypeOK, BurstType
<1>4. Accepting => ~b.active /\ b_len # 0
  BY DEF Accepting, Bursting
<1>5. Settle(b) => /\ b'.chunk = b.chunk /\ b'.gap = b.gap
                   /\ Accepting => b'.active /\ b'.remain # 0
                   /\ ~Accepting => b'.active = b.active /\ b'.next = b.next /\ b'.remain = b.remain
  BY <1>3, <1>4, Settled
<1>6. Settle(b) /\ (b.active => b.remain # 0) => (b'.active => b'.remain # 0)
  BY <1>4, <1>5
<1> USE DEF Bursting, InBurst
<1>20. CASE Startup
  BY <1>20, <1>2, <1>5, <1>6 DEF Startup
<1>21. CASE IdleRefresh
  BY <1>21, <1>2, <1>5, <1>6 DEF IdleRefresh
<1>22. CASE IdleBurst
  <2> DEFINE n == [b EXCEPT !.chunk = 0, !.gap = 0]
  <2>1. n \in BurstType /\ n.active = b.active /\ n.next = b.next /\ n.remain = b.remain /\ n.chunk = 0 /\ n.gap = 0
    <3>1. 0 \in 0 .. Gap - 1 /\ 0 \in Nat
      OBVIOUS
    <3> QED BY <1>3, <3>1, Zenon DEF BurstType
  <2>2. Settle(n) /\ b.active /\ pin_row' = Row(b.next) /\ state = "IDLE" /\ state' = "BOPEN1"
    BY <1>22 DEF IdleBurst, Pins
  <2>3. b'.chunk = 0 /\ b'.gap = 0 /\ b'.active = n.active /\ b'.next = n.next /\ b'.remain = n.remain
    <3> HIDE DEF n
    <3> QED BY <1>3, <1>4, <2>1, <2>2, Settled
  <2> QED BY <1>2, <2>1, <2>2, <2>3
<1>23. CASE IdleSingle
  <2> DEFINE n == [b EXCEPT !.yield = FALSE]
  <2>1. n \in BurstType /\ n.active = b.active /\ n.remain = b.remain
    BY <1>3 DEF BurstType
  <2>2. Settle(n) /\ state = "IDLE" /\ state' = "ARB"
    BY <1>23 DEF IdleSingle
  <2>3. /\ Accepting => b'.remain # 0
        /\ ~Accepting => b'.active = n.active /\ b'.remain = n.remain
    <3> HIDE DEF n
    <3> QED BY <1>3, <1>4, <2>1, <2>2, Settled
  <2> QED BY <1>2, <2>1, <2>2, <2>3
<1>24. CASE IdleStay
  BY <1>24, <1>2, <1>5, <1>6 DEF IdleStay
<1>25. CASE Arb
  BY <1>25, <1>2, <1>5, <1>6 DEF Arb
<1>26. CASE Open2
  BY <1>26, <1>2, <1>5, <1>6 DEF Open2
<1>27. CASE Pass
  BY <1>27, <1>2, <1>4, <1>5, <1>6 DEF Pass, Following, Still, Pins
<1>28. CASE Ref
  BY <1>28, <1>2, <1>5, <1>6 DEF Ref
<1>29. CASE BRead
  <2>1. b.active /\ ~Accepting /\ b.remain # 0 /\ b.chunk < Chunk /\ pin_row = Row(b.next)
    BY <1>29, <1>4 DEF BRead
  <2>2. CASE b.gap = 0
    <3> DEFINE n == [b EXCEPT !.next = (@ + 1) % Size, !.issued = @ + 1, !.remain = @ - 1, !.chunk = @ + 1, !.gap = Gap - 1]
    <3>1. /\ n.active = b.active /\ n.next = (b.next + 1) % Size /\ n.remain = b.remain - 1 /\ n.chunk = b.chunk + 1
          /\ n \in BurstType
      <4>1. (b.next + 1) % Size \in Addr
        <5>1. b.next \in Nat
          BY <1>3, SizeType
        <5>2. b.next + 1 \in Nat
          BY ONLY <5>1
        <5> QED BY <5>2, NextInChip
      <4>2. b.remain - 1 \in Nat /\ b.issued + 1 \in Nat /\ b.chunk + 1 \in Nat /\ Gap - 1 \in 0 .. Gap - 1
        BY <1>3, <2>1
      <4> QED BY <1>3, <4>1, <4>2, Zenon DEF BurstType
    <3>2. Settle(n)
      BY <1>29, <2>2 DEF BRead
    <3>3. b'.chunk = b.chunk + 1 /\ b'.active = b.active /\ b'.next = (b.next + 1) % Size /\ b'.remain = b.remain - 1
      <4> HIDE DEF n
      <4> QED BY <1>3, <2>1, <3>1, <3>2, Settled
    <3>4. CASE ChunkEnd
      <4>1. state' = "BEND"
        BY <1>29, <2>2, <3>4 DEF BRead
      <4> QED BY <1>2, <2>1, <3>3, <4>1
    <3>5. CASE ~ChunkEnd
      <4>1. state' = "BREAD" /\ pin_row' = pin_row
        BY <1>29, <2>2, <3>5 DEF BRead, Pins
      <4>2. b.remain # 1 /\ b.chunk # Chunk - 1 /\ Row((b.next + 1) % Size) = Row(b.next)
        BY <1>3, <3>5, NextInRow DEF ChunkEnd
      <4> QED BY <1>2, <1>3, <2>1, <3>3, <4>1, <4>2
    <3> QED BY <3>4, <3>5
  <2>3. CASE b.gap # 0
    <3> DEFINE n == [b EXCEPT !.gap = @ - 1]
    <3>1. n \in BurstType /\ n.active = b.active /\ n.next = b.next /\ n.remain = b.remain /\ n.chunk = b.chunk
      BY <1>3, <2>3 DEF BurstType
    <3>2. Settle(n) /\ state' = "BREAD" /\ pin_row' = pin_row
      BY <1>29, <2>3 DEF BRead, Still, Pins
    <3>3. b'.chunk = b.chunk /\ b'.active = b.active /\ b'.next = b.next /\ b'.remain = b.remain
      <4> HIDE DEF n
      <4> QED BY <1>3, <2>1, <3>1, <3>2, Settled
    <3> QED BY <1>2, <2>1, <3>2, <3>3
  <2> QED BY <2>2, <2>3
<1>30. CASE BEnd
  <2>1. b.active /\ ~Accepting
    BY <1>30, <1>4 DEF BEnd
  <2>2. CASE wait_n = 0
    <3> DEFINE n == [b EXCEPT !.yield = TRUE, !.active = b.remain # 0]
    <3>1. n \in BurstType /\ n.active = (b.remain # 0) /\ n.remain = b.remain
      BY <1>3 DEF BurstType
    <3>2. Settle(n) /\ state' \in {"WAIT5", "WAIT2"}
      BY <1>30, <2>2 DEF BEnd
    <3>3. b'.active = n.active /\ b'.remain = n.remain
      <4> HIDE DEF n
      <4> QED BY <1>3, <2>1, <3>1, <3>2, Settled
    <3> QED BY <1>2, <3>1, <3>2, <3>3
  <2>3. CASE wait_n # 0
    BY <1>30, <1>2, <1>5, <2>1, <2>3 DEF BEnd
  <2> QED BY <2>2, <2>3
<1> QED BY <1>1, <1>20, <1>21, <1>22, <1>23, <1>24, <1>25, <1>26, <1>27, <1>28, <1>29, <1>30 DEF Sequencer

Controlled == TypeOK /\ Sequenced /\ Bursting

LEMMA ControlledStep == ASSUME Controlled, [Next]_vars PROVE Controlled'
<1>1. CASE Next
  BY <1>1, TypeStep, SequencedStep, BurstingStep DEF Controlled
<1>2. CASE UNCHANGED vars
  <2>1. TypeOK'
    BY <1>2, TypeStep DEF Controlled
  <2> QED BY <1>2, <2>1 DEF Controlled, Sequenced, Bursting, InBurst, Nop, Shut, Opened, Apart,
                            vars, pins, single, answers, requests, burst_client
<1> QED BY <1>1, <1>2

LEMMA AlwaysControlled == Spec => []Controlled
BY InitTyped, ControlledStep, PTL DEF Spec, Controlled

LEMMA RulesFollow == Controlled => DeviceRules
<1> SUFFICES ASSUME Controlled PROVE DeviceRules
  OBVIOUS
<1>1. state \in States /\ command \in Commands /\ since \in [{"ACTIVE", "CLOSE", "REFRESH"} -> 0 .. Old] /\ pin_row # Closed
  BY DEF Controlled, TypeOK, Closed
<1>2. RowsProper
  BY <1>1 DEF Controlled, Sequenced, Nop, Shut, Opened, Apart, RowsProper, States, Commands
<1>3. CommandSpacing
  BY <1>1 DEF Controlled, Sequenced, Nop, Shut, Opened, Apart, CommandSpacing, States, Commands, Old
<1> QED BY <1>2, <1>3 DEF Controlled, DeviceRules

(* Whatever the clients ask for, whenever the refresh falls due, and       *)
(* however the bursts are cut, the chip is never asked for what it cannot  *)
(* do or too soon.                                                         *)
THEOREM DeviceRulesCorrect == Spec => []DeviceRules
BY AlwaysControlled, RulesFollow, PTL

-----------------------------------------------------------------------------
(* The refresh.  What the sequencer does between two visits of S_IDLE has  *)
(* taken, at the most, so many clocks when it is in a state.               *)
Stay ==
  IF state \in {"ARB", "BOPEN1"} THEN 1
  ELSE IF state \in {"OPEN1", "BOPEN2"} THEN 2
  ELSE IF state = "OPEN2" THEN 3
  ELSE IF state = "BREAD" THEN 3 + b.chunk * Gap - b.gap
  ELSE IF state = "BEND" THEN LongestStay - 6 - wait_n
  ELSE IF state = "WAIT5" THEN LongestStay - 5
  ELSE IF state = "WAIT4" THEN LongestStay - 4
  ELSE IF state = "WAIT3" THEN LongestStay - 3
  ELSE IF state = "WAIT2" THEN LongestStay - 2
  ELSE IF state = "WAIT1" THEN LongestStay - 1
  ELSE LongestStay

Timely ==
  /\ refresh_due <=> (refresh_count > Refresh + 1)
  /\ refresh_count <= Refresh + 1 + Stay
  /\ state = "REF" => refresh_count + wait_n <= RefWait

(* How the context's chunk and gap go on, whether a burst is accepted in   *)
(* the same clock or not.                                                  *)
LEMMA ChunkStep ==
  ASSUME TypeOK, Sequencer
  PROVE  /\ b.chunk \in Nat /\ b.gap \in 0 .. Gap - 1 /\ b'.chunk \in Nat /\ b'.gap \in 0 .. Gap - 1
         /\ state \notin {"IDLE", "BREAD"} => b'.chunk = b.chunk /\ b'.gap = b.gap
         /\ state' = "BREAD" /\ state = "BREAD" =>
              \/ b.gap = 0 /\ b'.chunk = b.chunk + 1 /\ b'.gap = Gap - 1
              \/ b.gap # 0 /\ b'.chunk = b.chunk /\ b'.gap = b.gap - 1
<1>1. b \in BurstType /\ b_addr \in Addr /\ b_len \in Nat /\ b.next \in Addr /\ b.chunk \in Nat /\ b.gap \in 0 .. Gap - 1
  BY DEF TypeOK, BurstType
<1>3. Settle(b) => b'.chunk = b.chunk /\ b'.gap = b.gap
  BY DEF Settle, BurstType, TypeOK
<1>4. CASE IdleBurst
  BY <1>1, <1>4 DEF IdleBurst, Settle, BurstType
<1>5. CASE IdleSingle
  BY <1>1, <1>5 DEF IdleSingle, Settle, BurstType
<1>6. CASE BRead
  <2>1. CASE b.gap = 0
    <3>1. b'.chunk = b.chunk + 1 /\ b'.gap = Gap - 1
      BY <1>1, <1>6, <2>1 DEF BRead, Settle, BurstType
    <3> QED BY <1>1, <1>6, <2>1, <3>1 DEF BRead
  <2>2. CASE b.gap # 0
    <3>1. b'.chunk = b.chunk /\ b'.gap = b.gap - 1
      BY <1>1, <1>6, <2>2 DEF BRead, Settle, BurstType
    <3> QED BY <1>1, <1>6, <2>2, <3>1 DEF BRead
  <2> QED BY <2>1, <2>2
<1>7. CASE BEnd
  <2>1. b'.chunk = b.chunk /\ b'.gap = b.gap
    BY <1>1, <1>7 DEF BEnd, Settle, BurstType
  <2> QED BY <1>1, <1>7, <2>1 DEF BEnd
<1>8. CASE Startup \/ IdleRefresh \/ IdleStay \/ Arb \/ Open2 \/ Pass \/ Ref
  <2>1. Settle(b) /\ (state' = "BREAD" => state # "BREAD")
    BY <1>8 DEF Startup, IdleRefresh, IdleStay, Arb, Open2, Pass, Ref, Following
  <2> QED BY <1>1, <1>3, <2>1
<1> QED BY <1>4, <1>5, <1>6, <1>7, <1>8 DEF Sequencer

(* Outside S_IDLE and the refresh, every clock uses up one of the stay.    *)
LEMMA StayStep ==
  ASSUME Controlled, Sequencer, state \notin {"STARTUP", "IDLE", "REF"}
  PROVE  Count /\ Stay \in Int /\ Stay' \in Int /\ Stay + 1 <= Stay' /\ state' # "REF"
<1> DEFINE L == (Chunk - 1) * Gap
<1>1. L \in Nat /\ LongestStay = L + 11 /\ LongestStay' = LongestStay
  BY DEF LongestStay
<1>2. /\ b.chunk \in Nat /\ b.gap \in 0 .. Gap - 1 /\ b'.chunk \in Nat /\ b'.gap \in 0 .. Gap - 1
      /\ state # "BREAD" => b'.chunk = b.chunk /\ b'.gap = b.gap
      /\ state' = "BREAD" /\ state = "BREAD" =>
           \/ b.gap = 0 /\ b'.chunk = b.chunk + 1 /\ b'.gap = Gap - 1
           \/ b.gap # 0 /\ b'.chunk = b.chunk /\ b'.gap = b.gap - 1
  BY ChunkStep DEF Controlled
<1>3. state = "BEND" => wait_n \in {0, 1}
  BY DEF Controlled, Sequenced
<1> HIDE DEF L
<1>4. CASE Arb
  BY <1>1, <1>4 DEF Arb, Quiet, Stay
<1>5. CASE Open2
  <2>1. Count /\ state = "OPEN2" /\ state' \in {"WAIT3", "WAIT5"}
    BY <1>5 DEF Open2
  <2> QED BY <1>1, <2>1 DEF Stay
<1>6. CASE Pass
  <2>1. Count /\ wait_n' = wait_n
    BY <1>6 DEF Pass, Quiet
  <2>2. CASE state = "BOPEN2"
    <3>1. b.chunk = 0 /\ b.gap = 0 /\ state' = "BREAD"
      BY <1>6, <2>2 DEF Pass, Following, Controlled, Bursting
    <3>2. b'.chunk * Gap - b'.gap = 0 /\ b'.chunk * Gap \in Nat
      BY <1>2, <2>2, <3>1
    <3>3. Stay = 2 /\ Stay' = 3
      BY <1>2, <2>2, <3>1, <3>2 DEF Stay
    <3> QED BY <2>1, <3>1, <3>3
  <2>3. CASE state # "BOPEN2"
    BY <1>1, <1>6, <2>1, <2>3 DEF Pass, Following, Stay
  <2> QED BY <2>2, <2>3
<1>7. CASE BRead
  <2>1. Count /\ state = "BREAD" /\ state' \in {"BREAD", "BEND"} /\ (state' = "BEND" => wait_n' = 1 /\ b.gap = 0)
    BY <1>7 DEF BRead
  <2>2. Stay = 3 + b.chunk * Gap - b.gap /\ b.chunk * Gap \in Nat
    BY <1>2, <2>1 DEF Stay
  <2>3. CASE state' = "BREAD"
    <3>1. b'.chunk * Gap - b'.gap = b.chunk * Gap - b.gap + 1 /\ b'.chunk * Gap \in Nat
      <4>1. CASE b.gap = 0
        BY <1>2, <2>1, <2>3, <4>1, OneMoreTime
      <4>2. CASE b.gap # 0
        BY <1>2, <2>1, <2>3, <4>2
      <4> QED BY <4>1, <4>2
    <3>2. Stay' = 3 + b'.chunk * Gap - b'.gap
      BY <2>3 DEF Stay
    <3> QED BY <1>2, <2>1, <2>2, <2>3, <3>1, <3>2
  <2>4. CASE state' = "BEND"
    <3>1. b.chunk <= Chunk - 1
      BY <1>2, <2>1 DEF Controlled, Bursting
    <3>2. b.chunk * Gap <= L
      BY <1>2, <3>1, Times DEF L
    <3>3. Stay' = L + 4
      BY <1>1, <2>1, <2>4 DEF Stay
    <3> QED BY <1>1, <1>2, <2>1, <2>2, <2>4, <3>2, <3>3
  <2> QED BY <2>1, <2>3, <2>4
<1>8. CASE BEnd
  <2>1. Count /\ state = "BEND" /\ wait_n' = (wait_n + 7) % 8
    BY <1>8 DEF BEnd, Quiet
  <2>2. \/ wait_n = 0 /\ state' \in {"WAIT5", "WAIT2"}
        \/ wait_n = 1 /\ wait_n' = 0 /\ state' = "BEND"
    BY <1>3, <1>8, <2>1 DEF BEnd
  <2> QED BY <1>1, <2>1, <2>2 DEF Stay
<1> QED BY <1>4, <1>5, <1>6, <1>7, <1>8 DEF Sequencer, Startup, IdleRefresh, IdleBurst, IdleSingle, IdleStay, Ref

LEMMA TimelyStep ==
  ASSUME Controlled, Timely, Next
  PROVE  Timely'
<1>1. Sequencer /\ refresh_count \in Nat /\ wait_n \in 0 .. 7 /\ Refresh \in Nat
  BY DEF Next, Controller, Sequencer, Controlled, TypeOK
<1>2. LongestStay \in Nat /\ LongestStay >= 11 /\ LongestStay' = LongestStay
  BY DEF LongestStay
<1>3. Count => (refresh_due' <=> (refresh_count' > Refresh + 1)) /\ refresh_count' = refresh_count + 1
  <2>1. (refresh_count > Refresh) <=> (refresh_count + 1 > Refresh + 1)
    BY <1>1
  <2> QED BY <2>1, Zenon DEF Count
<1>4. CASE Startup
  <2>1. state = "STARTUP" /\ refresh_count = 0
    BY <1>4 DEF Startup, Controlled, Sequenced
  <2>2. CASE Count /\ state' = "IDLE"
    BY <1>1, <1>2, <1>3, <2>1, <2>2 DEF Timely, Stay
  <2>3. CASE state' = "STARTUP" /\ UNCHANGED <<refresh_count, refresh_due>>
    BY <1>1, <1>2, <2>1, <2>3 DEF Timely, Stay
  <2> QED BY <1>4, <2>2, <2>3 DEF Startup
<1>5. CASE IdleRefresh
  BY <1>1, <1>2, <1>5 DEF IdleRefresh, Timely, Stay, RefWait
<1>6. CASE IdleBurst \/ IdleSingle \/ IdleStay
  <2>1. Count /\ state = "IDLE" /\ ~refresh_due /\ state' \in {"BOPEN1", "ARB", "IDLE"}
    BY <1>6 DEF IdleBurst, IdleSingle, IdleStay, Quiet
  <2> QED BY <1>1, <1>2, <1>3, <2>1 DEF Timely, Stay
<1>7. CASE Ref
  BY <1>1, <1>2, <1>3, <1>7 DEF Ref, Quiet, Timely, Stay, RefWait
<1>8. CASE Arb \/ Open2 \/ Pass \/ BRead \/ BEnd
  <2>1. state \notin {"STARTUP", "IDLE", "REF"}
    BY <1>8 DEF Arb, Open2, Pass, BRead, BEnd
  <2>2. Count /\ Stay \in Int /\ Stay' \in Int /\ Stay + 1 <= Stay' /\ state' # "REF"
    BY <1>1, <2>1, StayStep
  <2> HIDE DEF Stay
  <2>3. (refresh_due' <=> (refresh_count' > Refresh + 1)) /\ refresh_count' = refresh_count + 1
    BY <1>3, <2>2, Zenon
  <2>4. refresh_count' <= Refresh + 1 + Stay'
    <3>1. refresh_count <= Refresh + 1 + Stay
      BY Zenon DEF Timely
    <3>2. ASSUME NEW x \in Int, NEW y \in Int, NEW c \in Nat, x + 1 <= y, c <= Refresh + 1 + x PROVE c + 1 <= Refresh + 1 + y
      BY <3>2
    <3> QED BY <1>1, <2>2, <2>3, <3>1, <3>2
  <2> QED BY <2>2, <2>3, <2>4, Zenon DEF Timely
<1> QED BY <1>1, <1>4, <1>5, <1>6, <1>7, <1>8 DEF Sequencer

LEMMA TimelyFollows == Controlled /\ Timely => RefreshOnTime
<1> SUFFICES ASSUME Controlled, Timely PROVE RefreshOnTime
  OBVIOUS
<1> DEFINE L == (Chunk - 1) * Gap
<1>1. L \in Nat /\ LongestStay = L + 11
  BY DEF LongestStay
<1>2. b.chunk \in Nat /\ b.gap \in 0 .. Gap - 1 /\ wait_n \in 0 .. 7 /\ refresh_count \in Nat
  BY DEF Controlled, TypeOK
<1>3. state = "BREAD" => b.chunk <= Chunk - 1
  BY <1>2 DEF Controlled, Bursting
<1>4. state = "BREAD" => b.chunk * Gap <= L
  BY <1>2, <1>3, Times
<1>5. b.chunk * Gap \in Nat
  BY <1>2
<1> HIDE DEF L
<1>6. Stay \in Int /\ Stay <= LongestStay
  <2> DEFINE c == b.chunk * Gap
  <2>1. c \in Nat /\ (state = "BREAD" => c <= L) /\ Stay = IF state = "BREAD" THEN 3 + c - b.gap ELSE Stay
    BY <1>4, <1>5 DEF Stay
  <2> HIDE DEF c
  <2>2. CASE state = "BREAD"
    BY <1>1, <1>2, <2>1, <2>2
  <2>3. CASE state # "BREAD"
    BY <1>1, <1>2, <2>3 DEF Stay
  <2> QED BY <2>2, <2>3
<1> HIDE DEF Stay
<1> QED BY <1>1, <1>2, <1>6 DEF Timely, RefreshOnTime

(* However long the bursts and however many the single accesses, a refresh *)
(* that is due waits for one stay of the sequencer and no more.            *)
THEOREM RefreshOnTimeCorrect == Spec => []RefreshOnTime
<1>1. Init => Controlled /\ Timely
  <2>1. Init => Timely
    BY DEF Init, Timely, Stay, LongestStay
  <2> QED BY <2>1, InitTyped DEF Controlled
<1>2. ASSUME Controlled, Timely, [Next]_vars PROVE Timely'
  <2>1. CASE UNCHANGED vars
    <3>1. Stay' = Stay
      BY <2>1 DEF vars, Stay, LongestStay
    <3> QED BY <1>2, <2>1, <3>1 DEF vars, Timely
  <2> QED BY <1>2, <2>1, TimelyStep
<1> QED BY <1>1, <1>2, AlwaysControlled, TimelyFollows, PTL DEF Spec

-----------------------------------------------------------------------------
(* The words under way.  A READ's word passes through the chip as its tag  *)
(* passes through the capture pipeline: where the tag is k stages from its *)
(* end, the word is this.                                                  *)
Data(k) == IF k = 0 THEN dq_in ELSE IF k = 4 THEN Word ELSE pipe[4 - k]

Reading == cap[4].kind # "none" => command \in {"READ", "READA"}

LEMMA CapStep ==
  ASSUME TypeOK, Sequencer
  PROVE  /\ \A k \in 0 .. 3 : cap'[k] = cap[k + 1]
         /\ \/ cap'[4] = NoTag
            \/ Open2 /\ cur \notin Writers /\ cap'[4] = [kind |-> "single", n |-> cur] /\ command' = "READA"
            \/ BRead /\ b.gap = 0 /\ cap'[4] = [kind |-> "burst", n |-> b.issued] /\ command' = "READ"
<1> DEFINE Shift(t) == cap'[4] = t /\ \A k \in 0 .. 3 : cap'[k] = cap[k + 1]
<1>1. \A t : Place(t) => Shift(t)
  BY DEF Place
<1>2. NoRead => Shift(NoTag)
  BY <1>1 DEF NoRead
<1> HIDE DEF Shift
<1>3. CASE Open2
  <2>1. CASE cur \in Writers
    BY <1>2, <1>3, <2>1 DEF Open2, Shift
  <2>2. CASE cur \notin Writers
    <3>1. Shift([kind |-> "single", n |-> cur]) /\ command' = "READA"
      BY <1>1, <1>3, <2>2 DEF Open2, Pins
    <3> QED BY <1>3, <2>2, <3>1 DEF Shift
  <2> QED BY <2>1, <2>2
<1>4. CASE BRead
  <2>1. CASE b.gap = 0
    <3>1. Shift([kind |-> "burst", n |-> b.issued]) /\ command' = "READ"
      BY <1>1, <1>4, <2>1 DEF BRead, Pins
    <3> QED BY <1>4, <2>1, <3>1 DEF Shift
  <2>2. CASE b.gap # 0
    BY <1>2, <1>4, <2>2 DEF BRead, Shift
  <2> QED BY <2>1, <2>2
<1>5. CASE Startup \/ IdleRefresh \/ IdleBurst \/ IdleSingle \/ IdleStay \/ Arb \/ Pass \/ Ref \/ BEnd
  <2>1. NoRead
    BY <1>5 DEF Startup, IdleRefresh, IdleBurst, IdleSingle, IdleStay, Arb, Pass, Ref, BEnd, Quiet
  <2> QED BY <1>2, <2>1 DEF Shift
<1> QED BY <1>3, <1>4, <1>5 DEF Sequencer

LEMMA DataStep ==
  ASSUME Controlled, Reading, Next, NEW k \in 0 .. 3
  PROVE  cap'[k] = cap[k + 1] /\ (cap[k + 1].kind # "none" => Data(k)' = Data(k + 1))
<1>1. Sequencer /\ Chip /\ TypeOK /\ RowsProper
  BY RulesFollow DEF Next, Controller, Sequencer, Controlled, DeviceRules
<1>2. /\ pipe'[2] = pipe[1] /\ pipe'[3] = pipe[2] /\ dq_in' = pipe[3]
      /\ command \in {"READ", "READA"} /\ open # Closed => pipe'[1] = Word
  BY <1>1, ChipStep
<1>3. cap'[k] = cap[k + 1]
  BY <1>1, CapStep
<1>4. CASE k = 0
  BY <1>2, <1>3, <1>4 DEF Data
<1>5. CASE k = 1
  BY <1>2, <1>3, <1>5 DEF Data
<1>6. CASE k = 2
  BY <1>2, <1>3, <1>6 DEF Data
<1>7. CASE k = 3
  BY <1>1, <1>2, <1>3, <1>7 DEF Data, Reading, RowsProper
<1> QED BY <1>4, <1>5, <1>6, <1>7

LEMMA ReadingStep ==
  ASSUME TypeOK, Sequencer
  PROVE  Reading'
BY CapStep DEF Reading, NoTag

-----------------------------------------------------------------------------
(* The single accesses.  One is under way at a time, that of the client    *)
(* cur, and where it stands the state tells; its word is the one the       *)
(* client's standing request names, unless a reset took the request away.  *)
Wanted(i, a) == gone[i] \/ (c_req[i] /\ a = c_addr[i])

Awaited(k) ==
  \/ k = 0 /\ state = "WAIT1"
  \/ k = 1 /\ state = "WAIT2"
  \/ k = 2 /\ state = "WAIT3"
  \/ k = 3 /\ state = "WAIT4"
  \/ k = 4 /\ state = "WAIT5"

Chosen    == state = "ARB" => gone[cur] \/ c_req[cur]
Addressed == state \in {"OPEN1", "OPEN2"} => Wanted(cur, pin_row * Cols + cur_col)
Tagged    == \A k \in 0 .. 4 : cap[k].kind = "single" =>
                cap[k].n = cur /\ cur \notin Writers /\ Awaited(k) /\ Wanted(cur, Data(k))
Acked     == \A i \in Client : c_ack[i] =>
                /\ i = cur
                /\ \/ state = "IDLE" /\ i \notin Writers /\ Wanted(i, rdata)
                   \/ state = "WAIT3" /\ i \in Writers /\ command = "WRITEA" /\ Wanted(i, Word)
WritersStay == \A i \in Writers : ~gone[i]

Singles == Chosen /\ Addressed /\ Tagged /\ Acked /\ WritersStay

(* The request of a client in flight stands, or is known to be gone.       *)
LEMMA WantedStays ==
  ASSUME TypeOK, Clients, NEW i \in Client, ~c_ack[i], InFlight(i) \/ c_req[i], NEW a, Wanted(i, a)
  PROVE  Wanted(i, a)'
<1>1. CASE Drop
  BY <1>1 DEF Drop, Wanted
<1>2. ASSUME NEW j \in Client, Raise(j) PROVE Wanted(i, a)'
  <2>1. j # i
    BY <1>2, Zenon DEF Raise
  <2>2. c_req'[i] = c_req[i] /\ gone'[i] = gone[i] /\ c_addr'[i] = c_addr[i]
    BY <1>2, <2>1 DEF Raise, TypeOK
  <2> QED BY <2>2 DEF Wanted
<1>3. ASSUME NEW j \in Client, Abandon(j) PROVE Wanted(i, a)'
  <2>1. CASE j = i
    BY <1>3, <2>1 DEF Abandon, Wanted, TypeOK
  <2>2. CASE j # i
    BY <1>3, <2>2 DEF Abandon, Wanted, TypeOK
  <2> QED BY <2>1, <2>2
<1> QED BY <1>1, <1>2, <1>3 DEF Clients

LEMMA StandsStay ==
  ASSUME TypeOK, Clients, NEW i \in Client, c_req[i], ~c_ack[i]
  PROVE  gone'[i] \/ c_req'[i]
<1>1. CASE Drop
  BY <1>1 DEF Drop
<1>2. ASSUME NEW j \in Client, Raise(j) PROVE c_req'[i]
  BY <1>2 DEF Raise, TypeOK
<1>3. ASSUME NEW j \in Client, Abandon(j) PROVE gone'[i] \/ c_req'[i]
  BY <1>3 DEF Abandon, TypeOK
<1> QED BY <1>1, <1>2, <1>3 DEF Clients

LEMMA WritersStayStep == ASSUME TypeOK, WritersStay, Clients PROVE WritersStay'
<1>1. CASE Drop
  BY <1>1 DEF Drop, WritersStay
<1>2. ASSUME NEW j \in Client, Raise(j) PROVE WritersStay'
  BY <1>2 DEF Raise, WritersStay, TypeOK
<1>3. ASSUME NEW j \in Client, Abandon(j) PROVE WritersStay'
  BY <1>3 DEF Abandon, WritersStay, TypeOK
<1> QED BY <1>1, <1>2, <1>3 DEF Clients

LEMMA AcksFrom ==
  ASSUME TypeOK, Sequencer, NEW i \in Client, c_ack'[i]
  PROVE  \/ Captured(i) /\ ~(Open2 /\ cur \in Writers)
         \/ Open2 /\ cur \in Writers /\ state' = "WAIT3" /\ command' = "WRITEA" /\ pin_row' = pin_row /\ pin_col' = cur_col
            /\ (i = cur \/ Captured(i))
<1>1. ReadAcks => Captured(i)
  BY DEF ReadAcks
<1>2. CASE Open2
  BY <1>1, <1>2 DEF Open2, Pins
<1>3. CASE ~Open2
  <2>1. ReadAcks
    BY <1>3 DEF Sequencer, Startup, IdleRefresh, IdleBurst, IdleSingle, IdleStay, Arb, Pass, Ref, BRead, BEnd, Quiet
  <2> QED BY <1>1, <1>3, <2>1
<1> QED BY <1>2, <1>3

(* The single access keeps its client: only S_IDLE picks another.          *)
LEMMA CurKept ==
  ASSUME Sequencer
  PROVE  /\ state' = "ARB" => IdleSingle
         /\ state # "IDLE" => cur' = cur
         /\ state' = "OPEN1" => Arb
         /\ state' = "OPEN2" => state = "OPEN1" /\ pin_row' = pin_row /\ cur_col' = cur_col
         /\ state \in {"WAIT5", "WAIT4", "WAIT3", "WAIT2", "WAIT1"} => state' = Following(state)
<1> USE DEF single, Pins, Still
<1>1. CASE Startup \/ IdleRefresh \/ IdleBurst \/ IdleSingle \/ IdleStay
  BY <1>1 DEF Startup, IdleRefresh, IdleBurst, IdleSingle, IdleStay
<1>2. CASE Arb \/ Open2
  BY <1>2 DEF Arb, Open2
<1>3. CASE Pass
  BY <1>3 DEF Pass, Following
<1>4. CASE Ref \/ BRead \/ BEnd
  BY <1>4 DEF Ref, BRead, BEnd
<1> QED BY <1>1, <1>2, <1>3, <1>4 DEF Sequencer

LEMMA SinglesStep ==
  ASSUME Controlled, Reading, Singles, Next
  PROVE  Singles'
<1>1. Sequencer /\ Clients /\ Capture /\ Chip /\ TypeOK /\ Sequenced
  BY DEF Next, Controller, Sequencer, Controlled
<1>2. cur \in Client /\ cur' \in Client /\ pin_row \in 0 .. Rows - 1 /\ cur_col \in 0 .. Cols - 1 /\ state \in States
  BY <1>1, ControlStaysTyped DEF TypeOK, ControlTyped, Controlled
<1>3. ASSUME NEW a, Wanted(cur, a), state \notin {"IDLE", "WAIT3"} \/ (state = "WAIT3" /\ cur \notin Writers),
             InFlight(cur)
      PROVE  cur' = cur /\ (gone'[cur] \/ (c_req'[cur] /\ a = c_addr'[cur]))
  <2>1. ~c_ack[cur]
    BY <1>2, <1>3 DEF Singles, Acked
  <2>2. cur' = cur
    BY <1>1, <1>3, CurKept
  <2>3. ASSUME NEW i \in Client, i = cur PROVE gone'[i] \/ (c_req'[i] /\ a = c_addr'[i])
    <3>1. Wanted(i, a)'
      BY <1>1, <1>2, <1>3, <2>1, <2>3, WantedStays
    <3> QED BY <3>1 DEF Wanted
  <2> QED BY <1>2, <2>2, <2>3
<1>4. ASSUME NEW k \in 0 .. 4, cap[k].kind = "single"
      PROVE  cap[k].n = cur /\ cur \notin Writers /\ Awaited(k) /\ Wanted(cur, Data(k)) /\ InFlight(cur)
  <2>1. cap[k].n = cur /\ cur \notin Writers /\ Awaited(k) /\ Wanted(cur, Data(k))
    BY <1>4 DEF Singles, Tagged
  <2>2. cap[k] = [kind |-> "single", n |-> cur]
    BY <1>1, <1>4, <2>1 DEF TypeOK, Tags
  <2> QED BY <2>1, <2>2 DEF InFlight
<1>10. Chosen'
  <2> SUFFICES ASSUME state' = "ARB" PROVE gone'[cur'] \/ c_req'[cur']
    BY DEF Chosen
  <2>1. IdleSingle
    BY <1>1, CurKept
  <2> PICK i \in Client : i = cur'
    BY <1>2
  <2>2. i \in Pending
    BY <1>1, <2>1, PickPending DEF IdleSingle, TypeOK
  <2>3. c_req[i] /\ ~c_ack[i]
    BY <2>2 DEF Pending
  <2> QED BY <1>1, <2>3, StandsStay
<1>11. Addressed'
  <2>1. CASE state' = "OPEN1"
    <3>1. Arb
      BY <1>1, <2>1, CurKept
    <3>2. state = "ARB" /\ InFlight(cur) /\ pin_row' = Row(c_addr[cur]) /\ cur_col' = Col(c_addr[cur])
      BY <3>1 DEF Arb, InFlight, Pins
    <3>3. Wanted(cur, c_addr[cur])
      BY <3>2 DEF Singles, Chosen, Wanted
    <3>4. Row(c_addr[cur]) * Cols + Col(c_addr[cur]) = c_addr[cur]
      BY <1>1, <1>2, RowCol DEF TypeOK
    <3>5. cur' = cur /\ (gone'[cur] \/ (c_req'[cur] /\ c_addr[cur] = c_addr'[cur]))
      BY <1>3, <3>2, <3>3
    <3>6. pin_row' * Cols + cur_col' = c_addr[cur]
      BY <3>2, <3>4
    <3> QED BY <3>5, <3>6 DEF Addressed, Wanted
  <2>2. CASE state' = "OPEN2"
    <3>1. state = "OPEN1" /\ pin_row' = pin_row /\ cur_col' = cur_col
      BY <1>1, <2>2, CurKept
    <3>2. InFlight(cur) /\ Wanted(cur, pin_row * Cols + cur_col)
      BY <3>1 DEF Singles, Addressed, InFlight
    <3>3. cur' = cur /\ (gone'[cur] \/ (c_req'[cur] /\ pin_row * Cols + cur_col = c_addr'[cur]))
      BY <1>3, <3>1, <3>2
    <3> QED BY <3>1, <3>3 DEF Addressed, Wanted
  <2> QED BY <2>1, <2>2 DEF Addressed
<1>12. ASSUME Open2
       PROVE  /\ state' \in {"WAIT3", "WAIT5"} /\ (cur \notin Writers => state' = "WAIT5")
              /\ cur' = cur /\ (gone'[cur] \/ (c_req'[cur] /\ Word' = c_addr'[cur]))
  <2>1. state = "OPEN2" /\ state' \in {"WAIT3", "WAIT5"} /\ (cur \notin Writers => state' = "WAIT5") /\ pin_col' = cur_col
    BY <1>12 DEF Open2, Pins
  <2>2. open' = pin_row
    BY <1>1, <2>1, ChipStep DEF Sequenced, Nop, Opened
  <2>3. Word' = pin_row * Cols + cur_col
    BY <2>1, <2>2 DEF Word
  <2>4. InFlight(cur) /\ Wanted(cur, pin_row * Cols + cur_col)
    BY <2>1 DEF Singles, Addressed, InFlight
  <2>5. cur' = cur /\ (gone'[cur] \/ (c_req'[cur] /\ pin_row * Cols + cur_col = c_addr'[cur]))
    BY <1>3, <2>1, <2>4
  <2> QED BY <2>1, <2>3, <2>5
<1>13. Tagged'
  <2> SUFFICES ASSUME NEW k \in 0 .. 4, cap'[k].kind = "single"
               PROVE  cap'[k].n = cur' /\ cur' \notin Writers /\ Awaited(k)' /\ Wanted(cur, Data(k))'
    BY DEF Tagged
  <2>1. CASE k = 4
    <3>1. Open2 /\ cur \notin Writers /\ cap'[4] = [kind |-> "single", n |-> cur]
      BY <1>1, <2>1, CapStep DEF NoTag
    <3>2. state' = "WAIT5" /\ cur' = cur /\ (gone'[cur] \/ (c_req'[cur] /\ Word' = c_addr'[cur]))
      BY <1>12, <3>1
    <3> QED BY <2>1, <3>1, <3>2 DEF Awaited, Wanted, Data
  <2>2. CASE k # 4
    <3>1. k \in 0 .. 3 /\ k + 1 \in 0 .. 4
      BY <2>2
    <3>2. cap'[k] = cap[k + 1] /\ Data(k)' = Data(k + 1)
      BY <2>2, <3>1, DataStep
    <3>3. cap[k + 1].n = cur /\ cur \notin Writers /\ Awaited(k + 1) /\ Wanted(cur, Data(k + 1)) /\ InFlight(cur)
      BY <1>4, <3>1, <3>2
    <3>4. state \in {"WAIT5", "WAIT4", "WAIT3", "WAIT2"} /\ state' = Following(state)
      BY <1>1, <3>1, <3>3, CurKept DEF Awaited
    <3>5. Awaited(k)'
      BY <3>1, <3>3, <3>4 DEF Awaited, Following
    <3>6. cur' = cur /\ (gone'[cur] \/ (c_req'[cur] /\ Data(k + 1) = c_addr'[cur]))
      BY <1>3, <3>3, <3>4
    <3> HIDE DEF Data
    <3> QED BY <3>2, <3>3, <3>5, <3>6 DEF Wanted
  <2> QED BY <2>1, <2>2
<1>14. Acked'
  <2> SUFFICES ASSUME NEW i \in Client, c_ack'[i]
               PROVE  /\ i = cur'
                      /\ \/ state' = "IDLE" /\ i \notin Writers /\ Wanted(i, rdata)'
                         \/ state' = "WAIT3" /\ i \in Writers /\ command' = "WRITEA" /\ Wanted(i, Word)'
    BY DEF Acked
  <2>1. ASSUME Captured(i) PROVE cap[0].kind = "single" /\ i = cur /\ state = "WAIT1" /\ cur \notin Writers
                                 /\ Wanted(cur, dq_in) /\ InFlight(cur)
    <3>1. cap[0].kind = "single" /\ cap[0].n = i
      BY <2>1 DEF Captured
    <3> QED BY <1>4, <3>1 DEF Awaited, Data
  <2>2. CASE Captured(i) /\ ~(Open2 /\ cur \in Writers)
    <3>1. rdata' = dq_in
      BY <1>1, <2>1, <2>2 DEF Capture
    <3>2. state' = "IDLE"
      BY <1>1, <2>1, <2>2, CurKept DEF Following
    <3>3. cur' = cur /\ (gone'[cur] \/ (c_req'[cur] /\ dq_in = c_addr'[cur]))
      BY <1>3, <2>1, <2>2
    <3> QED BY <2>1, <2>2, <3>1, <3>2, <3>3 DEF Wanted
  <2>3. CASE Open2 /\ cur \in Writers /\ state' = "WAIT3" /\ command' = "WRITEA" /\ (i = cur \/ Captured(i))
    <3>1. i = cur
      BY <2>1, <2>3
    <3> QED BY <1>12, <2>3, <3>1 DEF Wanted
  <2> QED BY <1>1, <2>2, <2>3, AcksFrom
<1>15. WritersStay'
  BY <1>1, WritersStayStep DEF Singles
<1> QED BY <1>10, <1>11, <1>13, <1>14, <1>15 DEF Singles

LEMMA AckedOwnFollows == Controlled /\ Singles => AckedOwn
<1> SUFFICES ASSUME Controlled, Singles, NEW i \in Client, c_ack[i], ~gone[i]
             PROVE  /\ c_req[i]
                    /\ i \notin Writers => rdata = c_addr[i]
                    /\ i \in Writers => command = "WRITEA" /\ open = Row(c_addr[i]) /\ pin_col = Col(c_addr[i])
  BY DEF AckedOwn
<1>1. CASE state = "IDLE" /\ i \notin Writers /\ Wanted(i, rdata)
  BY <1>1 DEF Wanted
<1>2. CASE i \in Writers /\ command = "WRITEA" /\ Wanted(i, Word)
  <2>1. c_req[i] /\ Word = c_addr[i]
    BY <1>2 DEF Wanted
  <2>2. open \in Nat /\ pin_col \in 0 .. Cols - 1 /\ c_addr[i] \in Nat
    <3>1. TypeOK /\ open # Closed
      BY <1>2, RulesFollow DEF Controlled, DeviceRules, RowsProper
    <3>2. open \in 0 .. Rows /\ pin_col \in 0 .. Cols - 1 /\ c_addr[i] \in Addr
      BY <3>1 DEF TypeOK
    <3>3. open \in Nat
      BY <3>2
    <3>4. c_addr[i] \in Nat
      BY <3>2, SizeType, Zenon
    <3> QED BY <3>2, <3>3, <3>4
  <2>3. \A k \in 0 .. Cols - 1 : \A a \in Nat : a = open * Cols + k => a \div Cols = open /\ a % Cols = k
    BY <2>2, SizeType, Quotient
  <2>4. c_addr[i] \div Cols = open /\ c_addr[i] % Cols = pin_col
    BY <2>1, <2>2, <2>3, Zenon DEF Word
  <2> QED BY <1>2, <2>1, <2>4 DEF Row, Col
<1> QED BY <1>1, <1>2 DEF Singles, Acked

(* Every ack answers the request that stands: a read's word was read from  *)
(* the address asked for, a write's WRITE is on the pins at its address,   *)
(* however many clients there are and whenever resets take requests away.  *)
THEOREM AckedOwnCorrect == Spec => []AckedOwn
<1>1. Init => Reading /\ Singles
  BY DEF Init, Reading, Singles, Chosen, Addressed, Tagged, Acked, WritersStay, NoTag
<1>2. ASSUME Controlled, Reading, Singles, [Next]_vars PROVE Reading' /\ Singles'
  <2>1. CASE Next
    <3>1. TypeOK /\ Sequencer
      BY <1>2, <2>1 DEF Next, Controller, Sequencer, Controlled
    <3> QED BY <1>2, <2>1, <3>1, ReadingStep, SinglesStep
  <2>2. CASE UNCHANGED vars
    BY <1>2, <2>2 DEF vars, pins, single, answers, requests, Reading, Singles, Chosen, Addressed, Tagged, Acked,
                      WritersStay, Wanted, Awaited, Data, Word
  <2> QED BY <1>2, <2>1, <2>2
<1> QED BY <1>1, <1>2, AlwaysControlled, AckedOwnFollows, PTL DEF Spec

-----------------------------------------------------------------------------
(* The burst.  Its words are counted where they are: delivered, in the     *)
(* capture pipeline, still to be read.                                     *)
One(k)    == IF cap[k].kind = "burst" THEN 1 ELSE 0
Delivered == got + (IF b_wr THEN 1 ELSE 0)
Before(k) == Delivered + (IF k > 0 THEN One(0) ELSE 0) + (IF k > 1 THEN One(1) ELSE 0) + (IF k > 2 THEN One(2) ELSE 0)
               + (IF k > 3 THEN One(3) ELSE 0) + (IF k > 4 THEN One(4) ELSE 0)
Drained(k)  == \A j \in 0 .. 4 : j > k => cap[j].kind # "burst"
AllDrained  == \A j \in 0 .. 4 : cap[j].kind # "burst"
AllHeard    == ~b_wr /\ AllDrained

(* A burst under way: what is read and what is left make up its length,    *)
(* and every word in the pipeline has the index and the address of its     *)
(* place in the burst.                                                     *)
OnCourse ==
  /\ b_req /\ b.accepted /\ ~b_done
  /\ b.issued + b.remain = b_len /\ b.next = (b_addr + b.issued) % Size
  /\ b.issued = Before(5)
  /\ \A k \in 0 .. 4 : cap[k].kind = "burst" => cap[k].n = Before(k) /\ Data(k) = (b_addr + cap[k].n) % Size
  /\ b_wr => b_idx = got /\ b_data = (b_addr + got) % Size

(* The five phases of a burst.                                             *)
NoBurst      == ~b_req /\ ~b.active /\ b.issued = 0 /\ ~b_done /\ AllHeard
BurstAsked   == b_req /\ ~b.active /\ ~b.accepted /\ b.issued = 0 /\ ~b_done /\ AllHeard /\ got = 0
BurstReading == b.active /\ OnCourse
BurstEnding  ==
  /\ ~b.active /\ b.remain = 0 /\ OnCourse
  /\ \/ state = "WAIT5" /\ Drained(2)
     \/ state = "WAIT4" /\ Drained(1)
     \/ state = "WAIT3" /\ Drained(0)
     \/ state = "WAIT2" /\ AllDrained
     \/ state = "WAIT1" /\ AllHeard
BurstDone    == b_req /\ ~b.active /\ b.accepted /\ b_done /\ b.issued = 0 /\ AllHeard /\ got = b_len

Phase == NoBurst \/ BurstAsked \/ BurstReading \/ BurstEnding \/ BurstDone

JustRead == cap[4].kind = "burst" => state = "BREAD" \/ (state = "BEND" /\ wait_n = 1)

LEMMA JustReadStep == ASSUME TypeOK, Sequencer PROVE JustRead'
<1> SUFFICES ASSUME cap'[4].kind = "burst" PROVE state' = "BREAD" \/ (state' = "BEND" /\ wait_n' = 1)
  BY DEF JustRead
<1>1. BRead /\ b.gap = 0
  BY CapStep DEF NoTag
<1> QED BY <1>1 DEF BRead

(* What a clock does to the context.                                       *)
LEMMA ContextStep ==
  ASSUME TypeOK, Bursting, Sequencer
  PROVE  /\ b_done' = Completing
         /\ Accepting => /\ ~b.active /\ b'.active /\ b'.accepted /\ b'.next = b_addr /\ b'.remain = b_len
                         /\ b'.issued = 0 /\ cap'[4].kind # "burst"
         /\ ~Accepting =>
              /\ b'.accepted = (b.accepted /\ b_req)
              /\ \/ /\ b'.active = b.active /\ b'.next = b.next /\ b'.remain = b.remain
                    /\ b'.issued = (IF Completing THEN 0 ELSE b.issued) /\ cap'[4].kind # "burst"
                 \/ /\ state = "BREAD" /\ b.active /\ b'.active /\ b'.next = (b.next + 1) % Size
                    /\ b'.remain = b.remain - 1 /\ b'.issued = b.issued + 1
                    /\ cap'[4] = [kind |-> "burst", n |-> b.issued] /\ command' = "READ" /\ pin_col' = Col(b.next)
                 \/ /\ state = "BEND" /\ wait_n = 0 /\ b.active /\ b'.active = (b.remain # 0) /\ b'.next = b.next
                    /\ b'.remain = b.remain /\ b'.issued = b.issued /\ cap'[4].kind # "burst"
                    /\ (b.remain = 0 => state' = "WAIT5")
<1>1. /\ b \in BurstType /\ b_addr \in Addr /\ b_len \in Nat /\ b.next \in Addr /\ b.remain \in Nat
      /\ b.active \in BOOLEAN /\ b.issued \in Nat /\ b.chunk \in Nat /\ b.gap \in 0 .. Gap - 1
  BY DEF TypeOK, BurstType
<1>2. Accepting => ~b.active
  BY DEF Accepting
<1>3. b_done' = Completing
  <2>1. \A n : Settle(n) => b_done' = Completing
    BY Zenon DEF Settle
  <2> QED BY <2>1, Zenon DEF Sequencer, Startup, IdleRefresh, IdleBurst, IdleSingle, IdleStay, Arb, Open2, Pass, Ref, BRead, BEnd
<1>4. ASSUME NEW n \in BurstType, Settle(n), n.active = b.active, n.next = b.next, n.remain = b.remain, n.issued = b.issued,
             n.accepted = b.accepted, cap'[4].kind # "burst"
      PROVE  /\ Accepting => /\ ~b.active /\ b'.active /\ b'.accepted /\ b'.next = b_addr /\ b'.remain = b_len
                             /\ b'.issued = 0 /\ cap'[4].kind # "burst"
             /\ ~Accepting =>
                  /\ b'.accepted = (b.accepted /\ b_req)
                  /\ b'.active = b.active /\ b'.next = b.next /\ b'.remain = b.remain
                  /\ b'.issued = (IF Completing THEN 0 ELSE b.issued) /\ cap'[4].kind # "burst"
  BY <1>1, <1>2, <1>4, Settled
<1>5. NoRead => cap'[4].kind # "burst"
  BY DEF NoRead, Place, NoTag
<1>6. CASE Startup \/ IdleRefresh \/ IdleStay \/ Arb \/ Open2 \/ Pass \/ Ref
  <2>1. Settle(b) /\ cap'[4].kind # "burst"
    BY <1>5, <1>6 DEF Startup, IdleRefresh, IdleStay, Arb, Open2, Pass, Ref, Quiet, Place
  <2> QED BY <1>1, <1>3, <1>4, <2>1
<1>7. CASE IdleBurst
  <2> DEFINE n == [b EXCEPT !.chunk = 0, !.gap = 0]
  <2>1. n \in BurstType /\ n.active = b.active /\ n.next = b.next /\ n.remain = b.remain /\ n.issued = b.issued /\ n.accepted = b.accepted
    <3>1. 0 \in 0 .. Gap - 1 /\ 0 \in Nat
      OBVIOUS
    <3> QED BY <1>1, <3>1, Zenon DEF BurstType
  <2>2. Settle(n) /\ cap'[4].kind # "burst"
    BY <1>5, <1>7 DEF IdleBurst, Quiet
  <2> HIDE DEF n
  <2> QED BY <1>3, <1>4, <2>1, <2>2
<1>8. CASE IdleSingle
  <2> DEFINE n == [b EXCEPT !.yield = FALSE]
  <2>1. n \in BurstType /\ n.active = b.active /\ n.next = b.next /\ n.remain = b.remain /\ n.issued = b.issued /\ n.accepted = b.accepted
    BY <1>1 DEF BurstType
  <2>2. Settle(n) /\ cap'[4].kind # "burst"
    BY <1>5, <1>8 DEF IdleSingle, Quiet
  <2> HIDE DEF n
  <2> QED BY <1>3, <1>4, <2>1, <2>2
<1>9. CASE BRead
  <2>1. b.active /\ b.remain # 0 /\ ~Accepting /\ state = "BREAD" /\ ~Completing
    BY <1>2, <1>9 DEF BRead, Bursting, InBurst, Completing
  <2>2. CASE b.gap = 0
    <3> DEFINE n == [b EXCEPT !.next = (@ + 1) % Size, !.issued = @ + 1, !.remain = @ - 1, !.chunk = @ + 1, !.gap = Gap - 1]
    <3>1. /\ n.active = b.active /\ n.next = (b.next + 1) % Size /\ n.remain = b.remain - 1 /\ n.issued = b.issued + 1
          /\ n.accepted = b.accepted /\ n \in BurstType
      <4>1. (b.next + 1) % Size \in Addr
        <5>1. b.next \in Nat
          BY <1>1, SizeType
        <5>2. b.next + 1 \in Nat
          BY ONLY <5>1
        <5> QED BY <5>2, NextInChip
      <4>2. b.remain - 1 \in Nat /\ b.issued + 1 \in Nat /\ b.chunk + 1 \in Nat /\ Gap - 1 \in 0 .. Gap - 1
        BY <1>1, <2>1
      <4> QED BY <1>1, <4>1, <4>2, Zenon DEF BurstType
    <3>2. Settle(n) /\ cap'[4] = [kind |-> "burst", n |-> b.issued] /\ command' = "READ" /\ pin_col' = Col(b.next)
      BY <1>9, <2>2 DEF BRead, Place, Pins
    <3> HIDE DEF n
    <3>3. /\ b'.active = n.active /\ b'.next = n.next /\ b'.remain = n.remain /\ b'.accepted = (n.accepted /\ b_req)
          /\ b'.issued = n.issued
      BY <1>1, <2>1, <3>1, <3>2, Settled
    <3> QED BY <1>3, <2>1, <3>1, <3>2, <3>3
  <2>3. CASE b.gap # 0
    <3> DEFINE n == [b EXCEPT !.gap = @ - 1]
    <3>1. n \in BurstType /\ n.active = b.active /\ n.next = b.next /\ n.remain = b.remain /\ n.issued = b.issued /\ n.accepted = b.accepted
      BY <1>1, <2>3 DEF BurstType
    <3>2. Settle(n) /\ cap'[4].kind # "burst"
      BY <1>5, <1>9, <2>3 DEF BRead
    <3> HIDE DEF n
    <3> QED BY <1>3, <1>4, <3>1, <3>2
  <2> QED BY <2>2, <2>3
<1>10. CASE BEnd
  <2>1. b.active /\ ~Accepting /\ state = "BEND" /\ ~Completing /\ cap'[4].kind # "burst"
    BY <1>2, <1>5, <1>10 DEF BEnd, Bursting, InBurst, Completing, Quiet
  <2>2. CASE wait_n = 0
    <3> DEFINE n == [b EXCEPT !.yield = TRUE, !.active = b.remain # 0]
    <3>1. /\ n \in BurstType /\ n.active = (b.remain # 0) /\ n.next = b.next /\ n.remain = b.remain /\ n.issued = b.issued
          /\ n.accepted = b.accepted
      BY <1>1 DEF BurstType
    <3>2. Settle(n) /\ (b.remain = 0 => state' = "WAIT5")
      BY <1>10, <2>2 DEF BEnd
    <3> HIDE DEF n
    <3>3. /\ b'.active = n.active /\ b'.next = n.next /\ b'.remain = n.remain /\ b'.accepted = (n.accepted /\ b_req)
          /\ b'.issued = n.issued
      BY <1>1, <2>1, <3>1, <3>2, Settled
    <3> QED BY <1>3, <2>1, <2>2, <3>1, <3>2, <3>3
  <2>3. CASE wait_n # 0
    <3>1. Settle(b)
      BY <1>10, <2>3 DEF BEnd
    <3> QED BY <1>1, <1>3, <1>4, <2>1, <3>1
  <2> QED BY <2>2, <2>3
<1> QED BY <1>6, <1>7, <1>8, <1>9, <1>10 DEF Sequencer

(* A clock moves every word one place on, and hands out the one that was   *)
(* in the last place.                                                      *)
LEMMA BeforeStep ==
  ASSUME Controlled, Next, b_req
  PROVE  /\ b_addr' = b_addr /\ b_len' = b_len /\ b_req' = (b_req /\ ~b_done) /\ got' = Delivered
         /\ b_wr' = (cap[0].kind = "burst")
         /\ \A k \in 0 .. 4 : Before(k)' = Before(k + 1)
         /\ Before(5)' = Before(5) + (IF cap'[4].kind = "burst" THEN 1 ELSE 0)
<1>1. Sequencer /\ BurstClient /\ Capture /\ TypeOK
  BY DEF Next, Controller, Sequencer, Controlled
<1>2. b_addr' = b_addr /\ b_len' = b_len /\ b_req' = (b_req /\ ~b_done)
  BY <1>1, Zenon DEF BurstClient
<1>3. got' = Delivered /\ got \in Nat
  BY <1>1 DEF BurstClient, Delivered, TypeOK
<1>4. b_wr' = (cap[0].kind = "burst")
  BY <1>1, Zenon DEF Capture
<1>5. cap'[0] = cap[1] /\ cap'[1] = cap[2] /\ cap'[2] = cap[3] /\ cap'[3] = cap[4]
  <2>1. \A k \in 0 .. 3 : cap'[k] = cap[k + 1]
    BY <1>1, CapStep
  <2> QED BY <2>1
<1>6. Delivered' = Delivered + One(0) /\ Delivered \in Nat
  <2>1. Delivered \in Nat /\ Delivered' = Delivered + (IF b_wr' THEN 1 ELSE 0)
    BY <1>3 DEF Delivered
  <2>2. b_wr' <=> cap[0].kind = "burst"
    BY <1>4
  <2>3. (IF b_wr' THEN 1 ELSE 0) = One(0)
    BY <2>2 DEF One
  <2> HIDE DEF Delivered, One
  <2> QED BY <2>1, <2>3
<1>7. One(0)' = One(1) /\ One(1)' = One(2) /\ One(2)' = One(3) /\ One(3)' = One(4)
  BY <1>5 DEF One
<1>8. One(4)' = IF cap'[4].kind = "burst" THEN 1 ELSE 0
  BY DEF One
<1>9. \A k \in 0 .. 4 : One(k) \in {0, 1} /\ One(k)' \in {0, 1}
  BY DEF One
<1> HIDE DEF One, Delivered
<1>10. ASSUME NEW k \in 0 .. 4 PROVE Before(k)' = Before(k + 1)
  <2>1. k = 0 \/ k = 1 \/ k = 2 \/ k = 3 \/ k = 4
    OBVIOUS
  <2> QED BY <2>1, <1>6, <1>7, <1>9 DEF Before
<1>11. Before(5)' = Before(5) + (IF cap'[4].kind = "burst" THEN 1 ELSE 0)
  BY <1>6, <1>7, <1>8, <1>9 DEF Before
<1> QED BY <1>2, <1>3, <1>4, <1>10, <1>11

LEMMA BeforeType ==
  ASSUME TypeOK
  PROVE  /\ Delivered \in Nat /\ \A k \in 0 .. 5 : Before(k) \in Nat
         /\ Before(0) = Delivered /\ Delivered <= Before(5) /\ got <= Delivered
         /\ AllDrained => Before(5) = Delivered
<1>1. \A k \in 0 .. 4 : One(k) \in {0, 1}
  BY DEF One
<1>2. Delivered \in Nat /\ got <= Delivered
  BY DEF Delivered, TypeOK
<1>3. AllDrained => \A k \in 0 .. 4 : One(k) = 0
  BY DEF One, AllDrained
<1> HIDE DEF One, Delivered
<1>4. \A k \in 0 .. 5 : Before(k) \in Nat
  BY <1>1, <1>2 DEF Before
<1> QED BY <1>1, <1>2, <1>3, <1>4 DEF Before

LEMMA CourseStep ==
  ASSUME Controlled, Reading, OnCourse, ~Completing, Next
  PROVE  OnCourse'
<1>1. Sequencer /\ BurstClient /\ Capture /\ Chip /\ TypeOK /\ Sequenced /\ Bursting
  BY DEF Next, Controller, Sequencer, Controlled
<1>2. b_req /\ b.accepted /\ ~b_done /\ ~Accepting
  BY DEF OnCourse, Accepting
<1>3. b_addr' = b_addr /\ b_len' = b_len /\ b_req' /\ got' = Delivered /\ b_wr' = (cap[0].kind = "burst")
  BY <1>2, BeforeStep
<1>4. \A k \in 0 .. 4 : Before(k)' = Before(k + 1)
  BY <1>2, BeforeStep
<1>5. Before(5)' = Before(5) + (IF cap'[4].kind = "burst" THEN 1 ELSE 0)
  BY <1>2, BeforeStep
<1>6. b_addr \in Nat /\ b.issued \in Nat /\ b.remain \in Nat /\ b.next \in Addr /\ b_len \in Nat
  BY <1>1, SizeType DEF TypeOK
<1>7. b'.accepted /\ ~b_done'
  <2>1. b'.accepted = (b.accepted /\ b_req) /\ b_done' = Completing
    BY <1>1, <1>2, ContextStep
  <2> QED BY <1>2, <2>1, Zenon
<1>8. /\ b'.issued + b'.remain = b_len /\ b'.next = (b_addr + b'.issued) % Size /\ b'.issued = Before(5)'
      /\ cap'[4].kind = "burst" => cap'[4].n = Before(5) /\ Word' = (b_addr + Before(5)) % Size
  <2>1. CASE /\ b'.next = b.next /\ b'.remain = b.remain
             /\ b'.issued = b.issued /\ cap'[4].kind # "burst"
    <3> HIDE DEF Before
    <3> QED BY <2>1, <1>5, <1>6 DEF OnCourse
  <2>2. CASE /\ state = "BREAD" /\ b.active /\ b'.active /\ b'.next = (b.next + 1) % Size
             /\ b'.remain = b.remain - 1 /\ b'.issued = b.issued + 1
             /\ cap'[4] = [kind |-> "burst", n |-> b.issued] /\ command' = "READ" /\ pin_col' = Col(b.next)
    <3>1. b'.issued + b'.remain = b_len
      BY <2>2, <1>6 DEF OnCourse
    <3>2. b'.next = (b_addr + b'.issued) % Size
      <4>1. b_addr + b.issued \in Nat /\ (b_addr + b.issued) + 1 = b_addr + (b.issued + 1)
        BY <1>6
      <4>2. (((b_addr + b.issued) % Size) + 1) % Size = ((b_addr + b.issued) + 1) % Size
        BY <4>1, SizeType, ModularStep
      <4>3. b.next = (b_addr + b.issued) % Size
        BY DEF OnCourse
      <4> QED BY <2>2, <4>1, <4>2, <4>3
    <3>3. b'.issued = Before(5)'
      <4>1. b.issued = Before(5)
        BY DEF OnCourse
      <4> HIDE DEF Before
      <4> QED BY <2>2, <4>1, <1>5
    <3>4. open' = Row(b.next)
      BY <1>1, <2>2, ChipStep DEF Sequenced, Opened, Bursting
    <3>5. Word' = b.next
      BY <2>2, <3>4, <1>6, RowCol DEF Word
    <3> QED BY <2>2, <3>1, <3>2, <3>3, <3>5 DEF OnCourse
  <2>3. CASE state = "BEND" /\ b'.next = b.next /\ b'.remain = b.remain /\ b'.issued = b.issued /\ cap'[4].kind # "burst"
    BY <2>1, <2>3
  <2> QED BY <1>1, <1>2, <2>1, <2>2, <2>3, ContextStep
<1>9. ASSUME NEW k \in 0 .. 4, cap'[k].kind = "burst"
      PROVE  cap'[k].n = Before(k)' /\ Data(k)' = (b_addr + cap'[k].n) % Size
  <2>1. CASE k = 4
    <3>1. Before(4)' = Before(5) /\ Data(4)' = Word'
      BY <1>4 DEF Data
    <3> QED BY <1>8, <1>9, <2>1, <3>1
  <2>2. CASE k # 4
    <3>1. k \in 0 .. 3 /\ k + 1 \in 0 .. 4
      BY <2>2
    <3>2. cap'[k] = cap[k + 1] /\ Data(k)' = Data(k + 1)
      BY <1>9, <3>1, DataStep
    <3>3. cap[k + 1].n = Before(k + 1) /\ Data(k + 1) = (b_addr + cap[k + 1].n) % Size
      BY <1>9, <3>1, <3>2 DEF OnCourse
    <3> HIDE DEF Data, Before
    <3> QED BY <1>4, <3>1, <3>2, <3>3
  <2> QED BY <2>1, <2>2
<1>10. b_wr' => b_idx' = got' /\ b_data' = (b_addr + got') % Size
  <2> SUFFICES ASSUME b_wr' PROVE b_idx' = got' /\ b_data' = (b_addr + got') % Size
    OBVIOUS
  <2>1. cap[0].kind = "burst"
    BY <1>3
  <2>2. b_idx' = cap[0].n /\ b_data' = dq_in
    BY <1>1 DEF Capture
  <2>3. cap[0].n = Before(0) /\ dq_in = (b_addr + cap[0].n) % Size
    BY <2>1 DEF OnCourse, Data
  <2>4. Before(0) = Delivered
    BY <1>1, BeforeType
  <2> QED BY <1>3, <2>2, <2>3, <2>4
<1> HIDE DEF Before, Data
<1>11. /\ b'.issued + b'.remain = b_len' /\ b'.next = (b_addr' + b'.issued) % Size
  BY <1>3, <1>8
<1>12. \A k \in 0 .. 4 : cap'[k].kind = "burst" => cap'[k].n = Before(k)' /\ Data(k)' = (b_addr' + cap'[k].n) % Size
  BY <1>3, <1>9
<1>13. b_wr' => b_idx' = got' /\ b_data' = (b_addr' + got') % Size
  BY <1>3, <1>10
<1> QED BY <1>3, <1>7, <1>8, <1>11, <1>12, <1>13 DEF OnCourse

LEMMA PhaseStep ==
  ASSUME Controlled, Reading, Phase, JustRead, Next
  PROVE  Phase'
<1>1. Sequencer /\ BurstClient /\ Capture /\ TypeOK /\ Sequenced /\ Bursting
  BY DEF Next, Controller, Sequencer, Controlled
<1>2. \A k \in 0 .. 3 : cap'[k] = cap[k + 1]
  BY <1>1, CapStep
<1>3. b_wr' = (cap[0].kind = "burst")
  BY <1>1, Zenon DEF Capture
<1>4. ~b.active => ~InBurst
  BY <1>1 DEF Bursting
<1>5. AllDrained /\ cap'[4].kind # "burst" => AllHeard'
  <2>1. ASSUME AllDrained, cap'[4].kind # "burst", NEW k \in 0 .. 4 PROVE cap'[k].kind # "burst"
    <3>1. k = 4 \/ (k \in 0 .. 3 /\ k + 1 \in 0 .. 4)
      OBVIOUS
    <3> QED BY <1>2, <2>1, <3>1 DEF AllDrained
  <2>2. AllDrained => ~b_wr'
    <3>1. 0 \in 0 .. 4
      OBVIOUS
    <3> QED BY <1>3, <3>1, Zenon DEF AllDrained
  <2> QED BY <2>1, <2>2, Zenon DEF AllDrained, AllHeard
<1>6. b.active \in BOOLEAN /\ b.remain \in Nat /\ b.issued \in Nat /\ b_len \in Nat /\ b_addr \in Addr /\ got \in Nat
  BY <1>1 DEF TypeOK
<1>10. CASE NoBurst
  <2>1. ~Accepting /\ ~Completing /\ ~InBurst /\ AllDrained
    BY <1>4, <1>10 DEF NoBurst, Accepting, Completing, AllHeard
  <2>2. ~b'.active /\ b'.issued = 0 /\ ~b_done' /\ cap'[4].kind # "burst" /\ ~b'.accepted
    <3>1. b_done' = Completing /\ b'.accepted = (b.accepted /\ b_req)
      BY <1>1, <2>1, ContextStep
    <3>2. ~b'.active /\ b'.issued = 0 /\ cap'[4].kind # "burst"
      BY <1>1, <1>10, <2>1, ContextStep DEF NoBurst, InBurst
    <3> QED BY <1>10, <2>1, <3>1, <3>2, Zenon DEF NoBurst
  <2>3. AllHeard'
    BY <1>5, <2>1, <2>2
  <2>4. b_req' => got' = 0
    BY <1>1, <1>10 DEF BurstClient, NoBurst
  <2> QED BY <2>2, <2>3, <2>4 DEF Phase, NoBurst, BurstAsked
<1>11. CASE BurstAsked
  <2>1. Accepting /\ ~Completing /\ b_req /\ ~b_done /\ AllDrained /\ ~b_wr /\ got = 0
    BY <1>11 DEF BurstAsked, Accepting, Completing, AllHeard
  <2>2. /\ b'.active /\ b'.accepted /\ b'.next = b_addr /\ b'.remain = b_len /\ b'.issued = 0 /\ ~b_done' /\ cap'[4].kind # "burst"
    BY <1>1, <2>1, ContextStep
  <2>3. AllHeard'
    BY <1>5, <2>1, <2>2
  <2>4. b_addr' = b_addr /\ b_len' = b_len /\ b_req'
    BY <2>1, BeforeStep
  <2>5. Before(5)' = 0
    <3>1. Before(5) = Delivered /\ Delivered = 0
      BY <1>1, <2>1, BeforeType DEF Delivered
    <3>2. Before(5)' = Before(5)
      <4>1. Before(5)' = Before(5) + (IF cap'[4].kind = "burst" THEN 1 ELSE 0)
        BY <2>1, BeforeStep
      <4>2. Before(5) = 0
        BY <3>1
      <4> HIDE DEF Before
      <4> QED BY <2>2, <4>1, <4>2
    <3> QED BY <3>1, <3>2
  <2>6. b_addr % Size = b_addr /\ b_addr + 0 = b_addr /\ 0 + b_len = b_len
    BY <1>6, SizeType DEF Addr
  <2>7. \A k \in 0 .. 4 : cap'[k].kind # "burst"
    BY <2>3 DEF AllHeard, AllDrained
  <2> HIDE DEF Before
  <2> QED BY <2>2, <2>3, <2>4, <2>5, <2>6, <2>7 DEF Phase, BurstReading, OnCourse, AllHeard
<1>12. CASE BurstReading
  <2>1. ~Accepting /\ ~Completing /\ b.active /\ OnCourse
    BY <1>12 DEF BurstReading, Accepting, Completing
  <2>2. OnCourse'
    BY <2>1, CourseStep
  <2>3. CASE b'.active
    BY <2>2, <2>3 DEF Phase, BurstReading
  <2>4. CASE ~b'.active
    <3>1. /\ state = "BEND" /\ wait_n = 0 /\ b.remain = 0 /\ b'.remain = 0 /\ state' = "WAIT5" /\ cap'[4].kind # "burst"
      BY <1>1, <2>1, <2>4, ContextStep
    <3>2. Drained(2)'
      BY <1>2, <3>1 DEF Drained, JustRead
    <3> QED BY <2>2, <2>4, <3>1, <3>2 DEF Phase, BurstEnding
  <2> QED BY <2>3, <2>4
<1>13. CASE BurstEnding
  <2>1. ~Accepting /\ ~b.active /\ b.remain = 0 /\ OnCourse /\ ~InBurst
    BY <1>4, <1>13 DEF BurstEnding, OnCourse, Accepting
  <2>2. ~b'.active /\ b'.remain = 0 /\ cap'[4].kind # "burst" /\ b_done' = Completing /\ b'.accepted
        /\ b'.issued = (IF Completing THEN 0 ELSE b.issued)
    BY <1>1, <2>1, ContextStep DEF InBurst, OnCourse
  <2>3. state \in {"WAIT5", "WAIT4", "WAIT3", "WAIT2", "WAIT1"} /\ state' = Following(state)
    BY <1>1, <1>13, CurKept DEF BurstEnding
  <2>4. CASE state # "WAIT1"
    <3>1. OnCourse'
      BY <2>1, <2>4, CourseStep DEF Completing
    <3>2. \/ state' = "WAIT4" /\ Drained(1)'
          \/ state' = "WAIT3" /\ Drained(0)'
          \/ state' = "WAIT2" /\ AllDrained'
          \/ state' = "WAIT1" /\ AllHeard'
      <4>1. CASE state = "WAIT5"
        BY <1>2, <1>13, <2>2, <2>3, <4>1 DEF BurstEnding, Drained, Following
      <4>2. CASE state = "WAIT4"
        BY <1>2, <1>13, <2>2, <2>3, <4>2 DEF BurstEnding, Drained, Following
      <4>3. CASE state = "WAIT3"
        BY <1>2, <1>13, <2>2, <2>3, <4>3 DEF BurstEnding, Drained, AllDrained, Following
      <4>4. CASE state = "WAIT2"
        BY <1>5, <1>13, <2>2, <2>3, <4>4 DEF BurstEnding, Following
      <4> QED BY <2>3, <2>4, <4>1, <4>2, <4>3, <4>4
    <3> QED BY <2>2, <3>1, <3>2 DEF Phase, BurstEnding
  <2>5. CASE state = "WAIT1"
    <3>1. AllHeard /\ AllDrained /\ ~b_wr /\ b_req /\ ~b_done
      BY <1>13, <2>5 DEF BurstEnding, AllHeard, OnCourse
    <3>2. b.issued = b_len /\ b_len # 0
      BY <1>1, <1>6, <2>1, <3>1 DEF OnCourse, Bursting
    <3>3. Completing
      BY <2>1, <2>5, <3>1, <3>2 DEF Completing
    <3>4. b_req' /\ b_len' = b_len /\ got' = Delivered
      BY <3>1, BeforeStep
    <3>5. Delivered = b_len
      <4>1. Before(5) = Delivered
        BY <1>1, <3>1, BeforeType
      <4>2. b.issued = Before(5)
        BY <2>1 DEF OnCourse
      <4> QED BY <3>2, <4>1, <4>2
    <3>6. AllHeard'
      BY <1>5, <2>2, <3>1
    <3> QED BY <2>2, <3>3, <3>4, <3>5, <3>6 DEF Phase, BurstDone
  <2> QED BY <2>4, <2>5
<1>14. CASE BurstDone
  <2>1. ~Accepting /\ ~Completing /\ ~InBurst /\ AllDrained /\ b_req /\ b_done
    BY <1>4, <1>14 DEF BurstDone, Accepting, Completing, AllHeard
  <2>2. ~b'.active /\ b'.issued = 0 /\ ~b_done' /\ cap'[4].kind # "burst"
    BY <1>1, <1>14, <2>1, ContextStep DEF BurstDone, InBurst
  <2>3. AllHeard'
    BY <1>5, <2>1, <2>2
  <2>4. ~b_req'
    BY <2>1, BeforeStep
  <2> QED BY <2>2, <2>3, <2>4 DEF Phase, NoBurst
<1> QED BY <1>10, <1>11, <1>12, <1>13, <1>14 DEF Phase

LEMMA BurstInOrderFollows == Controlled /\ Phase => BurstInOrder
<1> SUFFICES ASSUME Controlled, Phase PROVE BurstInOrder
  OBVIOUS
<1>1. CASE OnCourse
  <2>1. got \in Nat /\ b_len \in Nat /\ b.issued \in Nat /\ b.remain \in Nat /\ TypeOK
    BY DEF Controlled, TypeOK
  <2>2. Delivered <= Before(5) /\ Delivered \in Nat /\ Before(5) = b.issued
    BY <1>1, <2>1, BeforeType DEF OnCourse
  <2>3. b_wr => Delivered = got + 1
    BY DEF Delivered
  <2>4. b_wr => got < b_len
    <3> HIDE DEF Delivered, Before
    <3> QED BY <1>1, <2>1, <2>2, <2>3 DEF OnCourse
  <2> QED BY <1>1, <2>4 DEF OnCourse, BurstInOrder
<1>2. CASE NoBurst \/ BurstAsked \/ BurstDone
  BY <1>2 DEF NoBurst, BurstAsked, BurstDone, AllHeard, BurstInOrder
<1> QED BY <1>1, <1>2 DEF Phase, BurstReading, BurstEnding

(* A burst of any length delivers its words in order and once each, and is *)
(* done when all are out, wherever rows and chunks end and whatever the    *)
(* sequencer does between them.                                            *)
THEOREM BurstInOrderCorrect == Spec => []BurstInOrder
<1>1. Init => Reading /\ Phase /\ JustRead
  <2>1. Init => NoBurst
    BY DEF Init, NoBurst, AllHeard, AllDrained, NoTag
  <2>2. Init => Reading /\ JustRead
    BY DEF Init, Reading, JustRead, NoTag
  <2> QED BY <2>1, <2>2 DEF Phase
<1>2. ASSUME Controlled, Reading, Phase, JustRead, [Next]_vars PROVE Reading' /\ Phase' /\ JustRead'
  <2>1. CASE Next
    <3>1. TypeOK /\ Sequencer
      BY <1>2, <2>1 DEF Next, Controller, Sequencer, Controlled
    <3> QED BY <1>2, <2>1, <3>1, ReadingStep, JustReadStep, PhaseStep
  <2>2. CASE UNCHANGED vars
    <3>1. Reading' /\ JustRead'
      BY <1>2, <2>2 DEF vars, pins, Reading, JustRead
    <3>2. OnCourse' <=> OnCourse
      BY <2>2 DEF vars, pins, answers, burst_client, OnCourse, Before, Delivered, One, Data, Word
    <3>3. Phase'
      BY <1>2, <2>2, <3>2 DEF vars, answers, burst_client, Phase, NoBurst, BurstAsked, BurstReading, BurstEnding, BurstDone,
                              AllHeard, AllDrained, Drained
    <3> QED BY <3>1, <3>3
  <2> QED BY <1>2, <2>1, <2>2
<1> QED BY <1>1, <1>2, AlwaysControlled, BurstInOrderFollows, PTL DEF Spec

-----------------------------------------------------------------------------
(* The turns.  A client waits when its request stands and is not the one   *)
(* being served.                                                           *)
InService(i) == cur = i /\ (state \in {"ARB", "OPEN1", "OPEN2"} \/ \E k \in 0 .. 4 : cap[k].kind = "single")
Waiting == {i \in Pending : ~InService(i)}

Extra == IF b.yield \/ InBurst THEN 1 ELSE 0
Ahead == IF state = "ARB" THEN 8 ELSE IF state = "OPEN1" THEN 7 ELSE IF state = "OPEN2" THEN 6 ELSE LongestStay - Stay

(* Nobody has lost a turn while no request has been noticed, nor before    *)
(* the first one; and none has been noticed when a burst is started whose  *)
(* last chunk was not followed by a single access.                         *)
NoneLost     == \A i \in Client : waited[i].singles = 0 /\ waited[i].chunks = 0
Unnoticed    == ~any_req_q \/ state = "STARTUP" => NoneLost
StartedFresh == state = "IDLE" /\ b_start /\ b.yield => NoneLost

(* The clients before i in the round, and those that have gone before it,  *)
(* are all the others.                                                     *)
InRound == \A i \in Waiting : waited[i].singles + Distance(i) <= NCLI - 1

(* Chunks and single accesses take turns.  A refresh between a chunk and   *)
(* the single access it should yield to lets one more chunk go first; but  *)
(* then it has just been, and what the client has lost since tells how     *)
(* long ago.                                                               *)
InTurn(i) == waited[i].chunks <= waited[i].singles + Extra
Refreshed(i) ==
  /\ waited[i].chunks > 0 /\ waited[i].chunks <= waited[i].singles + Extra + 1
  /\ refresh_count + Ahead <= 7 + 9 * waited[i].singles + (waited[i].chunks - 1) * LongestStay
Turned       == \A i \in Waiting : InTurn(i) \/ Refreshed(i)
AfterRefresh == state = "REF" => \A i \in Waiting : waited[i].chunks <= waited[i].singles + 1

(* A chunk's yield stands until a single access has been let in, or the    *)
(* next burst is accepted.                                                 *)
YieldKept == b.yield => state \in {"IDLE", "REF"} \/ b.active \/ BurstEnding

Overtaking == Unnoticed /\ StartedFresh /\ InRound /\ Turned /\ AfterRefresh /\ YieldKept /\ BoundedOvertaking

LEMMA YieldStep ==
  ASSUME TypeOK, Bursting, Sequencer
  PROVE  /\ Accepting \/ state' = "ARB" => ~b'.yield
         /\ state = "BEND" /\ wait_n = 0 => b'.yield
         /\ ~Accepting /\ state' # "ARB" /\ ~(state = "BEND" /\ wait_n = 0) => b'.yield = b.yield
<1>1. b \in BurstType /\ b_addr \in Addr /\ b_len \in Nat /\ b.yield \in BOOLEAN
  BY DEF TypeOK, BurstType
<1>2. Accepting => ~b.active
  BY DEF Accepting
<1>5. CASE Startup \/ IdleRefresh \/ IdleStay \/ Arb \/ Open2 \/ Pass \/ Ref
  <2>1. Settle(b) /\ state' # "ARB" /\ state # "BEND"
    BY <1>5 DEF Startup, IdleRefresh, IdleStay, Arb, Open2, Pass, Following, Ref
  <2> QED BY <1>1, <2>1 DEF Settle, BurstType
<1>6. CASE IdleBurst
  <2>1. Settle([b EXCEPT !.chunk = 0, !.gap = 0]) /\ state' # "ARB" /\ state # "BEND"
    BY <1>6 DEF IdleBurst
  <2> QED BY <1>1, <2>1 DEF Settle, BurstType
<1>7. CASE IdleSingle
  <2>1. Settle([b EXCEPT !.yield = FALSE]) /\ state' = "ARB" /\ state # "BEND"
    BY <1>7 DEF IdleSingle
  <2> QED BY <1>1, <2>1 DEF Settle, BurstType
<1>8. CASE BRead
  <2>1. ~Accepting /\ state' # "ARB" /\ state # "BEND"
    BY <1>2, <1>8 DEF BRead, Bursting, InBurst
  <2>2. b'.yield = b.yield
    BY <1>1, <1>8, <2>1 DEF BRead, Settle, BurstType
  <2> QED BY <2>1, <2>2
<1>9. CASE BEnd
  <2>1. ~Accepting /\ state' # "ARB"
    BY <1>2, <1>9 DEF BEnd, Bursting, InBurst
  <2>2. CASE wait_n = 0
    BY <1>1, <1>9, <2>1, <2>2 DEF BEnd, Settle, BurstType
  <2>3. CASE wait_n # 0
    BY <1>1, <1>9, <2>1, <2>3 DEF BEnd, Settle, BurstType
  <2> QED BY <2>2, <2>3
<1> QED BY <1>5, <1>6, <1>7, <1>8, <1>9 DEF Sequencer

LEMMA YieldKeptStep ==
  ASSUME Controlled, Reading, Phase, JustRead, YieldKept, Next
  PROVE  YieldKept'
<1> SUFFICES ASSUME b'.yield PROVE state' \in {"IDLE", "REF"} \/ b'.active \/ BurstEnding'
  BY DEF YieldKept
<1>1. Sequencer /\ TypeOK /\ Bursting /\ Phase'
  BY PhaseStep DEF Next, Controller, Sequencer, Controlled
<1>2. ~Accepting /\ state' # "ARB"
  BY <1>1, YieldStep
<1>3. ASSUME OnCourse, ~Completing PROVE b'.active \/ BurstEnding'
  <2>1. OnCourse'
    BY <1>3, CourseStep
  <2> QED BY <1>1, <2>1 DEF Phase, NoBurst, BurstAsked, BurstReading, BurstDone, OnCourse
<1>4. CASE b.active
  <2>1. OnCourse /\ ~Completing
    BY <1>1, <1>4 DEF Completing, Controlled, Phase, NoBurst, BurstAsked, BurstReading, BurstEnding, BurstDone
  <2> QED BY <1>3, <2>1
<1>5. CASE BurstEnding
  <2>1. CASE state = "WAIT1"
    BY <1>1, <2>1, CurKept DEF Following
  <2>2. CASE state # "WAIT1"
    BY <1>3, <1>5, <2>2 DEF BurstEnding, Completing
  <2> QED BY <2>1, <2>2
<1>6. CASE state \in {"IDLE", "REF"} /\ ~b.active
  <2>1. state' \in {"IDLE", "REF"}
    BY <1>1, <1>2, <1>6 DEF Sequencer, Startup, IdleRefresh, IdleBurst, IdleSingle, IdleStay, Arb, Open2, Pass, Ref, BRead, BEnd
  <2> QED BY <2>1
<1>7. CASE ~b.active
  <2>1. state # "BEND"
    BY <1>1, <1>7 DEF Bursting, InBurst
  <2>2. b'.yield = b.yield
    BY <1>1, <1>2, <2>1, YieldStep
  <2>3. b.yield
    BY <2>2, Zenon
  <2> QED BY <1>5, <1>6, <1>7, <2>3 DEF YieldKept
<1> QED BY <1>4, <1>7

LEMMA TurnsStep ==
  ASSUME TypeOK, BoundedOvertaking, Turns, NEW i \in Client
  PROVE  /\ waited[i].singles \in Nat /\ waited[i].chunks \in Nat
         /\ waited'[i].singles \in Nat /\ waited'[i].chunks \in Nat
         /\ i \notin Pending => waited'[i].singles = 0 /\ waited'[i].chunks = 0
         /\ i \in Pending =>
              \/ /\ state = "IDLE" /\ state' = "BOPEN1"
                 /\ waited'[i].singles = waited[i].singles /\ waited'[i].chunks = waited[i].chunks + 1
              \/ /\ state = "IDLE" /\ state' = "ARB" /\ i # cur'
                 /\ waited'[i].singles = waited[i].singles + 1 /\ waited'[i].chunks = waited[i].chunks
              \/ /\ ~(state = "IDLE" /\ state' = "BOPEN1") /\ ~(state = "IDLE" /\ state' = "ARB" /\ i # cur')
                 /\ waited'[i].singles = waited[i].singles /\ waited'[i].chunks = waited[i].chunks
<1>1. waited[i] \in [singles : 0 .. Patience, chunks : 0 .. Patience]
  BY DEF TypeOK
<1>2. /\ waited[i].singles \in Nat /\ waited[i].chunks \in Nat
      /\ waited[i].singles < Patience /\ waited[i].chunks < Patience
  BY <1>1 DEF BoundedOvertaking, Patience
<1>3. waited'[i] = IF i \notin Pending THEN [singles |-> 0, chunks |-> 0]
                   ELSE IF state = "IDLE" /\ state' = "BOPEN1" THEN [waited[i] EXCEPT !.chunks = IF @ < Patience THEN @ + 1 ELSE @]
                   ELSE IF state = "IDLE" /\ state' = "ARB" /\ i # cur' THEN [waited[i] EXCEPT !.singles = IF @ < Patience THEN @ + 1 ELSE @]
                   ELSE waited[i]
  BY DEF Turns
<1> QED BY <1>1, <1>2, <1>3

(* A client comes to wait as it asks, never as its service ends.           *)
LEMMA WaitingFrom ==
  ASSUME Controlled, Reading, Singles, Next, NEW i \in Client, i \in Pending, i \in Waiting'
  PROVE  i \in Waiting
<1>1. Sequencer /\ Clients /\ TypeOK
  BY DEF Next, Controller, Sequencer, Controlled
<1>2. c_req[i] /\ ~c_ack[i] /\ c_req'[i] /\ ~c_ack'[i] /\ ~InService(i)'
  BY DEF Pending, Waiting
<1> SUFFICES ASSUME InService(i) PROVE FALSE
  BY DEF Waiting
<1>3. cur = i
  BY DEF InService
<1>4. CASE state \in {"ARB", "OPEN1"}
  <2>1. cur' = cur /\ state' \in {"OPEN1", "OPEN2"}
    BY <1>1, <1>4, CurKept DEF Sequencer, Startup, IdleRefresh, IdleBurst, IdleSingle, IdleStay, Arb, Open2, Pass, Following, Ref, BRead, BEnd
  <2> QED BY <1>2, <1>3, <2>1 DEF InService
<1>5. CASE state = "OPEN2"
  <2>1. Open2 /\ cur' = cur
    BY <1>1, <1>5, CurKept DEF Sequencer, Startup, IdleRefresh, IdleBurst, IdleSingle, IdleStay, Arb, Pass, Ref, BRead, BEnd
  <2>2. CASE cur \in Writers
    BY <1>2, <1>3, <2>1, <2>2 DEF Open2
  <2>3. CASE cur \notin Writers
    <3>1. cap'[4].kind = "single"
      BY <2>1, <2>3 DEF Open2, Place
    <3> QED BY <1>2, <1>3, <2>1, <3>1 DEF InService
  <2> QED BY <2>2, <2>3
<1>6. ASSUME NEW k \in 0 .. 4, cap[k].kind = "single" PROVE FALSE
  <2>1. cap[k].n = cur /\ Awaited(k)
    BY <1>6 DEF Singles, Tagged
  <2>2. cur' = cur
    BY <1>1, <2>1, CurKept DEF Awaited
  <2>3. CASE k = 0
    <3>1. cap[0] = [kind |-> "single", n |-> i]
      BY <1>1, <1>3, <1>6, <2>1, <2>3 DEF TypeOK, Tags
    <3>2. Pass
      BY <1>1, <2>1, <2>3 DEF Awaited, Sequencer, Startup, IdleRefresh, IdleBurst, IdleSingle, IdleStay, Arb, Open2, Ref, BRead, BEnd
    <3> QED BY <1>2, <3>1, <3>2 DEF Pass, Quiet, ReadAcks, Captured
  <2>4. CASE k # 0
    <3>1. k - 1 \in 0 .. 3 /\ (k - 1) + 1 = k /\ k - 1 \in 0 .. 4
      BY <2>4
    <3>2. cap'[k - 1] = cap[k]
      BY <1>1, <3>1, CapStep
    <3> QED BY <1>2, <1>3, <1>6, <2>2, <3>1, <3>2 DEF InService
  <2> QED BY <2>3, <2>4
<1> QED BY <1>4, <1>5, <1>6 DEF InService

LEMMA LastKept ==
  ASSUME Sequencer
  PROVE  IF state = "IDLE" /\ state' = "ARB" THEN cur' = pick /\ last' = pick /\ any_req ELSE last' = last
<1> USE DEF single
<1>1. CASE IdleSingle
  BY <1>1 DEF IdleSingle
<1>2. CASE Startup \/ IdleRefresh \/ IdleBurst \/ IdleStay \/ Arb \/ Open2 \/ Pass \/ Ref \/ BRead \/ BEnd
  BY <1>2 DEF Startup, IdleRefresh, IdleBurst, IdleStay, Arb, Open2, Pass, Following, Ref, BRead, BEnd
<1> QED BY <1>1, <1>2 DEF Sequencer

(* The round robin picks the first in the round, so everybody else who     *)
(* waits comes at least one place nearer.                                  *)
LEMMA Nearer ==
  ASSUME last \in Client, any_req, last' = pick, NEW i \in Pending, i # pick
  PROVE  /\ Distance(i)' \in 0 .. NCLI - 1 /\ Distance(i) \in 0 .. NCLI - 1
         /\ Distance(i)' + 1 <= Distance(i)
<1>1. pick \in Client /\ i \in Client /\ Distance(pick) <= Distance(i)
  BY PickPending DEF Pending
<1>2. \A j \in Client : Distance(j) = (IF j > last THEN j - last - 1 ELSE j + NCLI - last - 1) /\ Distance(j) \in 0 .. NCLI - 1
  BY DistanceType
<1>3. Distance(i)' = (i + NCLI - pick - 1) % NCLI
  BY DEF Distance
<1>4. Distance(i)' = IF i > pick THEN i - pick - 1 ELSE i + NCLI - pick - 1
  BY <1>1, <1>3 DEF Client
<1>5. Distance(i) = (IF i > last THEN i - last - 1 ELSE i + NCLI - last - 1) /\ Distance(i) \in 0 .. NCLI - 1
  BY <1>1, <1>2
<1>6. Distance(pick) = (IF pick > last THEN pick - last - 1 ELSE pick + NCLI - last - 1)
  BY <1>1, <1>2
<1> HIDE DEF Distance
<1> DEFINE p == pick
<1>7. p \in 0 .. NCLI - 1 /\ i \in 0 .. NCLI - 1 /\ last \in 0 .. NCLI - 1 /\ i # p
  BY <1>1 DEF Client
<1> HIDE DEF p
<1> QED BY <1>1, <1>4, <1>5, <1>6, <1>7 DEF p

(* Outside S_IDLE and the refresh, what a client may still have to wait    *)
(* through goes down with every clock.                                     *)
LEMMA AheadStep ==
  ASSUME Controlled, Sequencer, state \notin {"STARTUP", "IDLE", "REF"}
  PROVE  /\ refresh_count' = refresh_count + 1 /\ Ahead \in Int /\ Ahead' \in Int /\ Ahead' + 1 <= Ahead
         /\ state' \notin {"REF", "ARB"}
<1>1. Count /\ Stay \in Int /\ Stay' \in Int /\ Stay + 1 <= Stay' /\ state' # "REF"
  BY StayStep
<1>2. LongestStay \in Nat /\ LongestStay' = LongestStay
  BY DEF LongestStay
<1>3. state' # "ARB" /\ (state' = "OPEN1" => state = "ARB") /\ (state' = "OPEN2" => state = "OPEN1")
      /\ (state = "ARB" => state' = "OPEN1") /\ (state = "OPEN1" => state' = "OPEN2")
      /\ (state = "OPEN2" => state' \in {"WAIT5", "WAIT3"})
  BY DEF Sequencer, Startup, IdleRefresh, IdleBurst, IdleSingle, IdleStay, Arb, Open2, Pass, Following, Ref, BRead, BEnd
<1>4. CASE state \in {"ARB", "OPEN1"}
  BY <1>1, <1>3, <1>4 DEF Ahead, Count
<1>5. CASE state = "OPEN2"
  BY <1>1, <1>2, <1>3, <1>5 DEF Ahead, Stay, Count
<1>6. CASE state \notin {"ARB", "OPEN1", "OPEN2"}
  <2>1. Ahead = LongestStay - Stay /\ Ahead' = LongestStay - Stay'
    BY <1>2, <1>3, <1>6 DEF Ahead
  <2>2. refresh_count' = refresh_count + 1
    BY <1>1 DEF Count
  <2> HIDE DEF Stay
  <2>3. ASSUME NEW x \in Int, NEW y \in Int, NEW l \in Nat, x + 1 <= y PROVE l - x \in Int /\ l - y \in Int /\ l - y + 1 <= l - x
    BY <2>3
  <2>4. LongestStay - Stay \in Int /\ LongestStay - Stay' \in Int /\ LongestStay - Stay' + 1 <= LongestStay - Stay
    BY <1>1, <1>2, <2>3
  <2> QED BY <1>1, <1>3, <2>1, <2>2, <2>4, Zenon
<1> QED BY <1>4, <1>5, <1>6

(* In S_IDLE nobody is being served, so whoever has a request waits.       *)
LEMMA IdleWaits ==
  ASSUME Singles, state = "IDLE", NEW i \in Pending
  PROVE  i \in Waiting /\ any_req
BY DEF Waiting, InService, Singles, Tagged, Awaited, any_req

LEMMA UnnoticedStep ==
  ASSUME Controlled, Overtaking, Next
  PROVE  Unnoticed' /\ StartedFresh'
<1>1. Sequencer /\ TypeOK /\ Turns /\ Registered
  BY DEF Next, Controller, Sequencer, Controlled
<1>2. ASSUME NoneLost, ~(state = "IDLE" /\ state' \in {"BOPEN1", "ARB"}) PROVE NoneLost'
  BY <1>1, <1>2, TurnsStep DEF NoneLost, Overtaking
<1>3. ~any_req => NoneLost'
  BY <1>1, TurnsStep DEF NoneLost, Overtaking, any_req
<1>4. any_req_q' = any_req /\ (b_start' => Yield)
  BY <1>1, Zenon DEF Registered
<1>5. state' = "STARTUP" => state = "STARTUP"
  BY <1>1 DEF Sequencer, Startup, IdleRefresh, IdleBurst, IdleSingle, IdleStay, Arb, Open2, Pass, Following, Ref, BRead, BEnd
<1>6. Unnoticed'
  BY <1>2, <1>3, <1>4, <1>5 DEF Unnoticed, Overtaking
<1>7. ASSUME state' = "IDLE", b_start', b'.yield PROVE NoneLost'
  <2>1. ~Accepting /\ state # "BEND"
    <3>1. ~Accepting
      BY <1>1, <1>7, YieldStep DEF Controlled
    <3>2. state # "BEND"
      BY <1>1, <1>7 DEF Sequencer, Startup, IdleRefresh, IdleBurst, IdleSingle, IdleStay, Arb, Open2, Pass, Following, Ref, BRead, BEnd
    <3> QED BY <3>1, <3>2
  <2>2. b'.yield = b.yield
    BY <1>1, <1>7, <2>1, YieldStep DEF Controlled
  <2>3. ~any_req_q
    BY <1>4, <1>7, <2>2, Zenon DEF Yield
  <2> QED BY <1>2, <1>7, <2>3 DEF Overtaking, Unnoticed
<1> QED BY <1>6, <1>7 DEF StartedFresh

LEMMA InRoundStep ==
  ASSUME Controlled, Reading, Singles, Overtaking, Next
  PROVE  InRound'
<1>1. Sequencer /\ TypeOK /\ Turns /\ last \in Client /\ last' \in Client
  BY TypeStep DEF Next, Controller, Sequencer, Controlled, TypeOK
<1> SUFFICES ASSUME NEW i \in Client, i \in Waiting' PROVE waited'[i].singles + Distance(i)' <= NCLI - 1
  BY DEF InRound, Waiting, Pending
<1>2. Distance(i) \in 0 .. NCLI - 1
  BY <1>1, DistanceType
<1>3. Distance(i)' \in 0 .. NCLI - 1
  BY <1>1, InRing DEF Distance, Client
<1> HIDE DEF Distance
<1>4. CASE i \notin Pending
  BY <1>1, <1>3, <1>4, TurnsStep DEF Overtaking
<1>5. CASE i \in Pending
  <2>1. i \in Waiting /\ waited[i].singles \in Nat /\ waited[i].singles + Distance(i) <= NCLI - 1
    BY <1>1, <1>5, WaitingFrom, TurnsStep DEF Overtaking, InRound
  <2>2. CASE state = "IDLE" /\ state' = "ARB"
    <3>1. any_req /\ cur' = pick /\ last' = pick
      BY <1>1, <2>2, LastKept
    <3>2. i # cur'
      BY <2>2 DEF Waiting, InService
    <3>3. waited'[i].singles = waited[i].singles + 1
      BY <1>1, <1>5, <2>2, <3>2, TurnsStep DEF Overtaking
    <3>4. Distance(i)' + 1 <= Distance(i)
      BY <1>1, <1>5, <3>1, <3>2, Nearer
    <3> QED BY <1>2, <1>3, <2>1, <3>3, <3>4
  <2>3. CASE ~(state = "IDLE" /\ state' = "ARB")
    <3>1. last' = last
      BY <1>1, <2>3, LastKept
    <3>2. Distance(i)' = Distance(i)
      BY <3>1 DEF Distance
    <3>3. waited'[i].singles = waited[i].singles
      BY <1>1, <1>5, <2>3, TurnsStep DEF Overtaking
    <3> QED BY <2>1, <3>2, <3>3
  <2> QED BY <2>2, <2>3
<1> QED BY <1>4, <1>5

(* A chunk is opened for a waiting client's loss only when it is the       *)
(* chunks' turn, or when a refresh came between.                           *)
LEMMA BurstTurn ==
  ASSUME Controlled, Overtaking, state = "IDLE", b_start, NEW i \in Waiting, waited[i].chunks \in Nat, waited[i].singles \in Nat
  PROVE  \/ waited[i].chunks = 0
         \/ ~b.yield /\ waited[i].chunks <= waited[i].singles
         \/ ~b.yield /\ waited[i].chunks > 0 /\ waited[i].chunks <= waited[i].singles + 1
            /\ refresh_count + Ahead <= 7 + 9 * waited[i].singles + (waited[i].chunks - 1) * LongestStay
<1>1. i \in Client
  BY DEF Waiting, Pending
<1>2. CASE b.yield
  BY <1>1, <1>2 DEF Overtaking, StartedFresh, NoneLost
<1>3. CASE ~b.yield
  <2>1. Extra = 0
    BY <1>3 DEF Extra, InBurst
  <2> HIDE DEF Extra
  <2>2. InTurn(i) \/ Refreshed(i)
    BY DEF Overtaking, Turned
  <2> QED BY <1>3, <2>1, <2>2 DEF InTurn, Refreshed
<1> QED BY <1>2, <1>3

LEMMA BoundStep ==
  ASSUME Controlled, Singles, Overtaking, Next
  PROVE  BoundedOvertaking'
<1>1. Sequencer /\ TypeOK /\ Turns /\ last \in Client
  BY DEF Next, Controller, Sequencer, Controlled, TypeOK
<1> SUFFICES ASSUME NEW i \in Client PROVE waited'[i].singles <= NCLI - 1 /\ waited'[i].chunks <= NCLI + 1
  BY DEF BoundedOvertaking
<1>2. /\ waited[i].singles \in Nat /\ waited[i].chunks \in Nat
      /\ waited[i].singles <= NCLI - 1 /\ waited[i].chunks <= NCLI + 1
  BY <1>1, TurnsStep DEF Overtaking, BoundedOvertaking
<1>3. CASE i \notin Pending
  BY <1>1, <1>3, TurnsStep DEF Overtaking
<1>4. CASE i \in Pending /\ state = "IDLE" /\ state' = "BOPEN1"
  <2>1. i \in Waiting
    BY <1>4, IdleWaits
  <2>2. b_start
    BY <1>1, <1>4 DEF Sequencer, Startup, IdleRefresh, IdleBurst, IdleSingle, IdleStay, Arb, Open2, Pass, Following, Ref, BRead, BEnd
  <2>3. waited[i].chunks <= NCLI
    BY <1>2, <1>4, <2>1, <2>2, BurstTurn
  <2>4. waited'[i].singles = waited[i].singles /\ waited'[i].chunks = waited[i].chunks + 1
    BY <1>1, <1>4, TurnsStep DEF Overtaking
  <2> QED BY <1>2, <2>3, <2>4
<1>5. CASE i \in Pending /\ state = "IDLE" /\ state' = "ARB" /\ i # cur'
  <2>1. i \in Waiting /\ any_req
    BY <1>5, IdleWaits
  <2>2. cur' = pick /\ last' = pick
    BY <1>1, <1>5, LastKept
  <2>3. Distance(i)' \in 0 .. NCLI - 1 /\ Distance(i) \in 0 .. NCLI - 1 /\ Distance(i)' + 1 <= Distance(i)
    BY <1>1, <1>5, <2>1, <2>2, Nearer
  <2>4. waited[i].singles + Distance(i) <= NCLI - 1
    BY <2>1 DEF Overtaking, InRound
  <2>5. waited'[i].singles = waited[i].singles + 1 /\ waited'[i].chunks = waited[i].chunks
    BY <1>1, <1>5, TurnsStep DEF Overtaking
  <2> HIDE DEF Distance
  <2> QED BY <1>2, <2>3, <2>4, <2>5
<1>6. CASE i \in Pending /\ ~(state = "IDLE" /\ state' = "BOPEN1") /\ ~(state = "IDLE" /\ state' = "ARB" /\ i # cur')
  BY <1>1, <1>2, <1>6, TurnsStep DEF Overtaking
<1> QED BY <1>3, <1>4, <1>5, <1>6

(* When a chunk has gone out of turn, the interval has not gone by since   *)
(* the refresh that let it.                                                *)
LEMMA NotDueAgain ==
  ASSUME RefreshLeavesRoom, Controlled, Timely, Overtaking, state = "IDLE", NEW i \in Waiting, Refreshed(i)
  PROVE  ~refresh_due
<1>1. i \in Client
  BY DEF Waiting, Pending
<1>2. waited[i].singles \in 0 .. NCLI - 1 /\ waited[i].chunks - 1 \in 0 .. NCLI /\ refresh_count \in Nat
  <2>1. waited[i].singles \in Nat /\ waited[i].chunks \in Nat /\ refresh_count \in Nat
    BY <1>1 DEF Controlled, TypeOK
  <2> QED BY <1>1, <2>1 DEF Overtaking, BoundedOvertaking, Refreshed
<1>3. LongestStay \in Nat /\ Ahead = 0
  BY DEF LongestStay, Ahead, Stay
<1>4. (waited[i].chunks - 1) * LongestStay <= NCLI * LongestStay /\ (waited[i].chunks - 1) * LongestStay \in Nat
      /\ NCLI * LongestStay \in Nat
  <2>1. ASSUME NEW n \in Nat PROVE n * LongestStay \in Nat
    BY <1>3
  <2> DEFINE n == waited[i].chunks - 1
  <2>2. n \in Nat /\ n <= NCLI
    BY <1>2
  <2> HIDE DEF n
  <2>3. n * LongestStay <= NCLI * LongestStay
    BY <1>3, <2>2, Times
  <2>4. n * LongestStay \in Nat /\ NCLI * LongestStay \in Nat
    BY <2>1, <2>2
  <2> QED BY <2>3, <2>4 DEF n
<1>5. refresh_count <= Refresh + 1
  <2> DEFINE x == (waited[i].chunks - 1) * LongestStay
             y == NCLI * LongestStay
  <2>1. refresh_count + 0 <= 7 + 9 * waited[i].singles + x /\ Refresh + 1 >= 7 + 9 * (NCLI - 1) + y
    BY <1>3 DEF Refreshed, RefreshLeavesRoom
  <2>2. x <= y /\ x \in Nat /\ y \in Nat
    BY <1>4
  <2> HIDE DEF x, y
  <2> QED BY <1>2, <2>1, <2>2
<1>6. ~(refresh_count > Refresh + 1)
  BY <1>2, <1>5
<1> QED BY <1>6, Zenon DEF Timely

LEMMA AfterRefreshStep ==
  ASSUME RefreshLeavesRoom, Controlled, Timely, Reading, Singles, Overtaking, Next
  PROVE  AfterRefresh'
<1>1. Sequencer /\ TypeOK /\ Turns
  BY DEF Next, Controller, Sequencer, Controlled
<1> SUFFICES ASSUME state' = "REF", NEW i \in Client, i \in Waiting' PROVE waited'[i].chunks <= waited'[i].singles + 1
  BY DEF AfterRefresh, Waiting, Pending
<1>2. waited[i].singles \in Nat /\ waited[i].chunks \in Nat
  BY <1>1, TurnsStep DEF Overtaking
<1>3. CASE i \notin Pending
  BY <1>1, <1>3, TurnsStep DEF Overtaking
<1>4. CASE i \in Pending
  <2>1. i \in Waiting
    BY <1>4, WaitingFrom
  <2>2. waited'[i].singles = waited[i].singles /\ waited'[i].chunks = waited[i].chunks
    BY <1>1, <1>4, TurnsStep DEF Overtaking
  <2>3. state = "REF" \/ (state = "IDLE" /\ refresh_due)
    BY <1>1 DEF Sequencer, Startup, IdleRefresh, IdleBurst, IdleSingle, IdleStay, Arb, Open2, Pass, Following, Ref, BRead, BEnd
  <2>4. CASE state = "REF"
    BY <1>2, <2>1, <2>2, <2>4 DEF Overtaking, AfterRefresh
  <2>5. CASE state = "IDLE" /\ refresh_due
    <3>1. InTurn(i)
      BY <2>1, <2>5, NotDueAgain DEF Overtaking, Turned
    <3>2. Extra \in {0, 1}
      BY DEF Extra
    <3> HIDE DEF Extra
    <3> QED BY <1>2, <2>2, <3>1, <3>2 DEF InTurn
  <2> QED BY <2>3, <2>4, <2>5
<1> QED BY <1>3, <1>4

LEMMA TurnedStep ==
  ASSUME RefreshLeavesRoom, Controlled, Timely, Reading, Singles, Phase, Overtaking, Next
  PROVE  Turned'
<1>1. Sequencer /\ TypeOK /\ Turns /\ Bursting
  BY DEF Next, Controller, Sequencer, Controlled
<1> SUFFICES ASSUME NEW i \in Client, i \in Waiting' PROVE InTurn(i)' \/ Refreshed(i)'
  BY DEF Turned, Waiting, Pending
<1> DEFINE s  == waited[i].singles
           c  == waited[i].chunks
           s1 == waited'[i].singles
           c1 == waited'[i].chunks
           L  == LongestStay
           e  == Extra
           e1 == Extra'
           h  == Ahead
           h1 == Ahead'
           r  == refresh_count
           r1 == refresh_count'
           Out(ss, cc) == 7 + 9 * ss + (cc - 1) * L
<1>2. s \in Nat /\ c \in Nat /\ s1 \in Nat /\ c1 \in Nat
  BY <1>1, TurnsStep DEF Overtaking
<1>3. e \in {0, 1} /\ e1 \in {0, 1} /\ L \in Nat /\ r \in Nat
  <2>1. (Chunk - 1) * Gap \in Nat
    OBVIOUS
  <2>2. LongestStay \in Nat
    BY <2>1 DEF LongestStay
  <2>3. refresh_count \in Nat
    BY <1>1 DEF TypeOK
  <2> QED BY <2>2, <2>3, Zenon DEF Extra
<1>4. c1 <= s1 + e1 => InTurn(i)'
  BY DEF InTurn
<1>5. c1 > 0 /\ c1 <= s1 + e1 + 1 /\ r1 + h1 <= Out(s1, c1) => Refreshed(i)'
  BY DEF Refreshed, LongestStay
<1>6. c > 0 => (c - 1) * L \in Nat /\ c * L = (c - 1) * L + L
  <2> SUFFICES ASSUME c > 0 PROVE (c - 1) * L \in Nat /\ c * L = (c - 1) * L + L
    OBVIOUS
  <2> PICK d \in Nat : d = c - 1
    BY <1>2
  <2>1. d + 1 = c
    BY <1>2
  <2> HIDE DEF c, L
  <2>2. (d + 1) * L = d * L + L /\ d * L \in Nat
    BY <1>3, OneMoreTime
  <2> QED BY <2>1, <2>2
<1> HIDE DEF s, c, s1, c1, L, e, e1, h, h1, r, r1
<1>7. CASE i \notin Pending
  <2>1. s1 = 0 /\ c1 = 0
    BY <1>1, <1>7, TurnsStep DEF Overtaking, s1, c1
  <2> QED BY <1>3, <1>4, <2>1
<1> SUFFICES ASSUME i \in Pending PROVE InTurn(i)' \/ Refreshed(i)'
  BY <1>7
<1>8. i \in Waiting
  BY WaitingFrom
<1>9. c <= s + e \/ (c > 0 /\ c <= s + e + 1 /\ r + h <= Out(s, c))
  BY <1>8 DEF Overtaking, Turned, InTurn, Refreshed, s, c, e, r, h, L
<1>10. /\ state = "IDLE" /\ state' = "BOPEN1" => s1 = s /\ c1 = c + 1
       /\ state = "IDLE" /\ state' = "ARB" => s1 = s + 1 /\ c1 = c
       /\ ~(state = "IDLE" /\ state' \in {"BOPEN1", "ARB"}) => s1 = s /\ c1 = c
  <2>1. state' = "ARB" => i # cur'
    BY DEF Waiting, InService
  <2> QED BY <1>1, <2>1, TurnsStep DEF Overtaking, s, c, s1, c1
<1>11. Count => r1 = r + 1
  BY DEF Count, r, r1
<1>20. CASE state = "STARTUP"
  <2>1. s = 0 /\ c = 0
    BY <1>20 DEF Overtaking, Unnoticed, NoneLost, s, c
  <2> QED BY <1>3, <1>4, <1>10, <1>20, <2>1
<1>21. CASE IdleRefresh
  <2>1. state = "IDLE" /\ state' = "REF" /\ refresh_due /\ r1 = 0
    BY <1>21 DEF IdleRefresh, r1
  <2>2. c <= s + 1
    <3>1. InTurn(i)
      BY <1>8, <2>1, NotDueAgain DEF Overtaking, Turned
    <3> QED BY <1>2, <1>3, <3>1 DEF InTurn, s, c, e
  <2>3. h1 = 0
    BY <1>3, <2>1 DEF Ahead, Stay, LongestStay, h1
  <2>4. s1 = s /\ c1 = c
    BY <1>10, <2>1
  <2>5. CASE c = 0
    BY <1>2, <1>3, <1>4, <2>4, <2>5
  <2>6. CASE c # 0
    BY <1>2, <1>3, <1>5, <1>6, <2>1, <2>2, <2>3, <2>4, <2>6
  <2> QED BY <2>5, <2>6
<1>22. CASE IdleBurst
  <2>1. state = "IDLE" /\ state' = "BOPEN1" /\ b_start /\ Count
    BY <1>22 DEF IdleBurst, Quiet
  <2>2. s1 = s /\ c1 = c + 1 /\ r1 = r + 1
    BY <1>10, <1>11, <2>1
  <2>3. e1 = 1
    BY <2>1 DEF Extra, InBurst, e1
  <2>4. h = 0 /\ h1 = L - 1
    BY <1>3, <2>1 DEF Ahead, Stay, LongestStay, h, h1, L
  <2>5. c = 0 \/ c <= s \/ (c > 0 /\ c <= s + 1 /\ r + h <= Out(s, c))
    BY <1>2, <1>8, <2>1, BurstTurn DEF s, c, r, h, L
  <2>6. CASE c <= s
    BY <1>2, <1>4, <2>2, <2>3, <2>6
  <2>7. CASE c > 0 /\ c <= s + 1 /\ r + h <= Out(s, c)
    <3> DEFINE p == (c - 1) * L
    <3>1. p \in Nat /\ c * L = p + L /\ r + h <= 7 + 9 * s + p
      BY <1>6, <2>7
    <3>2. c1 - 1 = c
      BY <1>2, <2>2
    <3>3. Out(s1, c1) = 7 + 9 * s + (p + L)
      BY <2>2, <3>1, <3>2
    <3> HIDE DEF p
    <3>4. r1 + h1 <= 7 + 9 * s + (p + L)
      BY <1>2, <1>3, <2>2, <2>4, <3>1
    <3>5. c1 > 0 /\ c1 <= s1 + e1 + 1
      BY <1>2, <2>2, <2>3, <2>7
    <3> HIDE DEF Out
    <3> QED BY <1>5, <3>3, <3>4, <3>5
  <2>8. CASE c = 0
    BY <1>2, <1>4, <2>2, <2>3, <2>8
  <2> QED BY <2>5, <2>6, <2>7, <2>8
<1>23. CASE IdleSingle
  <2>1. state = "IDLE" /\ state' = "ARB" /\ Count
    BY <1>23 DEF IdleSingle, Quiet
  <2>2. s1 = s + 1 /\ c1 = c /\ r1 = r + 1
    BY <1>10, <1>11, <2>1
  <2>3. e1 = 0
    BY <1>1, <2>1, YieldStep DEF Extra, InBurst, e1
  <2>4. h = 0 /\ h1 = 8
    BY <2>1 DEF Ahead, Stay, LongestStay, h, h1
  <2>5. CASE c <= s + e
    BY <1>2, <1>3, <1>4, <2>2, <2>3, <2>5
  <2>6. CASE c > 0 /\ c <= s + e + 1 /\ r + h <= Out(s, c)
    <3> DEFINE p == (c - 1) * L
    <3>1. p \in Nat /\ r + h <= 7 + 9 * s + p /\ Out(s1, c1) = 7 + 9 * s1 + p
      BY <1>6, <2>2, <2>6
    <3> HIDE DEF p
    <3>2. r1 + h1 <= 7 + 9 * s1 + p
      BY <1>2, <1>3, <2>2, <2>4, <3>1
    <3>3. c1 > 0 /\ c1 <= s1 + e1 + 1
      BY <1>2, <1>3, <2>2, <2>3, <2>6
    <3> HIDE DEF Out
    <3> QED BY <1>5, <3>1, <3>2, <3>3
  <2> QED BY <1>9, <2>5, <2>6
<1>24. CASE Ref
  <2>1. state = "REF" /\ state' \in {"REF", "IDLE"} /\ Count
    BY <1>24 DEF Ref, Quiet
  <2>2. s1 = s /\ c1 = c /\ r1 = r + 1
    BY <1>10, <1>11, <2>1
  <2>3. c <= s + 1
    BY <1>8, <2>1 DEF Overtaking, AfterRefresh, s, c
  <2>4. r1 <= 7
    <3>1. refresh_count + wait_n <= 6 /\ wait_n \in Nat
      BY <1>1, <2>1 DEF Timely, RefWait, TypeOK
    <3> QED BY <1>3, <2>2, <3>1 DEF r
  <2>5. h1 = 0
    BY <1>3, <2>1 DEF Ahead, Stay, LongestStay, h1
  <2>6. CASE c = 0
    BY <1>2, <1>3, <1>4, <2>2, <2>6
  <2>7. CASE c # 0
    <3> DEFINE p == (c - 1) * L
    <3>1. p \in Nat /\ Out(s1, c1) = 7 + 9 * s + p
      BY <1>2, <1>6, <2>2, <2>7
    <3> HIDE DEF p
    <3>2. r1 + h1 <= 7 + 9 * s + p
      BY <1>2, <1>3, <2>2, <2>4, <2>5, <3>1
    <3>3. c1 > 0 /\ c1 <= s1 + e1 + 1
      BY <1>2, <1>3, <2>2, <2>3, <2>7
    <3> HIDE DEF Out
    <3> QED BY <1>5, <3>1, <3>2, <3>3
  <2> QED BY <2>6, <2>7
<1>25. CASE state \notin {"STARTUP", "IDLE", "REF"}
  <2>1. refresh_count' = refresh_count + 1 /\ Ahead \in Int /\ Ahead' \in Int /\ Ahead' + 1 <= Ahead /\ state' # "ARB"
    BY <1>1, <1>25, AheadStep
  <2>2. r1 = r + 1 /\ h \in Int /\ h1 \in Int /\ h1 + 1 <= h
    BY <2>1 DEF r, r1, h, h1
  <2>3. s1 = s /\ c1 = c
    BY <1>10, <1>25
  <2>4. e <= e1
    <3> SUFFICES ASSUME b.yield \/ InBurst PROVE b'.yield \/ InBurst'
      BY <1>3 DEF Extra, e, e1
    <3>1. CASE InBurst
      BY <1>1, <3>1, YieldStep DEF InBurst, Sequencer, Startup, IdleRefresh, IdleBurst, IdleSingle, IdleStay, Arb, Open2, Pass,
                                   Following, Ref, BRead, BEnd
    <3>2. CASE b.yield /\ ~InBurst
      <4>1. ~Accepting
        BY <1>25, <3>2 DEF Overtaking, YieldKept, BurstEnding, OnCourse, Accepting
      <4>2. b'.yield = b.yield
        BY <1>1, <2>1, <3>2, <4>1, YieldStep DEF InBurst
      <4> QED BY <3>2, <4>2, Zenon
    <3> QED BY <3>1, <3>2
  <2>5. CASE c <= s + e
    BY <1>2, <1>3, <1>4, <2>3, <2>4, <2>5
  <2>6. CASE c > 0 /\ c <= s + e + 1 /\ r + h <= Out(s, c)
    <3> DEFINE p == (c - 1) * L
    <3>1. p \in Nat /\ r + h <= 7 + 9 * s + p /\ Out(s1, c1) = 7 + 9 * s + p
      BY <1>6, <2>3, <2>6
    <3> HIDE DEF p
    <3>2. r1 + h1 <= 7 + 9 * s + p
      BY <1>2, <1>3, <2>2, <3>1
    <3>3. c1 > 0 /\ c1 <= s1 + e1 + 1
      BY <1>2, <1>3, <2>3, <2>4, <2>6
    <3> HIDE DEF Out
    <3> QED BY <1>5, <3>1, <3>2, <3>3
  <2> QED BY <1>9, <2>5, <2>6
<1>26. CASE IdleStay
  BY <1>26, IdleWaits DEF IdleStay
<1> QED BY <1>1, <1>20, <1>21, <1>22, <1>23, <1>24, <1>25, <1>26 DEF Sequencer, Startup, Arb, Open2, Pass, BRead, BEnd

(* With the room the code's refresh interval leaves, no client, of however *)
(* many, loses more than one turn to each other client, nor more chunks    *)
(* than there are clients and one.                                         *)
THEOREM BoundedOvertakingCorrect == ASSUME RefreshLeavesRoom PROVE Spec => []BoundedOvertaking
<1> DEFINE All == Controlled /\ Timely /\ Reading /\ Singles /\ Phase /\ JustRead /\ Overtaking
<1>1. Init => All
  <2> SUFFICES ASSUME Init PROVE All
    OBVIOUS
  <2>1. Controlled
    BY InitTyped DEF Controlled
  <2>2. Timely /\ Reading /\ Singles /\ JustRead /\ NoBurst
    BY DEF Init, Timely, Stay, LongestStay, Reading, Singles, Chosen, Addressed, Tagged, Acked, WritersStay, JustRead, NoTag,
           NoBurst, AllHeard, AllDrained
  <2>3. NoneLost /\ Pending = {} /\ state = "STARTUP" /\ ~b.yield
    BY DEF Init, NoneLost, Pending
  <2>4. BoundedOvertaking
    BY <2>3 DEF NoneLost, BoundedOvertaking
  <2>5. Overtaking
    BY <2>3, <2>4 DEF Overtaking, Unnoticed, StartedFresh, InRound, Turned, AfterRefresh, YieldKept, Waiting
  <2> QED BY <2>1, <2>2, <2>5 DEF Phase
<1>2. ASSUME All, [Next]_vars PROVE All'
  <2>1. CASE Next
    <3>1. TypeOK /\ Sequencer
      BY <1>2, <2>1 DEF Next, Controller, Sequencer, Controlled
    <3>2. Controlled' /\ Timely' /\ Reading' /\ Singles' /\ Phase' /\ JustRead'
      BY <1>2, <2>1, <3>1, ControlledStep, TimelyStep, ReadingStep, SinglesStep, PhaseStep, JustReadStep
    <3>3. Unnoticed' /\ StartedFresh' /\ InRound' /\ BoundedOvertaking'
      BY <1>2, <2>1, UnnoticedStep, InRoundStep, BoundStep
    <3>4. Turned' /\ AfterRefresh'
      BY <1>2, <2>1, TurnedStep, AfterRefreshStep
    <3>5. YieldKept'
      BY <1>2, <2>1, YieldKeptStep DEF Overtaking
    <3> QED BY <3>2, <3>3, <3>4, <3>5 DEF Overtaking
  <2>2. CASE UNCHANGED vars
    <3>1. Controlled'
      BY <1>2, ControlledStep
    <3>2. Timely' /\ Reading' /\ Singles' /\ JustRead'
      <4>1. Stay' = Stay
        BY <2>2 DEF vars, Stay, LongestStay
      <4>2. Timely'
        BY <1>2, <2>2, <4>1 DEF vars, Timely
      <4> QED BY <1>2, <2>2, <4>2 DEF vars, pins, single, answers, requests, Reading, Singles, Chosen, Addressed, Tagged, Acked,
                                      WritersStay, Wanted, Awaited, Data, Word, JustRead
    <3>3. OnCourse' <=> OnCourse
      BY <2>2 DEF vars, pins, answers, burst_client, OnCourse, Before, Delivered, One, Data, Word
    <3>4. Phase' /\ YieldKept'
      BY <1>2, <2>2, <3>3 DEF vars, answers, burst_client, Phase, NoBurst, BurstAsked, BurstReading, BurstEnding, BurstDone,
                              AllHeard, AllDrained, Drained, YieldKept, Overtaking
    <3>5. Ahead' = Ahead /\ Extra' = Extra
      BY <2>2 DEF vars, Ahead, Stay, LongestStay, Extra, InBurst
    <3>6. Waiting' = Waiting /\ waited' = waited
      BY <2>2 DEF vars, single, answers, requests, Waiting, Pending, InService
    <3>7. InRound' /\ Unnoticed' /\ StartedFresh' /\ AfterRefresh' /\ BoundedOvertaking'
      BY <1>2, <2>2, <3>6 DEF vars, single, Overtaking, InRound, Distance, Unnoticed, NoneLost, StartedFresh, AfterRefresh,
                              BoundedOvertaking
    <3>8. Turned'
      BY <1>2, <2>2, <3>5, <3>6 DEF vars, Overtaking, Turned, InTurn, Refreshed, LongestStay
    <3> QED BY <3>1, <3>2, <3>4, <3>7, <3>8 DEF Overtaking
  <2> QED BY <1>2, <2>1, <2>2
<1>3. All => BoundedOvertaking
  BY DEF Overtaking
<1> QED BY <1>1, <1>2, <1>3, PTL DEF Spec
=============================================================================
