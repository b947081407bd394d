----------------------------- MODULE MeterReader -----------------------------
(***************************************************************************)
(* wt_hlw8032.c: a process that reads the frames of an HLW8032 energy      *)
(* meter from a serial line.  SIGIO announces input, its handler clears    *)
(* wait_flag, and deal_data reads, picks a frame out of what it read and   *)
(* lets DealUartInf decode it: three median filters and an energy total    *)
(* that continues the meter's 16-bit pulse counter.                        *)
(*                                                                         *)
(* A byte is the frame it belongs to and its place in it; place 0 is the   *)
(* state register, place 1 the constant 0x5A.  A byte hit by a parity      *)
(* error reads as 0 (INPCK without PARMRK), here place Zeroed.  The        *)
(* checksum does not cover places 0 and 1; it is taken to reject exactly   *)
(* the buffers whose other bytes are not those of one frame in order.      *)
(* The printed values are k * 1000 / t for the                             *)
(* filtered period t, 0 for t = 0, and are not kept; runingInf.voltage,    *)
(* .electricity and .power are only ever set to the 0 they start with.     *)
(***************************************************************************)
EXTENDS Integers, Sequences

CONSTANTS
  DATA_PACKAGE,     \* bytes of a frame, 24 in the code
  ENERGY_FLOW_NUM,  \* pulses at which the meter's counter overflows, 65536 in the code
  UintModulus,      \* 2^32, the modulus of an unsigned int
  UlongModulus,     \* that of an unsigned long: 2^32 on the ARM target, 2^64 on x86-64
  MaxFrames,        \* bound: frames the meter starts to send
  Readings,         \* what each of them may say apart from its pulse counter
  MaxNoise,         \* bound: bytes hit by a parity error
  MaxLine           \* bound: bytes waiting in the line's input queue

COUNT_NUM == 1

Channels == {"V", "I", "P"}

\* head is "normal" for 0x55, "uncalibrated" for 0xAA, and "fault" for the rest, with
\* the channels whose error bits are set; new are the channels whose update bit is set.
Reading == [head : {"normal", "uncalibrated", "fault"}, bad : SUBSET Channels,
            new : SUBSET Channels, t : [Channels -> Nat], k : Nat]

ASSUME MeterAssumption ==
  /\ DATA_PACKAGE \in Nat /\ DATA_PACKAGE > 2
  /\ ENERGY_FLOW_NUM \in Nat /\ ENERGY_FLOW_NUM > 1
  /\ UintModulus \in Nat /\ UintModulus > 20 * ENERGY_FLOW_NUM
  /\ UlongModulus \in Nat /\ UlongModulus >= UintModulus
  /\ MaxFrames \in Nat
  /\ Readings \in [1..MaxFrames -> SUBSET Reading]
  /\ MaxNoise \in Nat /\ MaxLine \in Nat

VARIABLES
  pc,             \* where the process is
  wait_flag,      \* WAITING (TRUE, 0) or ARRIVED (FALSE, -1)
  sigio,          \* 1 if a SIGIO is pending
  tty,            \* bytes in the line's input queue
  buf,            \* deal_data's buffer, the half of it that is looked at
  hlw_buff,       \* the frame buffer
  res,            \* what the last read returned
  arr,            \* voltage_a, electricity_a and power_a
  arrCnt,         \* voltageCnt, electricityCnt and powerCnt
  powerNewFlag,
  energy, energyLast, energyFlowFlag,   \* fields of runingInf
  frame,          \* the frame being sent
  at,             \* the place in it that is sent next
  sent, noise,    \* frames sent and bytes garbled so far
  last            \* history: the counter of the last frame whose energy was counted

process == <<pc, res, buf, hlw_buff>>
filters == <<arr, arrCnt, powerNewFlag>>
total   == <<energy, energyLast, energyFlowFlag, last>>
line    == <<frame, at, sent, noise>>
vars == <<process, wait_flag, sigio, tty, filters, total, line>>

WAITING == 0
ARRIVED == -1

Places == 0..(DATA_PACKAGE - 1)
Zeroed == DATA_PACKAGE
\* The meter's counter: the pulses at its last overflow, those since, the overflow bit.
Counter == [base : Nat, cnt : 0..(ENERGY_FLOW_NUM - 1), flow : {0, 1}]
Frame == [count : Counter, r : Reading]
Byte == [place : 0..Zeroed, of : Frame]

Locations == {"open", "async", "port", "loop", "read", "copy", "deal", "rearm", "exited", "killed"}

NoCount == [base |-> 0, cnt |-> 0, flow |-> 0]
\* The static buffers start with zeros.
ZeroByte == [place |-> Zeroed,
             of |-> [count |-> NoCount,
                     r |-> [head |-> "fault", bad |-> {}, new |-> {},
                            t |-> [c \in Channels |-> 0], k |-> 0]]]

-----------------------------------------------------------------------------
(* The filters.                                                              *)

maxIndex(a) == CHOOSE i \in 1..3 : \A j \in 1..3 : a[j] < a[i] \/ (a[j] = a[i] /\ j <= i)
minIndex(a) == CHOOSE i \in 1..3 : \A j \in 1..3 : a[i] < a[j] \/ (a[i] = a[j] /\ i <= j)

getVIPvalue(a) ==
  a[CHOOSE j \in 1..3 \ {maxIndex(a), minIndex(a)} :
      \A k \in 1..3 \ {maxIndex(a), minIndex(a)} : j <= k]

isUpdataNewData(a, dat) == a[1] # dat
\* Slip: the new sample is stored before the others are moved.
StoreFirst(a, dat) == <<dat, dat, a[1]>>
updataVIPvalue(a, dat) == <<dat, a[1], a[2]>>
resetVIPvalue(dat) == <<dat, dat, dat>>

\* Slip: an equal sample has to come once more.
EntersLate(c, dat) == isUpdataNewData(arr[c], dat) \/ arrCnt[c] + 1 > COUNT_NUM

\* A new sample, or the same one COUNT_NUM times over, enters the list.
Enters(c, dat) == isUpdataNewData(arr[c], dat) \/ arrCnt[c] + 1 >= COUNT_NUM

\* No new power sample: the running period is taken if it shows a drop by a quarter.
Dropped(a, dat) ==
  /\ isUpdataNewData(a, dat)
  /\ dat > getVIPvalue(a)
  /\ dat - getVIPvalue(a) > getVIPvalue(a) \div 4

Filtered(c, r) ==
  IF c \in r.new
  THEN IF Enters(c, r.t[c]) THEN updataVIPvalue(arr[c], r.t[c]) ELSE arr[c]
  ELSE IF c = "P" /\ powerNewFlag = 0 /\ Dropped(arr[c], r.t[c])
       THEN resetVIPvalue(r.t[c])
       ELSE arr[c]

\* The filters of the channels in served, the others are left alone.
Filter(r, served) ==
  /\ arr' = [c \in Channels |-> IF c \in served THEN Filtered(c, r) ELSE arr[c]]
  /\ arrCnt' = [c \in Channels |->
                  IF c \in served \cap r.new
                  THEN IF Enters(c, r.t[c]) THEN 0 ELSE arrCnt[c] + 1
                  ELSE arrCnt[c]]
  /\ powerNewFlag' = IF "P" \in served \cap r.new THEN 0 ELSE powerNewFlag

-----------------------------------------------------------------------------
(* The energy total.                                                         *)

FlowChanged(c) == energyFlowFlag # c.flow

\* After an overflow a counter beyond the last one is put off to the next frame.
energyCurrent(c) == IF FlowChanged(c) /\ c.cnt > energyLast THEN 0 ELSE c.cnt

energy_cnt(c) ==
  (IF FlowChanged(c)
   THEN energyCurrent(c) + ENERGY_FLOW_NUM - energyLast
   ELSE energyCurrent(c) - energyLast) % UintModulus

\* Slip: the register itself is remembered, not what was counted.
RememberRegister(c) == c.cnt
LastAfter(c) == energyCurrent(c)

\* Slip: the overflow bit is not remembered.
ForgetFlow(c) == energyFlowFlag
FlowFlagAfter(c) == c.flow

Count(c) ==
  /\ energy' = (energy + ((energy_cnt(c) * 10) % UintModulus)) % UlongModulus
  /\ energyLast' = LastAfter(c)
  /\ energyFlowFlag' = FlowFlagAfter(c)
  /\ last' = c

\* power_k stays 0 until some frame had a power sample.
power_k(r) == IF "P" \in r.new \/ powerNewFlag = 0 THEN r.k ELSE 0

-----------------------------------------------------------------------------
(* DealUartInf.                                                              *)

\* What the checksum covers, and itself.
Covered == Places \ {0, 1}
Whole(b) == \A i \in Covered : b[i].place = i /\ b[i].of = b[2].of
Decoded == hlw_buff[2].of

\* What the state byte says: it may be damaged or of another frame.  0 and 0x5A set no
\* error bit, and of a byte with data the value is not known.
States(b) ==
  CASE b.place = 0 -> {[head |-> b.of.r.head, bad |-> b.of.r.bad]}
    [] b.place \in {1, Zeroed} -> {[head |-> "fault", bad |-> {}]}
    [] OTHER -> [head : {"normal", "uncalibrated", "fault"}, bad : SUBSET Channels]

RightLength == res = DATA_PACKAGE

Deal == pc = "deal" /\ UNCHANGED <<res, buf, hlw_buff, wait_flag, sigio, tty, line>>

\* Wrong length, or a checksum that does not match: nothing is changed.
Reject ==
  /\ Deal
  /\ ~RightLength \/ ~Whole(hlw_buff)
  /\ pc' = "rearm"
  /\ UNCHANGED <<filters, total>>

\* A division by power_k >> 1 = 0 is undefined: the process is killed where it traps and
\* goes on where it gives 0, as the udiv of the ARM build does.
AfterDivision(k) == IF k \div 2 = 0 THEN {"killed", "rearm"} ELSE {"rearm"}

\* 0x55: filters, energy, and the division.
DealNormal ==
  /\ Deal /\ RightLength /\ Whole(hlw_buff)
  /\ \E state \in States(hlw_buff[0]) : state.head = "normal"
  /\ Filter(Decoded.r, Channels)
  /\ Count(Decoded.count)
  /\ pc' \in AfterDivision(power_k(Decoded.r))

\* 0xAA: the chip is not calibrated.
DealUncalibrated ==
  /\ Deal /\ RightLength /\ Whole(hlw_buff)
  /\ \E state \in States(hlw_buff[0]) : state.head = "uncalibrated"
  /\ pc' = "rearm"
  /\ UNCHANGED <<filters, total>>

\* Any other state: the channels not in error are filtered, the energy is left alone.
DealFault ==
  /\ Deal /\ RightLength /\ Whole(hlw_buff)
  /\ \E state \in States(hlw_buff[0]) :
       state.head = "fault" /\ Filter(Decoded.r, Channels \ state.bad)
  /\ pc' = "rearm"
  /\ UNCHANGED total

-----------------------------------------------------------------------------
(* The process.                                                              *)

Supported(databits, stopbits, parity) ==
  databits \in {7, 8} /\ stopbits \in {1, 2} /\ parity \in {"N", "O", "E", "S"}

\* open("/dev/ttyS1"), which may fail.
Open ==
  /\ pc = "open"
  /\ pc' \in {"async", "exited"}
  /\ UNCHANGED <<res, buf, hlw_buff, wait_flag, sigio, tty, filters, total, line>>

\* set_serial and the start of set_parity: from here on input raises SIGIO.
\* tcgetattr may fail, and a setting may be one that is not supported.
MakeAsync ==
  /\ pc = "async"
  /\ \/ Supported(8, 1, "E") /\ pc' = "port"
     \/ pc' = "exited"
  /\ UNCHANGED <<res, buf, hlw_buff, wait_flag, sigio, tty, filters, total, line>>

\* The end of set_parity: tcflush drops the input so far; tcsetattr may fail.
SetPort ==
  /\ pc = "port"
  /\ tty' = <<>>
  /\ pc' \in {"loop", "exited"}
  /\ UNCHANGED <<res, buf, hlw_buff, wait_flag, sigio, filters, total, line>>

\* deal_data's loop finds wait_flag cleared.
Wake ==
  /\ pc = "loop"
  /\ wait_flag = ARRIVED
  /\ pc' = "read"
  /\ UNCHANGED <<res, buf, hlw_buff, wait_flag, sigio, tty, filters, total, line>>

Wanted == 2 * DATA_PACKAGE

\* What a read of n bytes leaves in buf: behind them the bytes of earlier reads.
Fill(n) == [i \in Places |-> IF i < n THEN tty[i + 1] ELSE buf[i]]

Got(n) ==
  /\ buf' = Fill(n)
  /\ tty' = SubSeq(tty, n + 1, Len(tty))
  /\ res' = IF n = 0 THEN -1 ELSE n
  /\ pc' = "copy"

Available == IF Len(tty) < Wanted THEN Len(tty) ELSE Wanted

\* read returns once VMIN = DATA_PACKAGE bytes are there, with at most the wanted ones.
Read ==
  /\ pc = "read"
  /\ Len(tty) >= DATA_PACKAGE
  /\ Got(Available)
  /\ UNCHANGED <<hlw_buff, wait_flag, sigio, filters, total, line>>

Marked(b) == \E i \in Places : b[i].place = 1

Copied == IF Marked(buf) THEN buf ELSE hlw_buff

\* buf goes to hlw_buff if it holds an 0x5A anywhere, and is decoded if that is in place.
Copy ==
  /\ pc = "copy"
  /\ hlw_buff' = Copied
  /\ pc' = IF Copied[1].place = 1 THEN "deal" ELSE "rearm"
  /\ UNCHANGED <<res, buf, wait_flag, sigio, tty, filters, total, line>>

\* wait_flag = TRUE, also when a signal came since the read.
Rearm ==
  /\ pc = "rearm"
  /\ wait_flag' = WAITING
  /\ pc' = "loop"
  /\ UNCHANGED <<res, buf, hlw_buff, sigio, tty, filters, total, line>>

\* Input before the line is asynchronous is dropped unseen by SetPort.
Running == pc \notin {"open", "async", "exited", "killed"}

\* A pending SIGIO is delivered.  The handler has no SA_RESTART: a read that waits for
\* more bytes ends with those it has, or with -1.
signal_handler_IO ==
  /\ Running
  /\ sigio = 1
  /\ sigio' = 0
  /\ wait_flag' = ARRIVED
  /\ IF pc = "read" /\ Len(tty) < DATA_PACKAGE
     THEN Got(Len(tty))
     ELSE UNCHANGED <<pc, res, buf, tty>>
  /\ UNCHANGED <<hlw_buff, filters, total, line>>

-----------------------------------------------------------------------------
(* The meter and the line.                                                   *)

\* What the meter's counter may be when it makes up its next frame.  Assumed of the
\* installation: it does not overflow twice between two frames that are counted.
NextCounts ==
  { [frame.count EXCEPT !.cnt = n] : n \in frame.count.cnt..(ENERGY_FLOW_NUM - 1) }
  \cup
  { [base |-> frame.count.base + ENERGY_FLOW_NUM, cnt |-> n, flow |-> 1 - frame.count.flow] :
      n \in IF frame.count.base = last.base THEN 0..(ENERGY_FLOW_NUM - 1) ELSE {} }

NextFrames == {[count |-> c, r |-> r] : c \in NextCounts, r \in Readings[sent + 1]}

\* The next byte arrives, whole or garbled; a frame is made up for its first byte.
SendByte ==
  /\ Running
  /\ Len(tty) < MaxLine
  /\ IF at = 0
     THEN sent < MaxFrames /\ sent' = sent + 1 /\ frame' \in NextFrames
     ELSE UNCHANGED <<sent, frame>>
  /\ \/ tty' = Append(tty, [place |-> at, of |-> frame']) /\ UNCHANGED noise
     \/ /\ noise < MaxNoise
        /\ noise' = noise + 1
        /\ tty' = Append(tty, [place |-> Zeroed, of |-> frame'])
  /\ at' = (at + 1) % DATA_PACKAGE
  /\ sigio' = 1
  /\ UNCHANGED <<process, wait_flag, filters, total>>

Init ==
  /\ pc = "open"
  /\ wait_flag = WAITING
  /\ sigio = 0
  /\ tty = <<>>
  /\ buf = [i \in Places |-> ZeroByte]
  /\ hlw_buff = [i \in Places |-> ZeroByte]
  /\ res = 0
  /\ arr = [c \in Channels |-> <<0, 0, 0>>]
  /\ arrCnt = [c \in Channels |-> 0]
  /\ powerNewFlag = 1
  /\ energy = 0 /\ energyLast = 0 /\ energyFlowFlag = 0
  /\ last = NoCount
  /\ frame = ZeroByte.of
  /\ at \in Places
  /\ sent = 0 /\ noise = 0

Next ==
  \/ Open \/ MakeAsync \/ SetPort
  \/ Wake \/ Read \/ Copy \/ Rearm
  \/ Reject \/ DealNormal \/ DealUncalibrated \/ DealFault
  \/ signal_handler_IO
  \/ SendByte

Spec == Init /\ [][Next]_vars

-----------------------------------------------------------------------------
(* Properties.                                                               *)

\* Types of the process's variables and of what is on the line.
TypeOK ==
  /\ pc \in Locations
  /\ wait_flag \in {WAITING, ARRIVED} /\ sigio \in {0, 1}
  /\ tty \in Seq(Byte)
  /\ buf \in [Places -> Byte]
  /\ hlw_buff \in [Places -> Byte]
  /\ res \in -1..Wanted
  /\ arr \in [Channels -> [1..3 -> Nat]]
  /\ arrCnt \in [Channels -> 0..(COUNT_NUM - 1)]
  /\ powerNewFlag \in {0, 1}
  /\ energy \in Nat /\ energyLast \in 0..(ENERGY_FLOW_NUM - 1) /\ energyFlowFlag \in {0, 1}
  /\ last \in Counter
  /\ frame \in Frame
  /\ at \in Places
  /\ sent \in Nat /\ noise \in Nat

\* runingInf.energy continues the 16-bit counter: within the width of an unsigned long it
\* is ten times the pulses up to energyLast in the turn of the last frame counted,
\* whatever frames were lost or read twice.
EnergyExact ==
  /\ energy = (10 * (last.base + energyLast)) % UlongModulus
  /\ energyFlowFlag = last.flow
  /\ energyLast \in {0, last.cnt}

\* What an overflow puts off is made good: counting a frame of the same turn as the one
\* before leaves the energy at exactly ten times the pulses that frame reports.
EnergySettles ==
  [][DealNormal /\ last'.base = last.base
       => energy' = (10 * (last'.base + last'.cnt)) % UlongModulus]_vars

\* A single sample that differs from two equal ones before it does not change a filtered
\* value; only a drop of the power by more than a quarter passes at once.
SpikeHidden ==
  [][\A c \in Channels :
       arr[c][1] = arr[c][2] =>
         \/ getVIPvalue(arr'[c]) = arr[c][1]
         \/ c = "P" /\ arr'[c][1] > arr[c][1] + arr[c][1] \div 4]_vars

\* deal_data is an endless loop (its comment, line 627): no frame kills the process.
Endless == pc # "killed"
=============================================================================
