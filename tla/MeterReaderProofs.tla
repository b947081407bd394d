-------------------------- MODULE MeterReaderProofs --------------------------
(***************************************************************************)
(* Proofs about MeterReader, for frames and counters of any size.          *)
(***************************************************************************)
EXTENDS MeterReader, SequenceTheorems, TLAPS

\* c comes no later than d in the life of the meter's counter.
NotAfter(c, d) ==
  \/ c.base = d.base /\ c.flow = d.flow /\ c.cnt <= d.cnt
  \/ d.base = c.base + ENERGY_FLOW_NUM /\ c.flow # d.flow
  \/ d.base >= c.base + 2 * ENERGY_FLOW_NUM

\* c comes no later than any byte that is still to be decoded.
Below(c) ==
  /\ NotAfter(c, frame.count)
  /\ \A i \in Covered : NotAfter(c, buf[i].of.count)
  /\ \A j \in 1..Len(tty) : NotAfter(c, tty[j].of.count)

\* Bytes keep their order from the line through buf and hlw_buff to the energy total,
\* so that the frame decoded next is not older than the one counted last, and the meter
\* is at most one overflow ahead of that.
OrderInv ==
  /\ Below(last)
  /\ Whole(hlw_buff) => Below(hlw_buff[2].of.count) /\ NotAfter(last, hlw_buff[2].of.count)
  /\ \A i \in Places : /\ NotAfter(buf[i].of.count, frame.count)
                       /\ \A j \in 1..Len(tty) : NotAfter(buf[i].of.count, tty[j].of.count)
  /\ \A j \in 1..Len(tty) : /\ NotAfter(tty[j].of.count, frame.count)
                             /\ \A k \in j..Len(tty) : NotAfter(tty[j].of.count, tty[k].of.count)
  /\ frame.count.base <= last.base + ENERGY_FLOW_NUM

-----------------------------------------------------------------------------
(* The order of counters.                                                    *)

LEMMA NotAfterReflexive == \A c \in Counter : NotAfter(c, c)
BY DEF NotAfter, Counter

LEMMA NotAfterTransitive ==
  ASSUME NEW c \in Counter, NEW d \in Counter, NEW e \in Counter,
         NotAfter(c, d), NotAfter(d, e)
  PROVE  NotAfter(c, e)
BY MeterAssumption DEF NotAfter, Counter

\* The counter only moves on from one frame to the next.
LEMMA CounterAdvances ==
  ASSUME frame \in Frame, last \in Counter, NEW c \in NextCounts
  PROVE  /\ c \in Counter
         /\ NotAfter(frame.count, c)
         /\ \/ c.base = frame.count.base
            \/ frame.count.base = last.base /\ c.base = last.base + ENERGY_FLOW_NUM
<1> DEFINE f == frame.count
<1>1. f \in Counter
  BY DEF Frame
<1>2. CASE \E n \in f.cnt..(ENERGY_FLOW_NUM - 1) : c = [f EXCEPT !.cnt = n]
  <2>1. PICK n \in f.cnt..(ENERGY_FLOW_NUM - 1) : c = [f EXCEPT !.cnt = n]
    BY <1>2
  <2>2. n \in 0..(ENERGY_FLOW_NUM - 1) /\ f.cnt <= n
    BY <1>1, MeterAssumption DEF Counter
  <2>3. c = [base |-> f.base, cnt |-> n, flow |-> f.flow]
    BY <1>1, <2>1 DEF Counter
  <2>4. c \in Counter
    BY <1>1, <2>2, <2>3 DEF Counter
  <2>5. c.base = f.base /\ c.flow = f.flow /\ c.cnt = n
    BY <2>3
  <2>6. NotAfter(f, c)
    BY <1>1, <2>2, <2>5 DEF NotAfter
  <2> QED
    BY <2>4, <2>5, <2>6
<1>3. CASE \E n \in IF f.base = last.base THEN 0..(ENERGY_FLOW_NUM - 1) ELSE {} :
             c = [base |-> f.base + ENERGY_FLOW_NUM, cnt |-> n, flow |-> 1 - f.flow]
  <2>1. PICK n \in 0..(ENERGY_FLOW_NUM - 1) :
          c = [base |-> f.base + ENERGY_FLOW_NUM, cnt |-> n, flow |-> 1 - f.flow]
    BY <1>3
  <2>2. f.base = last.base
    BY <1>3
  <2> QED
    BY <1>1, <2>1, <2>2, MeterAssumption DEF Counter, NotAfter
<1> QED
  BY <1>2, <1>3 DEF NextCounts

-----------------------------------------------------------------------------
(* The filters.                                                              *)

\* Two equal entries outvote the third.
LEMMA MajorityWins ==
  ASSUME NEW a \in [1..3 -> Nat], NEW i \in 1..3, NEW j \in 1..3, i # j, a[i] = a[j]
  PROVE  getVIPvalue(a) = a[i]
<1> DEFINE mx == maxIndex(a)
           mn == minIndex(a)
<1>1. mx \in 1..3 /\ \A k \in 1..3 : a[k] < a[mx] \/ (a[k] = a[mx] /\ k <= mx)
  <2>1. \E m \in 1..3 : \A k \in 1..3 : a[k] < a[m] \/ (a[k] = a[m] /\ k <= m)
    <3> a[1] \in Nat /\ a[2] \in Nat /\ a[3] \in Nat
      OBVIOUS
    <3> QED
      OBVIOUS
  <2> QED
    BY <2>1 DEF maxIndex
<1>2. mn \in 1..3 /\ \A k \in 1..3 : a[mn] < a[k] \/ (a[mn] = a[k] /\ mn <= k)
  <2>1. \E m \in 1..3 : \A k \in 1..3 : a[m] < a[k] \/ (a[m] = a[k] /\ m <= k)
    <3> a[1] \in Nat /\ a[2] \in Nat /\ a[3] \in Nat
      OBVIOUS
    <3> QED
      OBVIOUS
  <2> QED
    BY <2>1 DEF minIndex
<1> DEFINE Rest == 1..3 \ {mx, mn}
           md == CHOOSE m \in Rest : \A k \in Rest : m <= k
<1>3. getVIPvalue(a) = a[md]
  BY DEF getVIPvalue
<1> HIDE DEF mx, mn
<1>4. md \in Rest
  <2>1. \E m \in Rest : \A k \in Rest : m <= k
    BY <1>1, <1>2
  <2> QED
    BY <2>1
<1> HIDE DEF md
<1>5. a[md] = a[i]
  BY <1>1, <1>2, <1>4
<1> QED
  BY <1>3, <1>5

-----------------------------------------------------------------------------
(* Types.                                                                    *)

LEMMA ZeroByteType == ZeroByte \in Byte /\ NoCount \in Counter
BY MeterAssumption DEF ZeroByte, Byte, Frame, Counter, Reading, NoCount, Zeroed

LEMMA InitTypes == Init => TypeOK
<1> SUFFICES ASSUME Init PROVE TypeOK
  OBVIOUS
<1>1. buf \in [Places -> Byte] /\ hlw_buff \in [Places -> Byte] /\ tty \in Seq(Byte)
  BY ZeroByteType DEF Init
<1>2. frame \in Frame /\ last \in Counter
  BY ZeroByteType DEF Init, Byte
<1>3. arr \in [Channels -> [1..3 -> Nat]]
  BY DEF Init
<1> QED
  BY <1>1, <1>2, <1>3, MeterAssumption
  DEF Init, TypeOK, Locations, Wanted, COUNT_NUM, WAITING, ARRIVED

\* What a read leaves in buf and in the queue.
LEMMA GotTypes ==
  ASSUME TypeOK, NEW n \in 0..Len(tty), n <= Wanted, Got(n)
  PROVE  /\ buf' \in [Places -> Byte]
         /\ tty' \in Seq(Byte)
         /\ Len(tty') = Len(tty) - n
         /\ \A j \in 1..Len(tty') : tty'[j] = tty[n + j]
         /\ \A i \in Places : buf'[i] = IF i < n THEN tty[i + 1] ELSE buf[i]
         /\ res' \in -1..Wanted
         /\ pc' = "copy"
<1>1. \A i \in Places : i < n => tty[i + 1] \in Byte
  BY MeterAssumption DEF TypeOK, Places
<1>2. buf' \in [Places -> Byte] /\ \A i \in Places : buf'[i] = IF i < n THEN tty[i + 1] ELSE buf[i]
  BY <1>1 DEF Got, Fill, TypeOK
<1>3. tty \in Seq(Byte) /\ Len(tty) \in Nat
  BY DEF TypeOK
<1>4. tty' = SubSeq(tty, n + 1, Len(tty))
  BY DEF Got
<1>5. tty' \in Seq(Byte) /\ Len(tty') = Len(tty) - n
      /\ \A j \in 1..Len(tty') : tty'[j] = tty[n + j]
  BY <1>3, <1>4
<1>6. res' \in -1..Wanted
  BY <1>3, MeterAssumption DEF Got, Wanted
<1> QED
  BY <1>2, <1>5, <1>6 DEF Got

\* The filters keep three samples per channel.
LEMMA FilterTypes ==
  ASSUME TypeOK, NEW r \in Reading, NEW served \in SUBSET Channels, Filter(r, served)
  PROVE  /\ arr' \in [Channels -> [1..3 -> Nat]]
         /\ arrCnt' \in [Channels -> 0..(COUNT_NUM - 1)]
         /\ powerNewFlag' \in {0, 1}
<1>1. \A c \in Channels : Filtered(c, r) \in [1..3 -> Nat]
  <2> SUFFICES ASSUME NEW c \in Channels PROVE Filtered(c, r) \in [1..3 -> Nat]
    OBVIOUS
  <2>1. arr[c] \in [1..3 -> Nat] /\ r.t[c] \in Nat
    BY DEF TypeOK, Reading
  <2>2. updataVIPvalue(arr[c], r.t[c]) \in [1..3 -> Nat]
    BY <2>1 DEF updataVIPvalue
  <2>3. resetVIPvalue(r.t[c]) \in [1..3 -> Nat]
    BY <2>1 DEF resetVIPvalue
  <2> QED
    BY <2>1, <2>2, <2>3 DEF Filtered
<1>2. arr' \in [Channels -> [1..3 -> Nat]]
  BY <1>1 DEF Filter, TypeOK
<1>3. \A c \in Channels : Enters(c, r.t[c])
  BY DEF Enters, TypeOK, COUNT_NUM
<1>4. arrCnt' = [c \in Channels |-> 0]
  BY <1>3 DEF Filter, TypeOK, COUNT_NUM
<1>5. powerNewFlag' \in {0, 1}
  BY DEF Filter, TypeOK
<1> QED
  BY <1>2, <1>4, <1>5 DEF COUNT_NUM

\* The frame in hlw_buff.
LEMMA DecodedTypes ==
  ASSUME TypeOK
  PROVE  hlw_buff[2].of.r \in Reading /\ hlw_buff[2].of.count \in Counter
<1>1. 2 \in Places
  BY MeterAssumption DEF Places
<1> QED
  BY <1>1 DEF TypeOK, Byte, Frame

-----------------------------------------------------------------------------
(* Arithmetic of unsigned words.                                             *)

\* A word that does not wrap around.
LEMMA NoWrap == ASSUME NEW m \in Nat, NEW x \in Nat, x < m PROVE x % m = x
OBVIOUS

LEMMA Division ==
  ASSUME NEW m \in Nat, m > 0, NEW a \in Nat
  PROVE  a = m * (a \div m) + (a % m) /\ a % m \in 0..(m - 1) /\ a \div m \in Nat
OBVIOUS

LEMMA RemainderNotLarger ==
  ASSUME NEW m \in Nat, m > 0, NEW q \in Nat, NEW k \in Nat, q > k,
         NEW r \in 0..(m - 1), NEW s \in 0..(m - 1), m * q + r = m * k + s
  PROVE  FALSE
<1>1. PICK d \in Nat : q = k + 1 + d
  OBVIOUS
<1>2. m * q = m * k + m + m * d
  BY <1>1
<1>3. m * d \in Nat /\ m * k \in Nat
  OBVIOUS
<1> QED
  BY <1>2, <1>3

LEMMA RemainderUnique ==
  ASSUME NEW m \in Nat, m > 0, NEW q \in Nat, NEW k \in Nat,
         NEW r \in 0..(m - 1), NEW s \in 0..(m - 1), m * q + r = m * k + s
  PROVE  r = s
<1>1. CASE q = k
  BY <1>1
<1>2. ~(q > k) /\ ~(k > q)
  BY RemainderNotLarger
<1> QED
  BY <1>1, <1>2

\* Wrapping around before an addition or after it gives the same.
LEMMA WrapLater ==
  ASSUME NEW m \in Nat, m > 0, NEW a \in Nat, NEW b \in Nat
  PROVE  ((a % m) + b) % m = (a + b) % m
<1> DEFINE q == a \div m
           r == a % m
           p == (r + b) \div m
           s == (r + b) % m
           k == (a + b) \div m
           t == (a + b) % m
<1>1. a = m * q + r /\ q \in Nat /\ r \in 0..(m - 1)
  BY Division
<1>2. r + b = m * p + s /\ p \in Nat /\ s \in 0..(m - 1)
  BY <1>1, Division
<1>3. a + b = m * k + t /\ k \in Nat /\ t \in 0..(m - 1)
  BY Division
<1> HIDE DEF q, r, p, s, k, t
<1>4. m * (q + p) = m * q + m * p
  BY <1>1, <1>2
<1>5. m * q \in Nat /\ m * p \in Nat /\ m * k \in Nat /\ q + p \in Nat
  BY <1>1, <1>2, <1>3
<1>6. m * (q + p) + s = m * k + t
  BY <1>1, <1>2, <1>3, <1>4, <1>5
<1>7. s = t
  BY <1>2, <1>3, <1>5, <1>6, RemainderUnique
<1> QED
  BY <1>7 DEF s, t, r

LEMMA CountTypes ==
  ASSUME TypeOK, NEW c \in Counter, Count(c)
  PROVE  /\ energy' \in Nat
         /\ energyLast' \in 0..(ENERGY_FLOW_NUM - 1)
         /\ energyFlowFlag' \in {0, 1}
         /\ last' \in Counter
<1>1. energyCurrent(c) \in 0..(ENERGY_FLOW_NUM - 1)
  BY MeterAssumption DEF energyCurrent, Counter
<1>2. \A x \in Int : x % UintModulus \in Nat
  BY MeterAssumption
<1>3. energy_cnt(c) \in Nat
  BY <1>1, <1>2, MeterAssumption DEF energy_cnt, TypeOK
<1>4. energy' \in Nat
  <2>1. energy_cnt(c) * 10 \in Int
    BY <1>3
  <2>2. (energy_cnt(c) * 10) % UintModulus \in Nat
    BY <1>2, <2>1
  <2>3. energy + ((energy_cnt(c) * 10) % UintModulus) \in Nat
    BY <2>2 DEF TypeOK
  <2> QED
    BY <2>3, MeterAssumption DEF Count
<1> QED
  BY <1>1, <1>4 DEF Count, LastAfter, FlowFlagAfter, Counter

LEMMA SendTypes ==
  ASSUME TypeOK, SendByte
  PROVE  /\ frame' \in Frame
         /\ at' \in Places
         /\ sent' \in Nat /\ noise' \in Nat
         /\ \E p \in 0..Zeroed : tty' = Append(tty, [place |-> p, of |-> frame'])
         /\ tty' \in Seq(Byte)
<1>1. frame' \in Frame
  <2>1. CASE at = 0
    <3>1. PICK c \in NextCounts, r \in Readings[sent + 1] : frame' = [count |-> c, r |-> r]
      BY <2>1 DEF SendByte, NextFrames
    <3>2. c \in Counter
      BY CounterAdvances DEF TypeOK
    <3>3. sent + 1 \in 1..MaxFrames
      BY <2>1, MeterAssumption DEF SendByte, TypeOK
    <3>4. r \in Reading
      BY <3>3, MeterAssumption
    <3> QED
      BY <3>1, <3>2, <3>4 DEF Frame
  <2> QED
    BY <2>1 DEF SendByte, TypeOK
<1>2. sent' \in Nat /\ noise' \in Nat
  BY DEF SendByte, TypeOK
<1>3. at' \in Places
  <2>1. at + 1 \in Nat /\ DATA_PACKAGE \in Nat /\ DATA_PACKAGE > 0 /\ at' = (at + 1) % DATA_PACKAGE
    BY MeterAssumption DEF SendByte, TypeOK, Places
  <2> QED
    BY <2>1 DEF Places
<1>4. PICK p \in 0..Zeroed : tty' = Append(tty, [place |-> p, of |-> frame'])
  <2>1. at \in 0..Zeroed /\ Zeroed \in 0..Zeroed
    BY MeterAssumption DEF TypeOK, Places, Zeroed
  <2> QED
    BY <2>1 DEF SendByte
<1>5. [place |-> p, of |-> frame'] \in Byte
  BY <1>1 DEF Byte
<1>6. tty' \in Seq(Byte)
  BY <1>4, <1>5 DEF TypeOK
<1> QED
  BY <1>1, <1>2, <1>3, <1>4, <1>6

LEMMA TypesKept == TypeOK /\ [Next]_vars => TypeOK'
<1> SUFFICES ASSUME TypeOK, [Next]_vars PROVE TypeOK'
  OBVIOUS
<1> USE DEF process, filters, total, line
<1>1. CASE Open
  BY <1>1 DEF Open, TypeOK, Locations
<1>2. CASE MakeAsync
  BY <1>2 DEF MakeAsync, TypeOK, Locations
<1>3. CASE SetPort
  BY <1>3 DEF SetPort, TypeOK, Locations
<1>4. CASE Wake
  BY <1>4 DEF Wake, TypeOK, Locations
<1>5. CASE Read
  <2>1. Available \in 0..Len(tty) /\ Available <= Wanted
    BY MeterAssumption DEF Available, TypeOK, Wanted
  <2>2. Got(Available) /\ UNCHANGED <<hlw_buff, wait_flag, sigio, filters, total, line>>
    BY <1>5 DEF Read
  <2> QED
    BY <2>1, <2>2, GotTypes DEF TypeOK, Locations
<1>6. CASE Copy
  <2>1. hlw_buff' \in [Places -> Byte]
    BY <1>6 DEF Copy, Copied, TypeOK
  <2> QED
    BY <1>6, <2>1 DEF Copy, TypeOK, Locations
<1>7. CASE Rearm
  BY <1>7 DEF Rearm, TypeOK, Locations
<1>8. CASE Reject
  BY <1>8 DEF Reject, Deal, TypeOK, Locations
<1>9. CASE DealNormal
  <2>1. /\ Filter(hlw_buff[2].of.r, Channels)
        /\ Count(hlw_buff[2].of.count)
        /\ Deal /\ pc' \in {"killed", "rearm"}
    BY <1>9 DEF DealNormal, AfterDivision, Decoded
  <2> QED
    BY <2>1, DecodedTypes, FilterTypes, CountTypes DEF Deal, TypeOK, Locations
<1>10. CASE DealUncalibrated
  BY <1>10 DEF DealUncalibrated, Deal, TypeOK, Locations
<1>11. CASE DealFault
  <2>1. PICK bad : /\ Filter(hlw_buff[2].of.r, Channels \ bad)
                   /\ Deal /\ pc' = "rearm" /\ UNCHANGED total
    BY <1>11 DEF DealFault, Decoded
  <2>2. Channels \ bad \in SUBSET Channels
    OBVIOUS
  <2> QED
    BY <2>1, <2>2, DecodedTypes, FilterTypes DEF Deal, TypeOK, Locations
<1>12. CASE signal_handler_IO
  <2>1. CASE pc = "read" /\ Len(tty) < DATA_PACKAGE
    <3>1. Len(tty) \in 0..Len(tty) /\ Len(tty) <= Wanted
      BY <2>1, MeterAssumption DEF TypeOK, Wanted
    <3>2. Got(Len(tty))
      BY <1>12, <2>1 DEF signal_handler_IO
    <3> QED
      BY <1>12, <3>1, <3>2, GotTypes DEF signal_handler_IO, TypeOK, Locations
  <2> QED
    BY <1>12, <2>1 DEF signal_handler_IO, TypeOK
<1>13. CASE SendByte
  <2>1. sigio' = 1 /\ UNCHANGED <<process, wait_flag, filters, total>>
    BY <1>13 DEF SendByte
  <2> QED
    BY <1>13, <2>1, SendTypes DEF TypeOK
<1>14. CASE UNCHANGED vars
  BY <1>14 DEF vars, TypeOK
<1> QED
  BY <1>1, <1>2, <1>3, <1>4, <1>5, <1>6, <1>7, <1>8, <1>9, <1>10, <1>11, <1>12, <1>13, <1>14
  DEF Next

-----------------------------------------------------------------------------
(* Order.                                                                    *)

LEMMA InitOrder == Init => OrderInv
<1> SUFFICES ASSUME Init PROVE OrderInv
  OBVIOUS
<1>1. NotAfter(NoCount, NoCount)
  BY ZeroByteType, NotAfterReflexive
<1>2. /\ tty = <<>> /\ last = NoCount /\ frame.count = NoCount
      /\ \A i \in Places : buf[i].of.count = NoCount
      /\ 2 \in Covered /\ hlw_buff[2].place = DATA_PACKAGE /\ Covered \subseteq Places
  BY MeterAssumption DEF Init, ZeroByte, Places, Covered, Zeroed
<1>3. ~Whole(hlw_buff)
  BY <1>2, MeterAssumption DEF Whole
<1>4. Below(last)
  BY <1>1, <1>2 DEF Below
<1>5. frame.count.base <= last.base + ENERGY_FLOW_NUM
  BY <1>2, MeterAssumption DEF NoCount
<1> QED
  BY <1>1, <1>2, <1>3, <1>4, <1>5 DEF OrderInv

LEMMA CountsTyped ==
  ASSUME TypeOK
  PROVE  /\ \A i \in Places : buf[i].of.count \in Counter
         /\ \A j \in 1..Len(tty) : tty[j].of.count \in Counter
         /\ frame.count \in Counter /\ last \in Counter
         /\ hlw_buff[2].of.count \in Counter
<1>1. \A b \in Byte : b.of.count \in Counter
  BY DEF Byte, Frame
<1>2. \A j \in 1..Len(tty) : tty[j] \in Byte
  BY DEF TypeOK
<1> QED
  BY <1>1, <1>2, DecodedTypes DEF TypeOK, Frame

\* A read moves bytes from the queue to buf and takes the oldest ones.
LEMMA OrderGot ==
  ASSUME TypeOK, OrderInv, NEW n \in 0..Len(tty), n <= Wanted, Got(n),
         UNCHANGED <<hlw_buff, last, frame>>
  PROVE  OrderInv'
<1>1. /\ Len(tty) \in Nat
      /\ Len(tty') = Len(tty) - n
      /\ \A j \in 1..Len(tty') : n + j \in 1..Len(tty) /\ tty'[j] = tty[n + j]
      /\ \A i \in Places : buf'[i] = IF i < n THEN tty[i + 1] ELSE buf[i]
  BY GotTypes DEF TypeOK
<1>2. \A i \in Places : i < n => i + 1 \in 1..n /\ i + 1 \in 1..Len(tty)
  BY <1>1, MeterAssumption DEF Places
<1>3. \A c : Below(c) => Below(c)'
  BY <1>1, <1>2 DEF Below, Covered
<1>4. \A i \in Places : NotAfter(buf'[i].of.count, frame.count)
  BY <1>1, <1>2 DEF OrderInv
<1>5. ASSUME NEW i \in Places, NEW j \in 1..Len(tty')
      PROVE  NotAfter(buf'[i].of.count, tty'[j].of.count)
  <2>1. n + j \in 1..Len(tty) /\ tty'[j] = tty[n + j]
    BY <1>1
  <2>2. CASE i < n
    <3>1. i + 1 \in 1..Len(tty) /\ n + j \in (i + 1)..Len(tty)
      BY <1>1, <1>2, <2>1, <2>2, MeterAssumption DEF Places
    <3> QED
      BY <1>1, <2>1, <2>2, <3>1 DEF OrderInv
  <2>3. CASE ~(i < n)
    BY <1>1, <2>1, <2>3 DEF OrderInv
  <2> QED
    BY <2>2, <2>3
<1>6. ASSUME NEW j \in 1..Len(tty'), NEW k \in j..Len(tty')
      PROVE  NotAfter(tty'[j].of.count, frame.count) /\ NotAfter(tty'[j].of.count, tty'[k].of.count)
  <2>1. k \in 1..Len(tty') /\ n + k \in (n + j)..Len(tty)
    BY <1>1
  <2> QED
    BY <1>1, <2>1 DEF OrderInv
<1>7. \A j \in 1..Len(tty') : NotAfter(tty'[j].of.count, frame.count)
  BY <1>1 DEF OrderInv
<1>8. Whole(hlw_buff)' = Whole(hlw_buff)
  BY DEF Whole
<1> QED
  BY <1>3, <1>4, <1>5, <1>6, <1>7, <1>8 DEF OrderInv

\* A whole packet in buf is no older than what was counted and no newer than the queue.
LEMMA OrderCopy == ASSUME TypeOK, OrderInv, Copy PROVE OrderInv'
<1>1. UNCHANGED <<buf, tty, last, frame>>
  BY DEF Copy, total, line
<1>2. CASE hlw_buff' = hlw_buff
  BY <1>1, <1>2 DEF OrderInv, Below, Whole
<1>3. CASE hlw_buff' = buf
  <2>1. 2 \in Covered /\ Covered \subseteq Places
    BY MeterAssumption DEF Places, Covered
  <2>2. ASSUME Whole(buf) PROVE Below(buf[2].of.count) /\ NotAfter(last, buf[2].of.count)
    <3>1. \A i \in Covered : buf[i].of.count = buf[2].of.count
      BY <2>2 DEF Whole
    <3>2. NotAfter(buf[2].of.count, buf[2].of.count)
      BY <2>1, CountsTyped, NotAfterReflexive
    <3> QED
      BY <2>1, <3>1, <3>2 DEF OrderInv, Below
  <2>3. Whole(hlw_buff)' => Below(buf[2].of.count) /\ NotAfter(last, buf[2].of.count)
    BY <1>3, <2>2 DEF Whole
  <2>4. \A c : Below(c)' = Below(c)
    BY <1>1 DEF Below
  <2> QED
    BY <1>1, <1>3, <2>3, <2>4 DEF OrderInv
<1> QED
  BY <1>2, <1>3 DEF Copy, Copied

\* Counting the frame in hlw_buff makes it the last one.
LEMMA OrderDeal == ASSUME TypeOK, OrderInv, DealNormal PROVE OrderInv'
<1> DEFINE c == hlw_buff[2].of.count
<1>1. UNCHANGED <<buf, tty, frame, hlw_buff>> /\ last' = c /\ Whole(hlw_buff)
  BY DEF DealNormal, Deal, line, Count, Decoded
<1>2. Below(c) /\ NotAfter(last, c) /\ NotAfter(c, c)
  BY <1>1, CountsTyped, NotAfterReflexive DEF OrderInv
<1>3. frame.count.base <= c.base + ENERGY_FLOW_NUM
  <2>1. c \in Counter /\ last \in Counter /\ frame.count \in Counter
    BY CountsTyped
  <2>2. last.base <= c.base
    <3>1. ENERGY_FLOW_NUM \in Nat /\ last.base \in Nat /\ c.base \in Nat
      BY <2>1, MeterAssumption DEF Counter
    <3> HIDE DEF c
    <3> QED
      BY <1>2, <3>1 DEF NotAfter
  <2>3. frame.count.base <= last.base + ENERGY_FLOW_NUM
    BY DEF OrderInv
  <2> HIDE DEF c
  <2> QED
    BY <2>1, <2>2, <2>3, MeterAssumption DEF Counter
<1>4. Below(last)'
  BY <1>1, <1>2 DEF Below
<1>5. Below(hlw_buff[2].of.count)' /\ NotAfter(last, hlw_buff[2].of.count)'
  BY <1>1, <1>2 DEF Below
<1>6. (frame.count.base <= last.base + ENERGY_FLOW_NUM)'
  BY <1>1, <1>3
<1> QED
  BY <1>1, <1>4, <1>5, <1>6 DEF OrderInv

\* A byte that arrives belongs to a frame no older than those before.
LEMMA OrderSend == ASSUME TypeOK, OrderInv, SendByte PROVE OrderInv'
<1>1. UNCHANGED <<buf, hlw_buff, last>>
  BY DEF SendByte, process, total
<1> DEFINE f == frame'.count
           N == Len(tty)
<1>2. /\ f \in Counter
      /\ NotAfter(frame.count, f)
      /\ f.base <= last.base + ENERGY_FLOW_NUM
  <2>1. CASE at = 0
    <3>1. PICK c \in NextCounts : f = c
      BY <2>1 DEF SendByte, NextFrames
    <3>2. /\ c \in Counter
          /\ NotAfter(frame.count, c)
          /\ \/ c.base = frame.count.base
             \/ frame.count.base = last.base /\ c.base = last.base + ENERGY_FLOW_NUM
      BY CounterAdvances DEF TypeOK
    <3>3. c.base <= last.base + ENERGY_FLOW_NUM
      <4>1. last.base + ENERGY_FLOW_NUM \in Nat
        BY CountsTyped, MeterAssumption DEF Counter
      <4> QED
        BY <3>2, <4>1 DEF OrderInv
    <3> QED
      BY <3>1, <3>2, <3>3
  <2>2. CASE at # 0
    <3>1. f = frame.count
      BY <2>2 DEF SendByte
    <3> QED
      BY <3>1, CountsTyped, NotAfterReflexive DEF OrderInv
  <2> QED
    BY <2>1, <2>2
<1>3. /\ N \in Nat
      /\ Len(tty') = N + 1
      /\ \A j \in 1..N : tty'[j] = tty[j]
      /\ tty'[N + 1].of.count = f
  <2>1. PICK p \in 0..Zeroed : tty' = Append(tty, [place |-> p, of |-> frame'])
    BY SendTypes
  <2> QED
    BY <2>1 DEF TypeOK
<1> HIDE DEF f, N
<1>4. \A c \in Counter : NotAfter(c, frame.count) => NotAfter(c, f)
  BY <1>2, CountsTyped, NotAfterTransitive
<1>5. \A j \in 1..(N + 1) : j \in 1..N \/ j = N + 1
  BY <1>3
<1>6. ASSUME NEW c \in Counter, Below(c) PROVE Below(c)'
  <2>1. NotAfter(c, f)
    BY <1>4, <1>6 DEF Below
  <2>2. \A j \in 1..(N + 1) : NotAfter(c, tty'[j].of.count)
    BY <1>3, <1>5, <1>6, <2>1 DEF Below, N
  <2> QED
    BY <1>1, <1>3, <1>6, <2>1, <2>2 DEF Below, f
<1>7. Below(last)'
  <2>1. last \in Counter /\ Below(last)
    BY CountsTyped DEF OrderInv
  <2> QED
    BY <1>1, <1>6, <2>1
<1>8. Whole(hlw_buff)' => Below(hlw_buff[2].of.count)' /\ NotAfter(last, hlw_buff[2].of.count)'
  <2>1. ASSUME Whole(hlw_buff)
        PROVE  /\ hlw_buff[2].of.count \in Counter
               /\ Below(hlw_buff[2].of.count)
               /\ NotAfter(last, hlw_buff[2].of.count)
    BY <2>1, CountsTyped DEF OrderInv
  <2>2. Whole(hlw_buff)' = Whole(hlw_buff)
    BY <1>1 DEF Whole
  <2> QED
    BY <1>1, <1>6, <2>1, <2>2
<1>9. ASSUME NEW i \in Places
      PROVE  /\ NotAfter(buf[i].of.count, f)
             /\ \A j \in 1..(N + 1) : NotAfter(buf[i].of.count, tty'[j].of.count)
  <2>1. NotAfter(buf[i].of.count, f)
    BY <1>4, CountsTyped DEF OrderInv
  <2> QED
    BY <1>3, <1>5, <2>1 DEF OrderInv, N
<1>10. ASSUME NEW j \in 1..(N + 1)
       PROVE  /\ NotAfter(tty'[j].of.count, f)
              /\ \A k \in j..(N + 1) : NotAfter(tty'[j].of.count, tty'[k].of.count)
  <2>1. CASE j \in 1..N
    <3>1. NotAfter(tty[j].of.count, f)
      BY <1>4, <2>1, CountsTyped DEF OrderInv, N
    <3>2. \A k \in j..(N + 1) : k \in j..N \/ k = N + 1
      BY <1>3
    <3>3. \A k \in j..N : k \in 1..N
      BY <1>3
    <3> QED
      BY <1>3, <2>1, <3>1, <3>2, <3>3 DEF OrderInv, N
  <2>2. CASE j = N + 1
    <3>1. \A k \in j..(N + 1) : k = N + 1
      BY <1>3, <2>2
    <3> QED
      BY <1>2, <1>3, <2>2, <3>1, NotAfterReflexive
  <2> QED
    BY <1>5, <2>1, <2>2
<1> QED
  BY <1>1, <1>2, <1>3, <1>7, <1>8, <1>9, <1>10 DEF OrderInv, f

LEMMA OrderKept == TypeOK /\ OrderInv /\ [Next]_vars => OrderInv'
<1> SUFFICES ASSUME TypeOK, OrderInv, [Next]_vars PROVE OrderInv'
  OBVIOUS
<1>1. ASSUME UNCHANGED <<buf, tty, hlw_buff, last, frame>> PROVE OrderInv'
  BY <1>1 DEF OrderInv, Below, Whole
<1>2. CASE Open \/ MakeAsync \/ Wake \/ Rearm \/ Reject \/ DealUncalibrated \/ DealFault \/ UNCHANGED vars
  BY <1>1, <1>2 DEF Open, MakeAsync, Wake, Rearm, Reject, DealUncalibrated, DealFault, Deal,
                    vars, process, total, line
<1>3. CASE SetPort
  <2>1. tty' = <<>> /\ UNCHANGED <<buf, hlw_buff, last, frame>>
    BY <1>3 DEF SetPort, total, line
  <2> QED
    BY <2>1 DEF OrderInv, Below, Whole
<1>4. CASE Read
  <2>1. Available \in 0..Len(tty) /\ Available <= Wanted
    BY MeterAssumption DEF Available, TypeOK, Wanted
  <2> QED
    BY <1>4, <2>1, OrderGot DEF Read, total, line
<1>5. CASE signal_handler_IO
  <2>1. CASE pc = "read" /\ Len(tty) < DATA_PACKAGE
    <3>1. Len(tty) \in 0..Len(tty) /\ Len(tty) <= Wanted
      BY <2>1, MeterAssumption DEF TypeOK, Wanted
    <3> QED
      BY <1>5, <2>1, <3>1, OrderGot DEF signal_handler_IO, total, line
  <2> QED
    BY <1>1, <1>5, <2>1 DEF signal_handler_IO, total, line
<1> QED
  BY <1>2, <1>3, <1>4, <1>5, OrderCopy, OrderDeal, OrderSend DEF Next

-----------------------------------------------------------------------------
(* The energy total.                                                         *)

\* Counting the frame in hlw_buff: at most one overflow lies between it and the last.
LEMMA CountedExactly ==
  ASSUME TypeOK, OrderInv, EnergyExact, DealNormal
  PROVE  /\ EnergyExact'
         /\ last'.base = last.base => energy' = (10 * (last'.base + last'.cnt)) % UlongModulus
<1> DEFINE c == hlw_buff[2].of.count
           M == ENERGY_FLOW_NUM
<1>1. /\ Whole(hlw_buff) /\ last' = c
      /\ energy' = (energy + ((energy_cnt(c) * 10) % UintModulus)) % UlongModulus
      /\ energyLast' = energyCurrent(c)
      /\ energyFlowFlag' = c.flow
  BY DEF DealNormal, Count, LastAfter, FlowFlagAfter, Decoded
<1>2. c \in Counter /\ last \in Counter /\ frame.count \in Counter
  BY CountsTyped
<1>3. NotAfter(last, c) /\ NotAfter(c, frame.count) /\ frame.count.base <= last.base + M
  BY <1>1 DEF OrderInv, Below
<1> HIDE DEF c
<1>4. /\ c.base \in Nat /\ c.cnt \in 0..(M - 1) /\ c.flow \in {0, 1}
      /\ last.base \in Nat /\ last.cnt \in 0..(M - 1) /\ last.flow \in {0, 1}
      /\ frame.count.base \in Nat
      /\ M \in Nat /\ M > 1 /\ UintModulus \in Nat /\ UintModulus > 20 * M
      /\ UlongModulus \in Nat /\ UlongModulus > 0
  BY <1>2, MeterAssumption DEF Counter
<1>5. c.base <= last.base + M
  BY <1>3, <1>4 DEF NotAfter
<1>6. /\ energy \in Nat /\ energyLast \in 0..(M - 1)
      /\ energy = (10 * (last.base + energyLast)) % UlongModulus
      /\ energyFlowFlag = last.flow
      /\ energyLast <= last.cnt
  BY <1>4 DEF TypeOK, EnergyExact
<1>7. ASSUME NEW x \in Nat, x <= 2 * M, energy_cnt(c) = x % UintModulus
      PROVE  energy' = (10 * (last.base + energyLast) + 10 * x) % UlongModulus
  <2>0. x < UintModulus /\ x * 10 \in Nat /\ x * 10 < UintModulus
    BY <1>4, <1>7
  <2>1. energy_cnt(c) = x
    BY <1>4, <1>7, <2>0, NoWrap
  <2>2. (x * 10) % UintModulus = x * 10
    BY <1>4, <2>0, NoWrap
  <2>3. energy' = (energy + 10 * x) % UlongModulus
    BY <1>1, <1>7, <2>1, <2>2
  <2>4. 10 * (last.base + energyLast) \in Nat /\ 10 * x \in Nat
    BY <1>4, <1>6
  <2> QED
    BY <1>4, <1>6, <2>3, <2>4, WrapLater
<1>8. CASE c.base = last.base
  <2>1. c.flow = last.flow /\ last.cnt <= c.cnt
    BY <1>3, <1>4, <1>8 DEF NotAfter
  <2>2. energyCurrent(c) = c.cnt /\ energy_cnt(c) = (c.cnt - energyLast) % UintModulus
    BY <1>6, <2>1 DEF energyCurrent, energy_cnt, FlowChanged
  <2>3. c.cnt - energyLast \in Nat /\ c.cnt - energyLast <= 2 * M
    BY <1>4, <1>6, <2>1
  <2>4. energy' = (10 * (last.base + energyLast) + 10 * (c.cnt - energyLast)) % UlongModulus
    BY <1>7, <2>2, <2>3
  <2>5. 10 * (last.base + energyLast) + 10 * (c.cnt - energyLast) = 10 * (c.base + c.cnt)
    BY <1>4, <1>6, <1>8
  <2>6. energy' = (10 * (c.base + c.cnt)) % UlongModulus
    BY <2>4, <2>5
  <2> QED
    BY <1>1, <2>2, <2>6 DEF EnergyExact
<1>9. CASE c.base # last.base
  <2>1. c.base = last.base + M /\ c.flow # last.flow
    BY <1>3, <1>4, <1>5, <1>9 DEF NotAfter
  <2> DEFINE cur == energyCurrent(c)
  <2>2. cur \in {0, c.cnt} /\ cur <= energyLast /\ cur \in Nat
    BY <1>4, <1>6, <2>1 DEF energyCurrent, FlowChanged
  <2>3. energy_cnt(c) = (cur + M - energyLast) % UintModulus
    BY <1>6, <2>1 DEF energy_cnt, FlowChanged
  <2> HIDE DEF cur
  <2>4. cur + M - energyLast \in Nat /\ cur + M - energyLast <= 2 * M
    BY <1>4, <1>6, <2>2
  <2>5. energy' = (10 * (last.base + energyLast) + 10 * (cur + M - energyLast)) % UlongModulus
    BY <1>7, <2>3, <2>4
  <2>6. 10 * (last.base + energyLast) + 10 * (cur + M - energyLast) = 10 * (c.base + cur)
    <3>1. last.base \in Nat /\ energyLast \in Int /\ cur \in Nat /\ M \in Nat
      BY <1>4, <1>6, <2>2
    <3> QED
      BY <2>1, <3>1
  <2>7. energy' = (10 * (c.base + cur)) % UlongModulus
    BY <2>5, <2>6
  <2> QED
    BY <1>1, <1>9, <2>2, <2>7 DEF EnergyExact, cur
<1> QED
  BY <1>8, <1>9

LEMMA EnergyKept == TypeOK /\ OrderInv /\ EnergyExact /\ [Next]_vars => EnergyExact'
<1> SUFFICES ASSUME TypeOK, OrderInv, EnergyExact, [Next]_vars PROVE EnergyExact'
  OBVIOUS
<1>1. ASSUME UNCHANGED total PROVE EnergyExact'
  BY <1>1 DEF EnergyExact, total
<1>2. CASE DealNormal
  BY <1>2, CountedExactly
<1>3. CASE UNCHANGED vars
  BY <1>1, <1>3 DEF vars, total
<1> QED
  BY <1>1, <1>2, <1>3
  DEF Next, Open, MakeAsync, SetPort, Wake, Read, Copy, Rearm, Reject, DealUncalibrated, DealFault,
      signal_handler_IO, SendByte

\* Types hold.
THEOREM MeterTypes == Spec => []TypeOK
<1> QED
  BY InitTypes, TypesKept, PTL DEF Spec

\* For frames and counters of any size, the energy total continues the meter's counter
\* over its overflows, through short reads, frames lost, decoded twice or garbled.
THEOREM EnergyAlwaysExact == Spec => []EnergyExact
<1>1. Init => EnergyExact
  BY MeterAssumption DEF Init, EnergyExact, NoCount
<1> QED
  BY <1>1, InitTypes, TypesKept, InitOrder, OrderKept, EnergyKept, PTL DEF Spec

\* Counting a frame of the same turn as the one before makes good what was put off.
THEOREM EnergyAlwaysSettles == Spec => EnergySettles
<1>1. TypeOK /\ OrderInv /\ EnergyExact
        => [DealNormal /\ last'.base = last.base
              => energy' = (10 * (last'.base + last'.cnt)) % UlongModulus]_vars
  BY CountedExactly
<1>2. Init => EnergyExact
  BY MeterAssumption DEF Init, EnergyExact, NoCount
<1> QED
  BY <1>1, <1>2, InitTypes, TypesKept, InitOrder, OrderKept, EnergyKept, PTL
  DEF Spec, EnergySettles

-----------------------------------------------------------------------------
(* Spikes.                                                                   *)

\* What one decoded frame does to a channel with two equal samples.
LEMMA FilteredKeeps ==
  ASSUME TypeOK, NEW r \in Reading, NEW c \in Channels, arr[c][1] = arr[c][2]
  PROVE  \/ getVIPvalue(Filtered(c, r)) = arr[c][1]
         \/ c = "P" /\ Filtered(c, r)[1] > arr[c][1] + arr[c][1] \div 4
<1> DEFINE a == arr[c]
           dat == r.t[c]
<1>1. a \in [1..3 -> Nat] /\ dat \in Nat
  BY DEF TypeOK, Reading
<1>2. getVIPvalue(a) = a[1]
  BY <1>1, MajorityWins
<1>3. CASE Filtered(c, r) = a
  BY <1>2, <1>3
<1>4. CASE Filtered(c, r) = updataVIPvalue(a, dat)
  <2> DEFINE b == <<dat, a[1], a[2]>>
  <2>1. b \in [1..3 -> Nat] /\ b[2] = b[3] /\ b[2] = a[1]
    BY <1>1
  <2> HIDE DEF b
  <2>2. 2 \in 1..3 /\ 3 \in 1..3 /\ 2 # 3
    OBVIOUS
  <2>3. getVIPvalue(b) = b[2]
    BY <2>1, <2>2, MajorityWins
  <2> QED
    BY <1>4, <2>1, <2>3 DEF updataVIPvalue, b
<1>5. CASE c = "P" /\ Dropped(a, dat) /\ Filtered(c, r) = resetVIPvalue(dat)
  <2>1. dat - a[1] > a[1] \div 4
    BY <1>2, <1>5 DEF Dropped
  <2>2. a[1] \in Nat /\ a[1] \div 4 \in Nat
    BY <1>1
  <2>3. dat > a[1] + a[1] \div 4
    BY <1>1, <2>1, <2>2
  <2>4. Filtered(c, r)[1] = dat
    BY <1>5 DEF resetVIPvalue
  <2> QED
    BY <1>5, <2>3, <2>4
<1> QED
  BY <1>3, <1>4, <1>5 DEF Filtered

\* A single deviating sample never changes a filtered value, however the frames come,
\* apart from a drop of the power by more than a quarter.
THEOREM SpikesAlwaysHidden == Spec => SpikeHidden
<1> DEFINE Keeps(c) ==
      arr[c][1] = arr[c][2] =>
        \/ getVIPvalue(arr'[c]) = arr[c][1]
        \/ c = "P" /\ arr'[c][1] > arr[c][1] + arr[c][1] \div 4
<1>1. TypeOK /\ [Next]_vars => [\A c \in Channels : Keeps(c)]_vars
  <2> SUFFICES ASSUME TypeOK, Next, NEW c \in Channels, arr[c][1] = arr[c][2]
               PROVE  \/ getVIPvalue(arr'[c]) = arr[c][1]
                      \/ c = "P" /\ arr'[c][1] > arr[c][1] + arr[c][1] \div 4
    OBVIOUS
  <2>1. CASE UNCHANGED arr
    <3>1. arr[c] \in [1..3 -> Nat]
      BY DEF TypeOK
    <3>2. getVIPvalue(arr[c]) = arr[c][1]
      BY <3>1, MajorityWins
    <3> QED
      BY <2>1, <3>2
  <2>2. ASSUME NEW r \in Reading, NEW served, Filter(r, served)
        PROVE  \/ getVIPvalue(arr'[c]) = arr[c][1]
               \/ c = "P" /\ arr'[c][1] > arr[c][1] + arr[c][1] \div 4
    <3>1. arr'[c] = arr[c] \/ arr'[c] = Filtered(c, r)
      BY <2>2 DEF Filter
    <3>2. arr[c] \in [1..3 -> Nat]
      BY DEF TypeOK
    <3>3. getVIPvalue(arr[c]) = arr[c][1]
      BY <3>2, MajorityWins
    <3> QED
      BY <3>1, <3>3, FilteredKeeps
  <2>3. CASE DealNormal
    <3>1. Filter(hlw_buff[2].of.r, Channels)
      BY <2>3 DEF DealNormal, Decoded
    <3>2. hlw_buff[2].of.r \in Reading
      BY DecodedTypes
    <3> QED
      BY <2>2, <3>1, <3>2
  <2>4. CASE DealFault
    <3>1. PICK bad : Filter(hlw_buff[2].of.r, Channels \ bad)
      BY <2>4 DEF DealFault, Decoded
    <3>2. hlw_buff[2].of.r \in Reading
      BY DecodedTypes
    <3> QED
      BY <2>2, <3>1, <3>2
  <2> QED
    BY <2>1, <2>3, <2>4
    DEF Next, Open, MakeAsync, SetPort, Wake, Read, Copy, Rearm, Reject, DealUncalibrated,
        signal_handler_IO, SendByte, filters
<1> QED
  BY <1>1, InitTypes, TypesKept, PTL DEF Spec, SpikeHidden
=============================================================================
