------------------------------ MODULE BmStream -------------------------------
(***************************************************************************)
(* The byte transport of examples/baremetal-chunk: a receive ring filled by *)
(* an interrupt and a transmit ring drained into the hardware, by the main  *)
(* loop (bm_send, transport_bm_poll) and, if TxIsr, by the transmit         *)
(* interrupt.  One step is one critical section, or one call of the         *)
(* hardware between two of them.                                            *)
(*                                                                         *)
(* bm_init clears the whole context, and with it the operations and sizes   *)
(* stored before it: InitKeeps = FALSE is the code.  InitKeeps = TRUE is     *)
(* the code with that memset removed, so that the drain can be studied.     *)
(***************************************************************************)
EXTENDS Integers, Sequences

CONSTANTS
  RingMax,               (* BM_RX_RING_MAX = BM_TX_RING_MAX                   *)
  SizesAsked,            (* arguments of transport_bm_set_buffer_sizes, or 0  *)
  InitKeeps, TxIsr,
  ReadLens, BmFrameLens, (* lengths of reads and of frames                   *)
  Arrivals,              (* lengths of the received pieces                   *)
  MaxArrived, MaxBmFrames (* bounds of a run                                 *)

Word == 0..65535         (* uint16_t, the type of the sizes and capacities     *)

ASSUME RingAssumption ==
  /\ RingMax \in Word \ {0, 1} /\ SizesAsked \subseteq Word
  /\ {InitKeeps, TxIsr} \subseteq BOOLEAN
  /\ UNION {ReadLens, BmFrameLens, Arrivals} \subseteq Nat

VARIABLES
  bmAsked, cap, ops,           (* requested size; rx_cap = tx_cap; ops # NULL *)
  rxBuf, rxHead, rxTail,
  txBuf, txHead, txTail,
  at, seen, first, wrote,      (* per context: where it is, tail and length   *)
                               (* looked up, bytes the hardware took          *)
  arrived, bmReceived,         (* history: bytes accepted from the hardware, read *)
  bmFrames, bmQueued, bmWire   (* history: frames tried, bytes queued, taken  *)

bmRxVars == <<rxBuf, rxHead, rxTail, arrived, bmReceived>>
bmTxVars == <<txBuf, txHead, txTail, at, seen, first, wrote, bmFrames, bmQueued, bmWire>>
bmVars   == <<bmAsked, cap, ops, bmRxVars, bmTxVars>>

AtMost(m, n) == IF m < n THEN m ELSE n

-----------------------------------------------------------------------------
(* Ring arithmetic.  Unsigned subtraction masked with cap-1 is the remainder *)
(* as long as cap is a power of two.                                         *)

ring_count(head, tail) == (head - tail) % cap
ring_space(head, tail) == cap - 1 - ring_count(head, tail)

Content(buf, head, tail) == [i \in 1..ring_count(head, tail) |-> buf[(tail + i - 1) % cap]]

Written(buf, head, data) ==
  [i \in 0..cap-1 |-> IF (i - head) % cap < Len(data) THEN data[((i - head) % cap) + 1] ELSE buf[i]]

(* round_up_pow2_u32, round_down_pow2_u32.  A word is the set of its bits that  *)
(* are one, so that | is the union; sixteen bits are enough for a uint16_t.    *)
Bits(x)      == {i \in 0..15 : (x \div 2^i) % 2 = 1}
Number(bits) == CHOOSE x \in Word : Bits(x) = bits
shiftR(bits, n) == {i \in 0..15 : i + n \in bits}

SmearedBits(bits) ==
  LET a == bits \cup shiftR(bits, 1)
      b == a \cup shiftR(a, 2)
      c == b \cup shiftR(b, 4)
  IN  c \cup shiftR(c, 8)

Smeared(x)   == Number(SmearedBits(Bits(x)))
RoundUp(x)   == IF x <= 2 THEN 2 ELSE Smeared(x - 1) + 1
RoundDown(x) == IF x < 2 THEN 2 ELSE (Smeared(x) + 1) \div 2

Capacity(n) ==
  LET want == IF n = 0 THEN RingMax ELSE AtMost(n, RingMax)
  IN  IF RoundUp(want) > RingMax THEN RoundDown(RingMax) ELSE RoundUp(want)

(* transport_bm_set_buffer_sizes: the size bm_init finds.                     *)
AskedSize == IF InitKeeps THEN bmAsked ELSE 0

(* transport_bm_stream_create and bm_init.                                    *)
BmInit ==
  /\ bmAsked \in SizesAsked
  /\ cap = Capacity(AskedSize) /\ ops = InitKeeps
  /\ rxBuf = [i \in 0..cap-1 |-> 0] /\ rxHead = 0 /\ rxTail = 0
  /\ txBuf = [i \in 0..cap-1 |-> 0] /\ txHead = 0 /\ txTail = 0
  /\ at = [c \in {"main", "isr"} |-> "idle"]
  /\ seen = [c \in {"main", "isr"} |-> 0] /\ first = seen /\ wrote = seen
  /\ arrived = <<>> /\ bmReceived = <<>>
  /\ bmFrames = 0 /\ bmQueued = <<>> /\ bmWire = <<>>

-----------------------------------------------------------------------------
(* The receive ring.                                                         *)

(* transport_bm_on_rx_bytes in an interrupt, or transport_bm_poll's           *)
(* rx_try_read in the main loop: what does not fit is lost.                  *)
rx_ring_write(n) ==
  LET took == AtMost(n, ring_space(rxHead, rxTail))
      data == [i \in 1..took |-> Len(arrived) + i]
  IN  /\ rxBuf'   = Written(rxBuf, rxHead, data)
      /\ rxHead'  = (rxHead + took) % cap
      /\ arrived' = arrived \o data
      /\ UNCHANGED <<rxTail, bmReceived>>

RxArrives ==
  /\ \E n \in Arrivals : Len(arrived) + n <= MaxArrived /\ rx_ring_write(n)
  /\ UNCHANGED <<bmAsked, cap, ops, bmTxVars>>

rx_ring_read(len) ==
  LET n == AtMost(len, ring_count(rxHead, rxTail))
  IN  /\ bmReceived' = bmReceived \o SubSeq(Content(rxBuf, rxHead, rxTail), 1, n)
      /\ rxTail'   = (rxTail + n) % cap
      /\ UNCHANGED <<rxBuf, rxHead, arrived>>

(* bm_recv, in the main loop.                                                *)
BmRecv ==
  /\ at["main"] = "idle" /\ at["isr"] = "idle"
  /\ \E len \in ReadLens : rx_ring_read(len)
  /\ UNCHANGED <<bmAsked, cap, ops, bmTxVars>>

-----------------------------------------------------------------------------
(* The transmit ring.                                                        *)

Goto(c, where) == at' = [at EXCEPT ![c] = where]

(* bm_send: the frame is written as far as it fits.                          *)
SendWrite ==
  /\ at["main"] = "idle" /\ bmFrames < MaxBmFrames
  /\ \E n \in BmFrameLens :
       LET took == AtMost(n, ring_space(txHead, txTail))
           data == [i \in 1..took |-> Len(bmQueued) + i]
       IN /\ txBuf'  = Written(txBuf, txHead, data)
          /\ txHead' = (txHead + took) % cap
          /\ IF took < n
               THEN /\ Goto("main", "rollback")
                    /\ wrote' = [wrote EXCEPT !["main"] = took] /\ UNCHANGED bmQueued
               ELSE /\ Goto("main", "look")
                    /\ bmQueued' = bmQueued \o data /\ UNCHANGED wrote
  /\ bmFrames' = bmFrames + 1
  /\ UNCHANGED <<txTail, seen, first, bmWire>>

(* Mutant: the tail is put where the head belongs.                            *)
SendKeepsTail ==
  /\ at["main"] = "rollback" /\ Goto("main", "idle")
  /\ txHead' = txTail
  /\ UNCHANGED <<txBuf, txTail, seen, first, wrote, bmFrames, bmQueued, bmWire>>

(* ... and what does not fit whole is taken out again.                       *)
SendRollback ==
  /\ at["main"] = "rollback" /\ Goto("main", "idle")
  /\ txHead' = (txHead - wrote["main"]) % cap
  /\ UNCHANGED <<txBuf, txTail, seen, first, wrote, bmFrames, bmQueued, bmWire>>

(* transport_bm_poll and transport_bm_on_tx_ready_isr start a drain.          *)
Poll == at["main"] = "idle" /\ Goto("main", "look")
        /\ UNCHANGED <<txBuf, txHead, txTail, seen, first, wrote, bmFrames, bmQueued, bmWire>>

TxReadyIsr == TxIsr /\ at["isr"] = "idle" /\ Goto("isr", "look")
              /\ UNCHANGED <<txBuf, txHead, txTail, seen, first, wrote, bmFrames, bmQueued, bmWire>>

(* tx_drain_hw: look up the contiguous part at the tail, ...                  *)
DrainLook(c) ==
  /\ at[c] = "look"
  /\ IF ops /\ txHead # txTail
       THEN /\ Goto(c, "write")
            /\ seen'  = [seen EXCEPT ![c] = txTail]
            /\ first' = [first EXCEPT ![c] = IF txHead >= txTail THEN txHead - txTail
                                                                 ELSE cap - txTail]
       ELSE Goto(c, "idle") /\ UNCHANGED <<seen, first>>
  /\ UNCHANGED <<txBuf, txHead, txTail, wrote, bmFrames, bmQueued, bmWire>>

(* ... offer it to the hardware outside the critical section, ...             *)
HwTakes(c) ==
  /\ at[c] = "write" /\ Goto(c, "advance")
  /\ \E k \in 1..first[c] :
       /\ wrote' = [wrote EXCEPT ![c] = k]
       /\ bmWire'  = bmWire \o [i \in 1..k |-> txBuf[seen[c] + i - 1]]
  /\ UNCHANGED <<txBuf, txHead, txTail, seen, first, bmFrames, bmQueued>>

HwBusy(c) ==
  /\ at[c] = "write" /\ Goto(c, "idle")
  /\ UNCHANGED <<txBuf, txHead, txTail, seen, first, wrote, bmFrames, bmQueued, bmWire>>

(* ... and move the tail by what it took.                                     *)
DrainAdvance(c) ==
  /\ at[c] = "advance" /\ Goto(c, "look")
  /\ txTail' = (txTail + wrote[c]) % cap
  /\ UNCHANGED <<txBuf, txHead, seen, first, wrote, bmFrames, bmQueued, bmWire>>

Drain(c) == DrainLook(c) \/ HwTakes(c) \/ HwBusy(c) \/ DrainAdvance(c)

(* An interrupt runs to its end before the main loop goes on.                *)
Main == /\ at["isr"] = "idle"
        /\ SendWrite \/ SendRollback \/ Poll \/ Drain("main")
        /\ UNCHANGED <<bmAsked, cap, ops, bmRxVars>>

Isr  == (TxReadyIsr \/ Drain("isr")) /\ UNCHANGED <<bmAsked, cap, ops, bmRxVars>>

BmNext == RxArrives \/ BmRecv \/ Main \/ Isr

BmSpec == BmInit /\ [][BmNext]_bmVars

(* The main loop polls in each pass, and the hardware is ready time and again. *)
BmFairSpec == /\ BmSpec
              /\ WF_bmVars(Main) /\ SF_bmVars(Main /\ Poll) /\ SF_bmVars(Main /\ HwTakes("main"))

-----------------------------------------------------------------------------
BmTypeOK ==
  /\ ops \in BOOLEAN
  /\ {rxHead, rxTail, txHead, txTail} \subseteq 0..cap-1
  /\ DOMAIN rxBuf = 0..cap-1 /\ DOMAIN txBuf = 0..cap-1
  /\ at \in [{"main", "isr"} -> {"idle", "rollback", "look", "write", "advance"}]
  /\ \A c \in {"main", "isr"} : wrote[c] < cap

(* Whatever size is asked for, the capacity is a power of two within the      *)
(* array: the masks of the ring arithmetic rely on it.                       *)
CapacityIsPowerOfTwo == cap <= RingMax /\ \E k \in 1..16 : cap = 2^k

(* Bytes are read in the order they arrived; what is accepted is never        *)
(* overwritten, however the ring wraps and overflows.                        *)
ReadInOrder == arrived = bmReceived \o Content(rxBuf, rxHead, rxTail)

(* The hardware takes the queued frames' bytes in order, each once, and       *)
(* nothing of a frame that did not fit.                                      *)
TakenInOrder ==
  LET ring == Content(txBuf, txHead, txTail)
      from == IF at["main"] = "advance" THEN wrote["main"] ELSE 0
      upto == Len(ring) - (IF at["main"] = "rollback" THEN wrote["main"] ELSE 0)
  IN  bmQueued = bmWire \o SubSeq(ring, from + 1, upto)

(* Both rings keep their bytes, with the sizes they round to.                 *)
RingsKeepBytes == ReadInOrder /\ TakenInOrder /\ CapacityIsPowerOfTwo

(* readme.md: what send has taken, it tries to write at once, and the rest is *)
(* pushed out by interrupt or poll.                                          *)
AllTaken == Len(bmWire) = Len(bmQueued)
QueuedReachesHardware == []<>AllTaken
=============================================================================
