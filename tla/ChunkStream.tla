----------------------------- MODULE ChunkStream -----------------------------
(***************************************************************************)
(* The block transport of examples/chunk-stream: static pools of blocks, a  *)
(* ready queue filled by the receive callback, a send queue emptied by a    *)
(* background thread.  Three actors meet here: the application (recv and    *)
(* send), the driver (on_rx_chunk, in a task or in an interrupt) and the    *)
(* sender thread.  One step is one critical section of one of them.         *)
(*                                                                         *)
(* A queue of length n holds n-1 blocks.  A byte is its number: received    *)
(* bytes are numbered by the driver, sent ones are <<frame, position>>.     *)
(***************************************************************************)
EXTENDS Naturals, Sequences, SequencesExt, FiniteSets

CONSTANTS
  RxPool, TxPool,        (* the blocks, CS_RX_POOL_COUNT and CS_TX_POOL_COUNT *)
  ReadyLen, SendLen,     (* CS_RX_READY_Q_LEN, CS_TX_SEND_Q_LEN              *)
  MaxChunk,              (* CS_RX_CHUNK_MAX_BYTES = CS_TX_CHUNK_MAX_BYTES    *)
  Requested,             (* the sizes asked of set_chunk_sizes               *)
  FromIsr,               (* on_rx_chunk runs in an interrupt                 *)
  ReadLen,               (* the length of the application's read buffer      *)
  Deliveries, FrameLens, (* lengths handed to on_rx_chunk and to send        *)
  MaxOffered, MaxFrames, (* bounds of a run: bytes offered, frames sent      *)
  None

(* The pools are arrays of blocks; a block has room for a byte, and a delivery of no    *)
(* bytes returns before anything is done (transport_chunk_stream.c:337).            *)
ASSUME PoolAssumption ==
  IsFiniteSet(RxPool) /\ IsFiniteSet(TxPool) /\ None \notin RxPool \cup TxPool
ASSUME LengthAssumption ==
  /\ MaxChunk \in Nat \ {0} /\ ReadLen \in Nat
  /\ Deliveries \subseteq Nat \ {0} /\ FrameLens \subseteq Nat

VARIABLES
  rxChunk, txChunk,            (* rx_chunk_bytes, tx_chunk_bytes             *)
  rxFree, rxReady, rxData,     (* free stack, ready queue, unread data       *)
  rxCur, copied,               (* app_rx_cur, bytes copied by this recv      *)
  txFree, txQueue, txData,     (* free stack, send queue, data               *)
  app, appBlk, rest, sent,     (* where the application is; its block; the   *)
                               (* rest of its frame; bytes of it queued      *)
  drv, drvBlk, offer,          (* the driver, its block, its undelivered rest *)
  thread, thrBlk, flag,        (* the sender thread and its thread flag      *)
  offered, accepted, received, (* history: bytes offered, pushed, read       *)
  frames, queued, wire         (* history: frames begun, bytes queued, handed out *)

rxVars  == <<rxFree, rxReady, rxData>>
txVars  == <<txFree, txQueue, txData>>
appVars == <<app, appBlk, rest, sent, rxCur, copied, received, frames, queued>>
drvVars == <<drv, drvBlk, offer, offered, accepted>>
thrVars == <<thread, thrBlk, wire>>
vars == <<rxChunk, txChunk, rxVars, txVars, appVars, drvVars, thrVars, flag>>

Least(m, n) == IF m < n THEN m ELSE n

-----------------------------------------------------------------------------
(* The pools and queues.  Each is one critical section.                      *)

rx_alloc_blk(b) == rxFree # <<>> /\ b = Last(rxFree) /\ rxFree' = Front(rxFree)
tx_alloc_blk(b) == txFree # <<>> /\ b = Last(txFree) /\ txFree' = Front(txFree)

rx_free_blk(b) ==
  rxFree' = IF Len(rxFree) < Cardinality(RxPool) THEN Append(rxFree, b) ELSE rxFree
tx_free_blk(b) ==
  txFree' = IF Len(txFree) < Cardinality(TxPool) THEN Append(txFree, b) ELSE txFree

ReadyFull == Len(rxReady) + 1 >= ReadyLen
SendFull  == Len(txQueue) + 1 >= SendLen

(* Mutant: the queue is popped from its end.                                  *)
tx_send_pop_last(b) == txQueue # <<>> /\ b = Last(txQueue) /\ txQueue' = Front(txQueue)

rx_ready_push(b) == ~ReadyFull /\ rxReady' = Append(rxReady, b)
rx_ready_pop(b)  == rxReady # <<>> /\ b = Head(rxReady) /\ rxReady' = Tail(rxReady)
tx_send_push(b)  == ~SendFull /\ txQueue' = Append(txQueue, b)
tx_send_pop(b)   == txQueue # <<>> /\ b = Head(txQueue) /\ txQueue' = Tail(txQueue)

(* Mutant: a size of zero passes.                                             *)
NormalisedZero(n) == IF n <= MaxChunk THEN n ELSE MaxChunk

Normalised(n) == IF n \in 1..MaxChunk THEN n ELSE MaxChunk

(* transport_chunk_stream_set_chunk_sizes, at any time.                       *)
SetChunkSizes ==
  /\ \E r, t \in Requested : rxChunk' = Normalised(r) /\ txChunk' = Normalised(t)
  /\ UNCHANGED <<rxVars, txVars, appVars, drvVars, thrVars, flag>>

-----------------------------------------------------------------------------
(* create_static and cs_init: all blocks free, queues empty, largest chunks, *)
(* the sender thread started.                                               *)

Init ==
  /\ rxChunk = MaxChunk /\ txChunk = MaxChunk
  /\ rxFree = SetToSeq(RxPool) /\ txFree = SetToSeq(TxPool)
  /\ rxReady = <<>> /\ txQueue = <<>>
  /\ rxData = [b \in RxPool |-> <<>>] /\ txData = [b \in TxPool |-> <<>>]
  /\ app = "recv" /\ appBlk = None /\ rxCur = None /\ copied = 0 /\ rest = <<>> /\ sent = 0
  /\ drv = "idle" /\ drvBlk = None /\ offer = <<>>
  /\ thread = "pop" /\ thrBlk = None /\ flag = FALSE
  /\ offered = 0 /\ accepted = <<>> /\ received = <<>>
  /\ frames = 0 /\ queued = <<>> /\ wire = <<>>

-----------------------------------------------------------------------------
(* cs_recv, called once per pass of the main loop.  A block always holds at  *)
(* least one byte, so the empty block of the code does not occur.            *)

RecvPop ==
  /\ app = "recv" /\ rxCur = None /\ copied < ReadLen
  /\ \E b \in RxPool : rx_ready_pop(b) /\ rxCur' = b
  /\ UNCHANGED <<rxFree, rxData, app, appBlk, rest, sent, copied, received, frames, queued>>

(* Mutant: the whole block is copied, whatever room the caller has.            *)
RecvTakeBlock ==
  /\ app = "recv" /\ rxCur # None /\ copied < ReadLen
  /\ received' = received \o rxData[rxCur]
  /\ copied'   = copied + Len(rxData[rxCur])
  /\ rx_free_blk(rxCur) /\ rxCur' = None
  /\ UNCHANGED <<rxReady, rxData, app, appBlk, rest, sent, frames, queued>>

(* Mutant: a block that was read in part is given back.                       *)
RecvTakeFrees ==
  /\ app = "recv" /\ rxCur # None /\ copied < ReadLen
  /\ LET take == Least(Len(rxData[rxCur]), ReadLen - copied)
     IN received' = received \o SubSeq(rxData[rxCur], 1, take) /\ copied' = copied + take
  /\ rx_free_blk(rxCur) /\ rxCur' = None
  /\ UNCHANGED <<rxReady, rxData, app, appBlk, rest, sent, frames, queued>>

RecvTake ==
  /\ app = "recv" /\ rxCur # None /\ copied < ReadLen
  /\ LET take == Least(Len(rxData[rxCur]), ReadLen - copied)
         left == SubSeq(rxData[rxCur], take + 1, Len(rxData[rxCur]))
     IN /\ received' = received \o SubSeq(rxData[rxCur], 1, take)
        /\ rxData'   = [rxData EXCEPT ![rxCur] = left]
        /\ copied'   = copied + take
        /\ IF left = <<>> THEN rx_free_blk(rxCur) /\ rxCur' = None
                          ELSE UNCHANGED <<rxFree, rxCur>>
  /\ UNCHANGED <<rxReady, app, appBlk, rest, sent, frames, queued>>

RecvReturn ==
  /\ app = "recv"
  /\ copied = ReadLen \/ (rxCur = None /\ rxReady = <<>>)
  /\ app' = "loop" /\ copied' = 0
  /\ UNCHANGED <<rxVars, appBlk, rest, sent, rxCur, received, frames, queued>>

Recv == (RecvPop \/ RecvTake \/ RecvReturn)
        /\ UNCHANGED <<rxChunk, txChunk, txVars, drvVars, thrVars, flag>>

-----------------------------------------------------------------------------
(* app_process_tx_buffer: each frame is given to cs_send once; what cs_send  *)
(* does not take is dropped, and the pass of the loop ends there.            *)

SendBegin ==
  /\ app = "loop" /\ frames < MaxFrames
  /\ \E n \in FrameLens : rest' = [i \in 1..n |-> <<frames + 1, i>>]
  /\ app' = "alloc" /\ sent' = 0 /\ frames' = frames + 1
  /\ UNCHANGED <<txVars, appBlk, queued, flag>>

NextPass ==
  /\ app = "loop" /\ app' = "recv"
  /\ UNCHANGED <<txVars, appBlk, rest, sent, frames, queued, flag>>

SendAlloc ==
  /\ app = "alloc" /\ rest # <<>>
  /\ \E b \in TxPool :
       /\ tx_alloc_blk(b) /\ appBlk' = b
       /\ txData' = [txData EXCEPT ![b] = SubSeq(rest, 1, Least(txChunk, Len(rest)))]
  /\ app' = "push"
  /\ UNCHANGED <<txQueue, rest, sent, frames, queued, flag>>

SendPush ==
  /\ app = "push" /\ tx_send_push(appBlk)
  /\ LET n == Len(txData[appBlk])
     IN rest' = SubSeq(rest, n + 1, Len(rest)) /\ sent' = sent + n
  /\ queued' = queued \o txData[appBlk]
  /\ app' = "alloc" /\ appBlk' = None
  /\ UNCHANGED <<txFree, txData, frames, flag>>

(* The queue is full: the block goes back and the call stops.                *)
SendGiveUp ==
  /\ app = "push" /\ SendFull
  /\ tx_free_blk(appBlk)
  /\ app' = "notify" /\ appBlk' = None
  /\ UNCHANGED <<txQueue, txData, rest, sent, frames, queued, flag>>

SendOutOfBlocks ==
  /\ app = "alloc" /\ (rest = <<>> \/ txFree = <<>>)
  /\ app' = "notify"
  /\ UNCHANGED <<txVars, appBlk, rest, sent, frames, queued, flag>>

(* Mutant: the thread is woken only when the whole frame was queued.          *)
SendNotifyIfWhole ==
  /\ app = "notify"
  /\ flag' = (flag \/ (sent > 0 /\ rest = <<>>))
  /\ app' = (IF rest = <<>> THEN "loop" ELSE "recv") /\ rest' = <<>>
  /\ UNCHANGED <<txVars, appBlk, sent, frames, queued>>

SendNotify ==
  /\ app = "notify"
  /\ flag'  = (flag \/ sent > 0)
  /\ app'   = (IF rest = <<>> THEN "loop" ELSE "recv")
  /\ rest'  = <<>>
  /\ UNCHANGED <<txVars, appBlk, sent, frames, queued>>

Send == (SendBegin \/ NextPass \/ SendAlloc \/ SendPush \/ SendGiveUp
         \/ SendOutOfBlocks \/ SendNotify)
        /\ UNCHANGED <<rxChunk, txChunk, rxVars, rxCur, copied, received, drvVars, thrVars>>

-----------------------------------------------------------------------------
(* ChunkStreamTxThread: empty the queue, then wait for the flag, which stays *)
(* set until a wait takes it.  The result of tx_send_block is ignored: wire  *)
(* is what was handed to it.                                                 *)

TxPop ==
  /\ thread = "pop"
  /\ \/ \E b \in TxPool : tx_send_pop(b) /\ thrBlk' = b /\ thread' = "send"
     \/ txQueue = <<>> /\ thread' = "wait" /\ UNCHANGED <<txQueue, thrBlk>>
  /\ UNCHANGED <<txFree, txData, wire, flag>>

TxSendBlock ==
  /\ thread = "send" /\ thread' = "free"
  /\ wire' = wire \o txData[thrBlk]
  /\ UNCHANGED <<txVars, thrBlk, flag>>

TxFree ==
  /\ thread = "free" /\ tx_free_blk(thrBlk)
  /\ thread' = "pop" /\ thrBlk' = None
  /\ UNCHANGED <<txQueue, txData, wire, flag>>

TxWake ==
  /\ thread = "wait" /\ flag
  /\ flag' = FALSE /\ thread' = "pop"
  /\ UNCHANGED <<txVars, thrBlk, wire>>

Thread == (TxPop \/ TxSendBlock \/ TxFree \/ TxWake)
          /\ UNCHANGED <<rxChunk, txChunk, rxVars, appVars, drvVars>>

-----------------------------------------------------------------------------
(* transport_chunk_stream_on_rx_chunk: one block per round, as long as blocks *)
(* and queue places last; in an interrupt, one round.                        *)

RxBegin ==
  /\ drv = "idle"
  /\ \E n \in Deliveries :
       /\ offered + n <= MaxOffered
       /\ offer' = [i \in 1..n |-> offered + i] /\ offered' = offered + n
  /\ drv' = "alloc"
  /\ UNCHANGED <<rxVars, drvBlk, accepted>>

RxAlloc ==
  /\ drv = "alloc"
  /\ \E b \in RxPool :
       /\ rx_alloc_blk(b) /\ drvBlk' = b
       /\ rxData' = [rxData EXCEPT ![b] = SubSeq(offer, 1, Least(rxChunk, Len(offer)))]
  /\ drv' = "push"
  /\ UNCHANGED <<rxReady, offer, offered, accepted>>

RxPush ==
  /\ drv = "push" /\ rx_ready_push(drvBlk)
  /\ LET left == SubSeq(offer, Len(rxData[drvBlk]) + 1, Len(offer))
     IN /\ offer' = left
        /\ drv'   = IF left = <<>> \/ FromIsr THEN "return" ELSE "alloc"
  /\ accepted' = accepted \o rxData[drvBlk]
  /\ drvBlk' = None
  /\ UNCHANGED <<rxFree, rxData, offered>>

(* Mutant: a block that cannot be queued is not returned.                     *)
RxGiveUpLeaks ==
  /\ (drv = "alloc" /\ rxFree = <<>>) \/ (drv = "push" /\ ReadyFull)
  /\ drv' = "return" /\ drvBlk' = None
  /\ UNCHANGED <<rxVars, offer, offered, accepted>>

RxGiveUp ==
  /\ \/ drv = "alloc" /\ rxFree = <<>> /\ UNCHANGED rxFree
     \/ drv = "push" /\ ReadyFull /\ rx_free_blk(drvBlk)
  /\ drv' = "return" /\ drvBlk' = None
  /\ UNCHANGED <<rxReady, rxData, offer, offered, accepted>>

(* The rest of the delivery is gone: no caller in the examples repeats it.   *)
RxReturn ==
  /\ drv = "return" /\ drv' = "idle"
  /\ offer' = <<>>
  /\ UNCHANGED <<rxVars, drvBlk, offered, accepted>>

Driver == (RxBegin \/ RxAlloc \/ RxPush \/ RxGiveUp \/ RxReturn)
          /\ UNCHANGED <<rxChunk, txChunk, txVars, appVars, thrVars, flag>>

(* No thread runs while an interrupt does.                                   *)
ThreadsRun == FromIsr => drv = "idle"

Next == (ThreadsRun /\ (Recv \/ Send \/ Thread \/ SetChunkSizes)) \/ Driver

Spec == Init /\ [][Next]_vars

(* The main loop goes round, the sender thread gets its turns, and a delivery that   *)
(* has begun is finished.                                                        *)
FairSpec == /\ Spec
            /\ WF_vars(ThreadsRun /\ Recv) /\ WF_vars(ThreadsRun /\ Send)
            /\ WF_vars(ThreadsRun /\ Thread) /\ WF_vars(Driver /\ drv # "idle")

-----------------------------------------------------------------------------
Blocks(b, seq) == Cardinality({i \in DOMAIN seq : seq[i] = b})
Holds(b, x)    == IF x = b THEN 1 ELSE 0
DataOf(data, seq) == FlattenSeq([i \in DOMAIN seq |-> data[seq[i]]])

TypeOK ==
  /\ rxFree \in Seq(RxPool) /\ rxReady \in Seq(RxPool)
  /\ txFree \in Seq(TxPool) /\ txQueue \in Seq(TxPool)
  /\ rxData \in [RxPool -> Seq(Nat)] /\ txData \in [TxPool -> Seq(Nat \X Nat)]
  /\ rxCur \in RxPool \cup {None} /\ drvBlk \in RxPool \cup {None}
  /\ appBlk \in TxPool \cup {None} /\ thrBlk \in TxPool \cup {None}
  /\ app \in {"recv", "loop", "alloc", "push", "notify"}
  /\ drv \in {"idle", "alloc", "push", "return"}
  /\ thread \in {"pop", "send", "free", "wait"}
  /\ copied \in 0..ReadLen /\ flag \in BOOLEAN

(* No block is lost or held twice: each is in the free stack, in a queue or   *)
(* with one actor, whichever path (full queue, empty pool, short read) each  *)
(* of the three has taken.                                                   *)
BlocksHeldOnce ==
  /\ \A b \in RxPool :
       Blocks(b, rxFree) + Blocks(b, rxReady) + Holds(b, rxCur) + Holds(b, drvBlk) = 1
  /\ \A b \in TxPool :
       Blocks(b, txFree) + Blocks(b, txQueue) + Holds(b, appBlk) + Holds(b, thrBlk) = 1

(* What the application has read, followed by what is unread in its block     *)
(* and in the queue, is what the driver pushed: nothing is reordered, lost   *)
(* after it was accepted, or overwritten in a block that is reused.          *)
ReceivedInOrder ==
  accepted = received \o (IF rxCur = None THEN <<>> ELSE rxData[rxCur])
                      \o DataOf(rxData, rxReady)

(* The bytes handed out, in the sender's hand and in the send queue are what  *)
(* cs_send queued, in order.                                                 *)
SentInOrder ==
  queued = wire \o (IF thread = "send" THEN txData[thrBlk] ELSE <<>>)
                \o DataOf(txData, txQueue)

(* transport_chunk_stream.c: what the application reads is what the driver pushed, and  *)
(* what the thread hands out is what cs_send queued, each byte once and in order,      *)
(* although the blocks they travel in are filled again while others still wait.     *)
BytesInOrder == ReceivedInOrder /\ SentInOrder

(* A chunk size set while blocks are being filled never makes a block longer  *)
(* than its array, nor empty: the loops of send and on_rx_chunk would not end. *)
BlocksFit ==
  /\ rxChunk \in 1..MaxChunk /\ txChunk \in 1..MaxChunk
  /\ app = "push" => Len(txData[appBlk]) \in 1..MaxChunk
  /\ drv = "push" => Len(rxData[drvBlk]) \in 1..MaxChunk

(* transport_chunk_stream.c: the three actors share two pools through short critical   *)
(* sections, and each has a way to give up; still no block is lost or held twice, and     *)
(* none is empty or overfull, whatever chunk sizes are set meanwhile.               *)
BlocksSafe == BlocksHeldOnce /\ BlocksFit

(* Every byte that cs_send took is handed to tx_send_block at last: with a bounded     *)
(* number of frames, the queue runs empty time and again.                          *)
AllSent == Len(wire) = Len(queued)
QueuedIsSent == []<>AllSent

(* readme.md: "app_process_tx_buffer ... calls tp->send() to queue the whole  *)
(* frame".  The send queue never holds a frame that was cut off before the   *)
(* next one.                                                                 *)
FramesQueuedWhole == app = "notify" => rest = <<>>

(* readme.md, the interrupt example: one call delivers len bytes, split       *)
(* inside into blocks.  With room for all of it, a delivery is taken whole.  *)
DeliveryTakenWhole ==
  drv = "return" /\ offer # <<>> => rxFree = <<>> \/ ReadyFull
=============================================================================
