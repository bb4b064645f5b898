----------------------------- MODULE MCTransports -----------------------------
(* The transports of the device, for model checking: the block transport when it  *)
(* receives and when it sends (ChunkStream), the byte transport as shipped and with *)
(* its initialisation repaired (BmStream), and the TCP transport (TcpLink).  A     *)
(* device is built with one of them; part says which, and in what situation.  The   *)
(* variables of the others rest.  The module extends ChunkStream as it receives,      *)
(* BmStream as repaired and TcpLink, and instantiates the rest.                       *)
EXTENDS ChunkStream, TcpLink, BmStream

VARIABLE part

(* The blocks of each pool, for the cfg.                                         *)
Blocks3 == {"b1", "b2", "b3"}

(* From an interrupt, which takes one block of a delivery.                          *)
ChunkIsr == INSTANCE ChunkStream WITH FromIsr <- TRUE

(* Two frames, of which the second may find no blocks or no room in the queue.        *)
ChunkTx == INSTANCE ChunkStream WITH MaxOffered <- 0, MaxFrames <- 2

(* As shipped; the largest ring is no power of two.                              *)
BmRing == INSTANCE BmStream WITH
  RingMax <- 6, SizesAsked <- {0}, InitKeeps <- FALSE, TxIsr <- TRUE,
  MaxArrived <- 6, MaxBmFrames <- 2

chunkVars == vars
allVars   == <<part, chunkVars, bmVars, tcpVars>>

TransportsInit ==
  /\ part \in {"chunk rx", "chunk isr", "chunk tx", "bm ring", "bm drain", "tcp"}
  /\ Init
  /\ IF part = "bm drain" THEN BmInit ELSE BmRing!BmInit
  /\ TcpInit /\ (part # "tcp" => config = "tcp")

TransportsNext ==
  /\ UNCHANGED part
  /\ \/ /\ \/ part = "chunk rx" /\ Next
           \/ part = "chunk isr" /\ ChunkIsr!Next
           \/ part = "chunk tx" /\ ChunkTx!Next
        /\ UNCHANGED <<bmVars, tcpVars>>
     \/ /\ \/ part = "bm ring" /\ BmRing!BmNext
           \/ part = "bm drain" /\ BmNext
        /\ UNCHANGED <<chunkVars, tcpVars>>
     \/ part = "tcp" /\ TcpNext /\ UNCHANGED <<chunkVars, bmVars>>

(* FairSpec of the three modules, for the part that runs.                            *)
ChunkFairness ==
  LET runs == part = "chunk tx" /\ ChunkTx!ThreadsRun IN
  /\ WF_chunkVars(runs /\ ChunkTx!Recv) /\ WF_chunkVars(runs /\ ChunkTx!Send)
  /\ WF_chunkVars(runs /\ ChunkTx!Thread) /\ WF_chunkVars(runs /\ ChunkTx!Driver /\ drv # "idle")

BmFairness ==
  LET runs == part = "bm drain" /\ Main IN
  WF_bmVars(runs) /\ SF_bmVars(runs /\ Poll) /\ SF_bmVars(runs /\ HwTakes("main"))

TcpFairness == WF_tcpVars(part = "tcp" /\ Program) /\ WF_tcpVars(part = "tcp" /\ Reads)

TransportsSpec ==
  /\ TransportsInit /\ [][TransportsNext]_allVars
  /\ ChunkFairness /\ BmFairness /\ TcpFairness

-----------------------------------------------------------------------------
(* What a transport has taken goes out at last: the blocks to the sender thread's output, *)
(* the bytes to the hardware, the frames to a peer that stays and reads.              *)
QueuedLeaves == []<>(/\ part = "chunk tx" => AllSent
                     /\ part = "bm drain" => AllTaken
                     /\ part = "tcp" => AllArrived)
=============================================================================
