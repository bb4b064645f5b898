-------------------------------- MODULE TcpLink --------------------------------
(***************************************************************************)
(* The TCP transport of the device simulator, transport_tcp_client.c, and the *)
(* program around it: main.c from start to exit, and the calls app.c makes of  *)
(* recv and send.  The application is reduced to the frames it queues, byte by  *)
(* byte, because a send may take part of one.                                *)
(*                                                                         *)
(* The two sockets, their buffers and the peer are external.                  *)
(***************************************************************************)
EXTENDS Naturals, Sequences, SequencesExt

CONSTANTS
  Configs,       (* what the program may be called with                        *)
  Sizes,         (* bytes of a frame                                          *)
  SockCap,       (* bytes the socket holds towards the peer                     *)
  MaxTcpFrames,     (* bound: frames queued, answers included                        *)
  MaxRequests    (* bound: requests of the peer                               *)

(* buildFrame of protocol/protocol.c puts a header and a check sum into every frame. *)
ASSUME SizesAssumption == Sizes \subseteq Nat \ {0}

VARIABLES
  config, running,     (* argv[1]; g_running                                  *)
  pc, listening,       (* where main is; listen_fd is open                     *)
  client,              (* client_fd is open                                   *)
  said,                (* "Transport error, exiting" has been printed            *)
  queue, sending,      (* frames in the transmit ring; bytes left of the frame in tcp_send *)
  tcpQueued,              (* frames queued so far: the sequence of their sizes      *)
  injected,            (* commands in the queue of the test transport            *)
  asked,               (* external: a peer waits to be accepted                  *)
  link,                (* external: the accepted connection                      *)
  requests, made,      (* external: unread requests; requests made               *)
  socket, tcpReceived     (* external: bytes sent and not read; bytes the peer has read *)

main == <<config, running, pc, listening, client, said, injected>>
tx   == <<queue, sending, tcpQueued>>
peer == <<asked, link, requests, made, socket, tcpReceived>>
tcpVars == <<main, tx, peer>>

Bytes(k, n) == [i \in 1..n |-> [frame |-> k, byte |-> i]]

TcpInit ==
  /\ config \in Configs /\ running = TRUE /\ pc = "init" /\ injected = 0
  /\ listening = FALSE /\ client = FALSE /\ said = FALSE
  /\ queue = <<>> /\ sending = <<>> /\ tcpQueued = <<>>
  /\ asked = FALSE /\ link = "none" /\ requests = 0 /\ made = 0 /\ socket = <<>> /\ tcpReceived = <<>>

(* Control-C or a termination, at any time.  signal() as the makefile builds it       *)
(* restarts accept, which goes on waiting.                                     *)
Interrupt ==
  /\ running /\ running' = FALSE
  /\ UNCHANGED <<config, pc, listening, client, said, injected, tx, peer>>

-----------------------------------------------------------------------------
(* main before the loop.  tcp_init opens the listening socket whatever the program     *)
(* was called with, or fails and ends the program.  The result of                  *)
(* tcp_wait_connection is not looked at.                                         *)
Listen ==
  /\ pc = "init"
  /\ \/ pc' = "wait" /\ listening' = TRUE
     \/ pc' = "failed" /\ UNCHANGED listening
  /\ UNCHANGED <<config, running, client, said, injected, tx, peer>>

Accept ==
  /\ pc = "wait" /\ asked
  /\ pc' = "inject" /\ client' = TRUE /\ asked' = FALSE /\ link' = "up"
  /\ UNCHANGED <<config, running, listening, said, injected, tx, requests, made, socket, tcpReceived>>

AcceptFails ==
  /\ pc = "wait" /\ pc' = "inject"
  /\ UNCHANGED <<config, running, listening, client, said, injected, tx, peer>>

(* inject_test_commands puts three commands and a configuration into the queue of    *)
(* the test transport, which the program does not read.                           *)
Inject ==
  /\ pc = "inject" /\ pc' = "top"
  /\ injected' = injected + IF config = "test_mode" THEN 4 ELSE 0
  /\ UNCHANGED <<config, running, listening, client, said, tx, peer>>

LoopTop ==
  /\ pc = "top" /\ running /\ pc' = "rx"
  /\ UNCHANGED <<config, running, listening, client, said, injected, tx, peer>>

(* tcp_recv: the requests that have come, none, or -1 when there is no client, the   *)
(* peer has closed or the connection is broken.  Each request is answered by a frame.  *)
(* The periodic task queues frames of its own.  That a full ring drops frames, whole,   *)
(* is in TriggerDevice.                                                        *)
RecvFails == ~client \/ link = "reset" \/ (link = "closed" /\ requests = 0)

Rx ==
  /\ pc = "rx" /\ pc' = "tx"
  /\ said' = (said \/ RecvFails)
  /\ requests' = IF RecvFails THEN requests ELSE 0
  /\ \E own \in 0..1 : \E n \in Sizes :
       LET more == own + IF RecvFails THEN 0 ELSE requests IN
       /\ own = 1 => Len(tcpQueued) + 1 + requests + (MaxRequests - made) <= MaxTcpFrames
       /\ tcpQueued' = tcpQueued \o [i \in 1..more |-> n]
       /\ queue' = queue \o [i \in 1..more |-> Len(tcpQueued) + i]
  /\ UNCHANGED <<config, running, listening, client, injected, sending, asked, link, made, socket, tcpReceived>>

(* app_process_tx_buffer takes frames until the ring is empty or a send fails.      *)
Dequeue ==
  /\ pc = "tx" /\ queue # <<>>
  /\ pc' = "send" /\ queue' = Tail(queue) /\ sending' = Bytes(Head(queue), tcpQueued[Head(queue)])
  /\ UNCHANGED <<config, running, listening, client, said, injected, tcpQueued, peer>>

PassEnds ==
  /\ pc = "tx" /\ queue = <<>> /\ pc' = "top"
  /\ UNCHANGED <<config, running, listening, client, said, injected, tx, peer>>

(* tcp_send: the socket takes a part of what is left.  A full socket is tried again    *)
(* every millisecond, with no look at g_running: the program is where it was.  A peer    *)
(* that has closed answers the first bytes with a reset.                          *)
(* Mutant: the frame is taken for sent with the first bytes.                      *)
TookLess(n) == sending' = SubSeq(sending, n + 1, Len(sending)) /\ pc' = "tx"

Took(n) == sending' = SubSeq(sending, n + 1, Len(sending)) /\ pc' = IF n = Len(sending) THEN "tx" ELSE "send"

(* Mutant: what the socket did not take at once is given up.                      *)
SendPart ==
  /\ pc = "send" /\ link = "up"
  /\ \E n \in 1..Len(sending) :
       /\ Len(socket) + n <= SockCap /\ socket' = socket \o SubSeq(sending, 1, n)
       /\ sending' = <<>> /\ pc' = "tx"
  /\ UNCHANGED <<config, running, listening, client, said, injected, queue, tcpQueued, asked, link, requests, made, tcpReceived>>

SendSome ==
  /\ pc = "send" /\ link = "up"
  /\ \E n \in 1..Len(sending) :
       Len(socket) + n <= SockCap /\ socket' = socket \o SubSeq(sending, 1, n) /\ Took(n)
  /\ UNCHANGED <<config, running, listening, client, said, injected, queue, tcpQueued, asked, link, requests, made, tcpReceived>>

SendToClosed ==
  /\ pc = "send" /\ link = "closed" /\ link' = "reset"
  /\ \E n \in 1..Len(sending) : Took(n)
  /\ UNCHANGED <<config, running, listening, client, said, injected, queue, tcpQueued, asked, requests, made, socket, tcpReceived>>

(* Without a client tcp_send fails at once.  On a broken connection it fails, or        *)
(* SIGPIPE, which nothing handles on a POSIX system, ends the program.  The frame is      *)
(* lost and the pass is over.                                                  *)
SendFails ==
  /\ pc = "send" /\ (~client \/ link = "reset")
  /\ sending' = <<>> /\ pc' \in {"top"} \cup (IF client THEN {"killed"} ELSE {})
  /\ UNCHANGED <<config, running, listening, client, said, injected, queue, tcpQueued, peer>>

(* The loop has ended: tcp_cleanup closes both sockets.  Requests left unread reset    *)
(* the connection, and what is still on the way is lost.                           *)
Cleanup ==
  /\ pc = "top" /\ ~running
  /\ pc' = "end" /\ client' = FALSE /\ listening' = FALSE
  /\ link' = IF link = "up" THEN "ended" ELSE link
  /\ socket' = IF requests = 0 THEN socket ELSE <<>>
  /\ UNCHANGED <<config, running, said, injected, tx, asked, requests, made, tcpReceived>>

Program == Listen \/ Accept \/ AcceptFails \/ Inject \/ LoopTop \/ Rx \/ Dequeue \/ PassEnds
           \/ SendSome \/ SendToClosed \/ SendFails \/ Cleanup

-----------------------------------------------------------------------------
(* The peer: it connects, asks, reads, closes, and may connect again.  Closing with     *)
(* bytes unread resets the connection.                                          *)
Connect ==
  /\ listening /\ ~asked /\ asked' = TRUE
  /\ UNCHANGED <<main, tx, link, requests, made, socket, tcpReceived>>

Ask ==
  /\ link = "up" /\ made < MaxRequests
  /\ made' = made + 1 /\ requests' = requests + 1
  /\ UNCHANGED <<main, tx, asked, link, socket, tcpReceived>>

Reads ==
  /\ link \in {"up", "ended"} /\ socket # <<>>
  /\ tcpReceived' = Append(tcpReceived, Head(socket)) /\ socket' = Tail(socket)
  /\ UNCHANGED <<main, tx, asked, link, requests, made>>

Closes ==
  /\ link = "up" /\ link' = (IF socket = <<>> THEN "closed" ELSE "reset") /\ socket' = <<>>
  /\ UNCHANGED <<main, tx, asked, requests, made, tcpReceived>>

TcpNext == Program \/ Interrupt \/ Connect \/ Ask \/ Reads \/ Closes

TcpSpec == TcpInit /\ [][TcpNext]_tcpVars

(* The program runs; a peer that stays connected reads, or need not.                 *)
TcpFairSpec == TcpSpec /\ WF_tcpVars(Program) /\ WF_tcpVars(Reads)

-----------------------------------------------------------------------------
TcpTypeOK ==
  /\ pc \in {"init", "wait", "inject", "top", "rx", "tx", "send", "failed", "killed", "end"}
  /\ link \in {"none", "up", "closed", "reset", "ended"}
  /\ Len(tcpQueued) <= MaxTcpFrames /\ Len(socket) <= SockCap /\ (sending # <<>> <=> pc = "send")

(* transport_tcp_client.c:231, a full buffer is waited for "to avoid splitting a       *)
(* frame": however the socket cuts them up, and whenever the peer, a signal or a          *)
(* failed send comes in between, the peer reads whole frames in their order, and only      *)
(* the last of them may be unfinished.                                          *)
Follows(a, b) ==
  \/ b.frame = a.frame /\ b.byte = a.byte + 1
  \/ b.frame > a.frame /\ b.byte = 1 /\ a.byte = tcpQueued[a.frame]

FramesIntact ==
  /\ tcpReceived # <<>> => tcpReceived[1].byte = 1
  /\ \A i \in 2..Len(tcpReceived) : Follows(tcpReceived[i - 1], tcpReceived[i])

(* While the connection stands and the peer reads, every queued frame arrives, whole.   *)
(* A signal in between does not stop it: the pass is finished first.                  *)
Arrived(k) == k <= Len(tcpQueued) /\ Contains(tcpReceived, [frame |-> k, byte |-> tcpQueued[k]])

AllArrived == client /\ link = "up" => \A k \in 1..Len(tcpQueued) : Arrived(k)
FramesArrive == []<>AllArrived

(* main.c:120, "Ctrl+C to exit" in the main loop: after a signal the program ends.       *)
CtrlCEnds == (~running /\ pc \in {"top", "rx", "tx", "send"}) ~> (pc \in {"end", "killed"})

(* app.c:389, "Transport error, exiting": after a transport error the program ends.      *)
ErrorEnds == said ~> (pc \in {"end", "killed"})

(* device-simulator/readme.md:60, the mode "test" uses a transport in memory and no socket.              *)
TestNeedsNoSocket == config = "test" => ~listening
=============================================================================
