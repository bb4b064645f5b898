------------------------------ MODULE WebControl -------------------------------
(***************************************************************************)
(* The control requests of the web server, web_server.rs: what a handler      *)
(* remembers, under a lock of its own, and the command it posts to the device  *)
(* task after it has released the lock.  Handlers run concurrently, one per    *)
(* request.  Behind them, reduced to what the requests are about: the device   *)
(* task, which takes the commands in their order (DeviceManager), the link,    *)
(* which may lose what is written to it, and the mode and stream status of the  *)
(* device (DeviceApp).                                                      *)
(***************************************************************************)
EXTENDS Naturals, Sequences

CONSTANTS
  Handlers,      (* requests that may run at the same time                     *)
  Controls,      (* the requests users make                                    *)
  MaxCalls       (* bound: requests made                                       *)

VARIABLES
  running,               (* handler |-> the request it runs and where it is     *)
  collecting, current_mode,
  command_rx,            (* commands posted to the device task                 *)
  trigger_active,        (* of the device task                                 *)
  mode, status,          (* of the device                                      *)
  made,                  (* requests made                                      *)
  misled,                (* history: the device got a request for data outside    *)
                         (* trigger mode, though it had got the last mode command *)
  lost,                  (* history: kinds whose last command never got there    *)
  owed,                  (* history: handlers that have stored a value of a kind  *)
                         (* and not yet posted its command, in the order they stored *)
  crossed                (* history: kinds whose commands are posted in another    *)
                         (* order than their values were stored                  *)

server  == <<collecting, current_mode>>
device  == <<trigger_active, mode, status, misled, lost>>
posting == <<owed, crossed>>
webVars == <<running, server, command_rx, device, made, posting>>

Idle == [at |-> "idle"]

(* The commands that concern the same part of the device.                        *)
Kinds == {"mode", "stream"}
Kind(c) == CASE c \in {"SetModeContinuous", "SetModeTrigger"} -> "mode"
             [] c \in {"StartStream", "StopStream"} -> "stream"
             [] OTHER -> "other"

WebInit ==
  /\ running = [h \in Handlers |-> Idle]
  /\ collecting = FALSE /\ current_mode = "None" /\ command_rx = <<>>
  /\ trigger_active = FALSE /\ mode = "continuous" /\ status = "stopped"
  /\ made = 0 /\ misled = FALSE /\ lost = {}
  /\ owed = [k \in Kinds |-> <<>>] /\ crossed = {}

Call(h, r) ==
  /\ running[h] = Idle /\ made < MaxCalls
  /\ running' = [running EXCEPT ![h] = [at |-> "store", request |-> r]]
  /\ made' = made + 1
  /\ UNCHANGED <<server, command_rx, device, posting>>

-----------------------------------------------------------------------------
(* The first half of a handler, under its lock: start_collection,               *)
(* stop_collection, set_continuous_mode, set_trigger_mode store, and              *)
(* request_trigger_data reads; the others have no such half.                    *)
Stored(r, c, m) ==
  [collecting   |-> CASE r = "StartStream" -> TRUE [] r = "StopStream" -> FALSE [] OTHER -> c,
   current_mode |-> CASE r = "SetModeContinuous" -> "continuous"
                      [] r = "SetModeTrigger" -> "trigger" [] OTHER -> m]

Refused(r) == r = "RequestBufferedData" /\ current_mode # "trigger"

(* A handler stores while no other of its kind has yet to post: from here on the   *)
(* order is kept again.                                                       *)
NoteStored(h, k) ==
  LET others == {o \in Handlers : running[o].at = "send" /\ Kind(running[o].request) = k} IN
  IF k \in Kinds
    THEN /\ crossed' = IF others = {} THEN crossed \ {k} ELSE crossed
         /\ owed' = [owed EXCEPT ![k] = IF k \in crossed' THEN <<>> ELSE Append(@, h)]
    ELSE UNCHANGED posting

Store(h) ==
  LET r == running[h].request IN
  /\ running[h].at = "store"
  /\ running' = [running EXCEPT ![h] = IF Refused(r) THEN Idle ELSE [at |-> "send", request |-> r]]
  /\ collecting' = Stored(r, collecting, current_mode).collecting
  /\ current_mode' = Stored(r, collecting, current_mode).current_mode
  /\ NoteStored(h, Kind(r))
  /\ UNCHANGED <<command_rx, device, made>>

NotePosted(h, k) ==
  LET inOrder == owed[k] # <<>> /\ Head(owed[k]) = h IN
  IF k \in Kinds
    THEN /\ crossed' = IF inOrder THEN crossed ELSE crossed \cup {k}
         /\ owed' = [owed EXCEPT ![k] = IF inOrder THEN Tail(@) ELSE <<>>]
    ELSE UNCHANGED posting

(* The second half: the command is posted and the answer is given, which says no   *)
(* more than that it was sent.                                                *)
(* Mutant: the command is not posted.                                        *)
PostNothing(h) ==
  /\ running[h].at = "send"
  /\ running' = [running EXCEPT ![h] = Idle]
  /\ NotePosted(h, Kind(running[h].request))
  /\ UNCHANGED <<server, command_rx, device, made>>

Post(h) ==
  /\ running[h].at = "send"
  /\ command_rx' = Append(command_rx, running[h].request)
  /\ running' = [running EXCEPT ![h] = Idle]
  /\ NotePosted(h, Kind(running[h].request))
  /\ UNCHANGED <<server, device, made>>

-----------------------------------------------------------------------------
(* handle_command of the device task and process_command of the device.  A        *)
(* request for data is written in trigger mode only, by the mode of the last       *)
(* command taken.  The task takes note of a mode before it writes the command, and    *)
(* a write that fails, for want of a connection or otherwise, is only logged; what     *)
(* is written may be lost with the connection.  What arrives arrives in its order,  *)
(* so it is obeyed here at once.                                               *)
(* Mutant: it is written whenever it was posted.                               *)
WrittenAlways(c) == TRUE

Written(c) == c = "RequestBufferedData" => trigger_active

Obey(c) ==
  /\ mode' = CASE c = "SetModeContinuous" -> "continuous" [] c = "SetModeTrigger" -> "trigger" [] OTHER -> mode
  /\ status' = CASE c = "StartStream" -> "running" [] c = "StopStream" -> "stopped" [] OTHER -> status
  /\ misled' = (misled \/ (c = "RequestBufferedData" /\ mode # "trigger" /\ "mode" \notin lost))

Handle(delivered) ==
  /\ command_rx # <<>> /\ command_rx' = Tail(command_rx)
  /\ LET c == Head(command_rx) IN
     /\ trigger_active' = (c = "SetModeTrigger" \/ (trigger_active /\ c # "SetModeContinuous"))
     /\ IF Written(c) /\ delivered THEN Obey(c) ELSE UNCHANGED <<mode, status, misled>>
     /\ lost' = IF delivered THEN lost \ {Kind(c)} ELSE lost \cup ({Kind(c)} \cap Kinds)
  /\ UNCHANGED <<running, server, made, posting>>

WebNext ==
  \/ \E delivered \in BOOLEAN : Handle(delivered)
  \/ \E h \in Handlers :
       \/ \E r \in Controls : Call(h, r)
       \/ Store(h) \/ Post(h)

WebSpec == WebInit /\ [][WebNext]_webVars

-----------------------------------------------------------------------------
WebTypeOK ==
  /\ current_mode \in {"None", "continuous", "trigger"} /\ collecting \in BOOLEAN
  /\ \A h \in Handlers : running[h].at \in {"idle", "store", "send"}
  /\ Len(command_rx) <= made

(* protocol_doc.md: buffered data are requested in trigger mode.  A handler that has   *)
(* found that mode may post its command behind one that leaves it; the device is      *)
(* asked in the wrong mode all the same only while the last mode command has been     *)
(* lost on its way, which handle_command does not notice.                        *)
DataAskedInTriggerMode == ~misled

Quiet == command_rx = <<>> /\ \A h \in Handlers : running[h] = Idle

(* api_doc_en.md: get_status shows the current mode and whether collection is active.  *)
(* Once all commands are carried out, that is what the device is in, from the first    *)
(* mode request on, with two exceptions: the last command of that kind was lost, or two   *)
(* handlers that ran at the same time stored in one order and posted in the other.  Of  *)
(* either kind the next request that meets neither sets it right.                   *)
ShownIsTrue ==
  Quiet => /\ "mode" \in lost \cup crossed \/ current_mode \in {mode, "None"}
           /\ "stream" \in lost \cup crossed \/ collecting = (status = "running")
=============================================================================
