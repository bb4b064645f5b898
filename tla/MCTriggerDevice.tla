--------------------------- MODULE MCTriggerDevice ---------------------------
(* Values for model checking TriggerDevice.                                  *)
EXTENDS TriggerDevice

Named(names) == [name : names]

(* The commands that change what the timers do, and for the ring a smaller    *)
(* set with a configuration that enables an unknown id and disables the known. *)
MCControl == Named({"SET_MODE_CONTINUOUS", "SET_MODE_TRIGGER", "START_STREAM", "STOP_STREAM"})
MCRequests ==
  Named({"SET_MODE_CONTINUOUS", "SET_MODE_TRIGGER", "START_STREAM"})
    \cup {ConfigureCommand({"c9"}, Channels)}

MCFrameUnits ==
  [cmd \in Replies \cup {"EVENT_TRIGGERED", "DATA_PACKET", "BUFFER_TRANSFER_COMPLETE"} |->
     IF cmd = "DATA_PACKET" THEN 2 ELSE 1]

=============================================================================
