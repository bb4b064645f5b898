----------------------------- MODULE SerialRead ------------------------------
(***************************************************************************)
(* The command-line reader, protocol-cli/serialread.c: it connects to a      *)
(* device, sends a command per key, handles the frames that come and saves    *)
(* every one of them, in batches, to files of bounded length.                *)
(*                                                                         *)
(* A frame is its kind on the wire and, once received, its number; the bytes  *)
(* of a frame are written as they are.  Serial line and socket differ in the *)
(* calls made and not in what the program does with their results.           *)
(***************************************************************************)
EXTENDS Naturals, Sequences, SequencesExt, FiniteSets, Functions

CONSTANTS
  Batch,        (* FRAME_BATCH_SAVE_COUNT                                     *)
  MaxPerFile,   (* MAX_FRAMES_PER_FILE                                        *)
  Kinds,        (* the frames the device sends unasked                        *)
  Keys,         (* the keys that are pressed                                  *)
  OpenMayFail,  (* TRUE iff fopen may fail                                    *)
  MaxFrames,    (* bounds of a run: frames received,                          *)
  MaxInFlight   (* frames and commands under way                              *)

ASSUME BatchAssumption == Batch \in Nat \ {0} /\ MaxPerFile \in Nat \ {0}

VARIABLES
  readerPc,                                    (* where the program is        *)
  disk,                                        (* the output files, see below *)
  g_frameBatch,                                (* frames not yet written      *)
  g_totalFrameCount,
  g_deviceConnected, g_dataTransmissionOn,
  inbox, outbox, readerClosed,                 (* the connection              *)
  streaming                                    (* the device sends data       *)

reader     == <<disk, g_frameBatch, g_totalFrameCount, g_deviceConnected, g_dataTransmissionOn>>
device     == <<readerClosed, streaming>>
readerVars == <<readerPc, reader, inbox, outbox, device>>

NoFile == 0

(* Frames received or to come: an event is answered by a request.             *)
InSight == g_totalFrameCount + Len(inbox) + Len(outbox)
           + Cardinality({i \in DOMAIN inbox : inbox[i] = "EVENT_TRIGGERED"})

-----------------------------------------------------------------------------
(* The files.  fp is the open one, opened the number of calls of               *)
(* open_next_file, inFile g_framesInFile.  The calls in broken fail.           *)
NoDisk == [fp |-> NoFile, opened |-> 0, inFile |-> 0, files |-> [i \in {} |-> <<>>]]

OpenNext(d, broken) ==
  LET i == d.opened + 1 IN
  IF i \in broken
    THEN [d EXCEPT !.fp = NoFile, !.opened = i]
    ELSE [fp |-> i, opened |-> i, inFile |-> 0,
          files |-> [j \in DOMAIN d.files \cup {i} |-> IF j = i THEN <<>> ELSE d.files[j]]]

(* One turn of the loop of flush_batch_to_file.                               *)
(* Mutant: the frame that starts a file is lost.                              *)
SaveSkipsFirst(d, f, broken) ==
  IF d.inFile >= MaxPerFile THEN OpenNext(d, broken)
  ELSE [d EXCEPT !.files[d.fp] = Append(@, f), !.inFile = @ + 1]

Save(d, f, broken) ==
  LET e == IF d.inFile >= MaxPerFile THEN OpenNext(d, broken) ELSE d
  IN  IF e.fp = NoFile THEN e
      ELSE [e EXCEPT !.files[e.fp] = Append(@, f), !.inFile = @ + 1]

(* The disk after every frame of the batch, one by one.                       *)
Flushed(batch, broken) ==
  LET saved[k \in 0..Len(batch)] ==
        IF k = 0 THEN disk ELSE Save(saved[k - 1], batch[k], broken)
  IN  saved[Len(batch)]

(* flush_batch_to_file returns at once when no file is open, and leaves the    *)
(* batch as it is.                                                           *)
Flush(batch, broken) ==
  IF disk.fp = NoFile
    THEN g_frameBatch' = batch /\ UNCHANGED disk
    ELSE g_frameBatch' = <<>> /\ disk' = Flushed(batch, broken)

Broken == IF OpenMayFail THEN SUBSET {disk.opened + i : i \in 1..Batch} ELSE {{}}

-----------------------------------------------------------------------------
ReaderInit ==
  /\ readerPc = "boot" /\ disk = NoDisk
  /\ g_frameBatch = <<>> /\ g_totalFrameCount = 0
  /\ g_deviceConnected = FALSE /\ g_dataTransmissionOn = FALSE
  /\ inbox = <<>> /\ outbox = <<>> /\ readerClosed = FALSE /\ streaming = FALSE

(* send_command on an open connection.  A command that cannot be written is     *)
(* reported and forgotten.                                                   *)
Send(c) == outbox' = Append(outbox, c) \/ (readerClosed /\ UNCHANGED outbox)

(* main: the first file, which may be missing, the connection, the first PING.  *)
Boot ==
  /\ readerPc = "boot"
  /\ \E broken \in Broken : disk' = OpenNext(disk, broken)
  /\ \/ readerPc' = "loop" /\ Send("PING")
     \/ readerPc' = "ended" /\ UNCHANGED outbox
  /\ UNCHANGED <<g_frameBatch, g_totalFrameCount, g_deviceConnected, g_dataTransmissionOn, inbox, device>>

(* onFrameParsed: the frame is cached whatever it holds.  The batch array has    *)
(* Batch elements; cache_frame does not look whether one is free.              *)
CacheFrame ==
  LET batch == Append(g_frameBatch, g_totalFrameCount + 1) IN
  IF Len(batch) < Batch
    THEN g_frameBatch' = batch /\ UNCHANGED <<disk, readerPc>>
    ELSE IF Len(batch) = Batch
      THEN UNCHANGED readerPc /\ \E broken \in Broken : Flush(batch, broken)
      ELSE readerPc' = "undefined" /\ UNCHANGED <<disk, g_frameBatch>>

HandleFrame(kind) ==
  /\ g_deviceConnected' = (g_deviceConnected \/ kind = "PONG")
  /\ g_dataTransmissionOn' = CASE kind = "STATUS_RUNNING" -> TRUE
                               [] kind = "STATUS_STOPPED" -> FALSE
                               [] OTHER -> g_dataTransmissionOn
  /\ IF kind = "EVENT_TRIGGERED" THEN Send("REQUEST_BUFFERED_DATA") ELSE UNCHANGED outbox

(* A frame read by the loop.                                                   *)
ReadFrame ==
  /\ readerPc = "loop" /\ inbox # <<>>
  /\ CacheFrame
  /\ g_totalFrameCount' = g_totalFrameCount + 1
  /\ HandleFrame(Head(inbox))
  /\ inbox' = Tail(inbox)
  /\ UNCHANGED device

(* What is left in the batch is written at the end.                            *)
Leave == /\ readerPc' = "ended"
         /\ IF g_frameBatch # <<>> THEN \E broken \in Broken : Flush(g_frameBatch, broken)
            ELSE UNCHANGED <<disk, g_frameBatch>>

(* conn_read_data fails, or the connection is closed.                          *)
ReadFails ==
  /\ readerPc = "loop" /\ readerClosed /\ inbox = <<>>
  /\ Leave
  /\ UNCHANGED <<g_totalFrameCount, g_deviceConnected, g_dataTransmissionOn, inbox, outbox, device>>

(* handle_user_input.                                                         *)
CommandOf ==
  [p |-> "PING", i |-> "GET_DEVICE_INFO", one |-> "SET_MODE_CONTINUOUS", two |-> "SET_MODE_TRIGGER",
   three |-> "START_STREAM", four |-> "STOP_STREAM", c |-> "CONFIGURE_STREAM"]

PressKey(k) ==
  /\ readerPc = "loop"
  /\ IF k = "q" THEN Leave /\ UNCHANGED outbox
     ELSE /\ IF k \in DOMAIN CommandOf /\ Len(outbox) < MaxInFlight /\ InSight < MaxFrames
               THEN Send(CommandOf[k])
             ELSE UNCHANGED outbox
          /\ UNCHANGED <<readerPc, disk, g_frameBatch>>
  /\ UNCHANGED <<g_totalFrameCount, g_deviceConnected, g_dataTransmissionOn, inbox, device>>

-----------------------------------------------------------------------------
(* The device as the reader meets it: an answer for each command, frames of its *)
(* own, the end of the connection.                                            *)
Answer(c) == CASE c = "PING" -> "PONG" [] c = "GET_DEVICE_INFO" -> "DEVICE_INFO_RESPONSE" [] OTHER -> "ACK"

DeviceAnswers ==
  /\ outbox # <<>> /\ ~readerClosed /\ Len(inbox) < MaxInFlight
  /\ outbox' = Tail(outbox)
  /\ inbox' = Append(inbox, Answer(Head(outbox)))
  /\ streaming' = (Head(outbox) = "START_STREAM" \/ (streaming /\ Head(outbox) # "STOP_STREAM"))
  /\ UNCHANGED <<readerPc, reader, readerClosed>>

DeviceSends(kind) ==
  /\ readerPc = "loop" /\ ~readerClosed /\ Len(inbox) < MaxInFlight /\ InSight + 1 < MaxFrames
  /\ inbox' = Append(inbox, kind)
  /\ UNCHANGED <<readerPc, reader, outbox, device>>

DeviceCloses ==
  /\ readerPc = "loop" /\ ~readerClosed /\ readerClosed' = TRUE
  /\ UNCHANGED <<readerPc, reader, inbox, outbox, streaming>>

ReaderLoop == ReadFrame \/ ReadFails

ReaderNext ==
  \/ Boot \/ ReaderLoop \/ DeviceAnswers \/ DeviceCloses
  \/ \E k \in Keys : PressKey(k)
  \/ \E kind \in Kinds : DeviceSends(kind)

ReaderSpec == ReaderInit /\ [][ReaderNext]_readerVars
ReaderLiveSpec ==
  ReaderSpec /\ WF_readerVars(Boot) /\ WF_readerVars(ReaderLoop) /\ WF_readerVars(DeviceAnswers)

-----------------------------------------------------------------------------
ReaderTypeOK ==
  /\ readerPc \in {"boot", "loop", "ended", "undefined"}
  /\ disk.fp \in DOMAIN disk.files \cup {NoFile} /\ DOMAIN disk.files \subseteq 1..disk.opened
  /\ Len(g_frameBatch) <= Batch
  /\ g_totalFrameCount \in 0..MaxFrames

(* Everything written, file after file in the order of their names.            *)
Written == FlattenSeq([i \in 1..disk.opened |-> IF i \in DOMAIN disk.files THEN disk.files[i] ELSE <<>>])

(* Files that cannot be opened cost frames, and no more than that: what is written *)
(* is in order and written once.                                              *)
WrittenOnce == \A i, j \in DOMAIN Written : i < j => Written[i] < Written[j]

(* README.md: 50,000 frames per file, and then a new one.  No file is longer, and *)
(* none but the last is shorter, so that a frame's number tells its file.       *)
FilesAreFull ==
  \A i \in DOMAIN disk.files :
    /\ Len(disk.files[i]) <= MaxPerFile
    /\ i # disk.opened => Len(disk.files[i]) = MaxPerFile

(* As long as every file could be opened, files and batch together hold every     *)
(* frame received, once and in order, however batches and files are cut; and    *)
(* a program that has ended has written them all.                              *)
AllOpened == DOMAIN disk.files = 1..disk.opened

NothingLost ==
  AllOpened => /\ Written \o g_frameBatch = [i \in 1..g_totalFrameCount |-> i]
               /\ readerPc = "ended" => g_frameBatch = <<>>

(* serialread.c, cache_frame and flush_batch_to_file, whatever the lengths of batch and *)
(* file: no frame is lost or written twice where one of them ends, and a file that      *)
(* cannot be opened costs the frames after it, not the order or the length of the rest. *)
EveryFrameSaved == NothingLost /\ WrittenOnce /\ FilesAreFull

(* A closed connection ends the program.                                        *)
ReaderHanging    == readerClosed /\ readerPc \notin {"ended", "undefined"}
ReaderClosedEnds == ReaderHanging ~> ~ReaderHanging

(* serialread.c:802: without an output file, "frames won't be saved", and the      *)
(* program goes on.                                                           *)
GoesOnUnsaved == readerPc # "undefined"

(* README.md: the device's state is shown in real time.  A device that streams is  *)
(* shown as transmitting, or it stops, or the program ends.                     *)
TransmissionShown == streaming ~> g_dataTransmissionOn \/ ~streaming \/ readerClosed \/ readerPc # "loop"
=============================================================================
