------------------------------ MODULE MCPrograms -------------------------------
(* The programs of the command line, for model checking: the device simulator        *)
(* (DeviceCli), the reader (SerialRead) and the simulator's recorded samples (CsvData).   *)
(* The three are run one at a time; part says which, and in what situation.  The        *)
(* variables of the others rest.                                                *)
EXTENDS DeviceCli, CsvData, SerialRead

VARIABLE part

LOCAL Named(names) == {[name |-> n] : n \in names}
LOCAL Entry(id, rate) == [id |-> id, rate |-> rate, format |-> 1]
LOCAL Configure(entries) == [name |-> "CONFIGURE_STREAM", entries |-> entries]
LOCAL OneOn   == Configure(<<Entry(0, 1)>>)
LOCAL BadTail == Configure(<<Entry(1, 1), Entry(0, 2), Entry(0, 0)>>)      (* a rate that is too high *)
LOCAL Modes   == {"SET_MODE_CONTINUOUS", "SET_MODE_TRIGGER"}
LOCAL OnOff   == {"START_STREAM", "STOP_STREAM"}

(* For the cfg: all commands, on a clock that does not wrap; time for two bursts.       *)
AllRequests ==
  Named(Modes \cup OnOff \cup {"REQUEST_BUFFERED_DATA", "PING"}) \cup {OneOn, BadTail}

(* For the cfg: files of up to four lines, of which up to three rows are kept. *)
ShortFiles == UNION {[1..n -> Lines] : n \in 0..4}

(* A long stream. *)
CliStream == INSTANCE DeviceCli WITH
  PacketCounts <- {3}, Delays <- {2}, ClockMod <- 20, Requests <- Named(OnOff) \cup {OneOn}

(* A short burst on a clock that wraps. *)
CliLasts == INSTANCE DeviceCli WITH
  ClockMod <- 3, ClockWraps <- TRUE, MaxPass <- 1, Requests <- Named(Modes \cup OnOff) \cup {OneOn}

(* Batches of three for files of four, where no file need open.                  *)
ReaderFails == INSTANCE SerialRead WITH
  Batch <- 3, Kinds <- {"DATA_PACKET"}, Keys <- {"q"}, OpenMayFail <- TRUE, MaxFrames <- 11

cliVars == vars
allVars == <<part, cliVars, readerVars, csvVars>>

ProgramsInit ==
  /\ part \in {"cli bursts", "cli stream", "cli lasts", "reader saves", "reader fails", "csv"}
  /\ Init /\ ReaderInit
  /\ CsvInit /\ (part # "csv" => file = <<>>)

ProgramsNext ==
  /\ UNCHANGED part
  /\ \/ /\ \/ part = "cli bursts" /\ Next
           \/ part = "cli stream" /\ CliStream!Next
           \/ part = "cli lasts" /\ CliLasts!Next
        /\ UNCHANGED <<readerVars, csvVars>>
     \/ /\ \/ part = "reader saves" /\ ReaderNext
           \/ part = "reader fails" /\ ReaderFails!ReaderNext
        /\ UNCHANGED <<cliVars, csvVars>>
     \/ part = "csv" /\ CsvNext /\ UNCHANGED <<cliVars, readerVars>>

(* LiveSpec of DeviceCli and SerialRead. *)
CliFairness ==
  LET loop == part = "cli lasts" /\ CliLasts!Loop IN WF_cliVars(loop) /\ SF_cliVars(loop /\ now' # now)

ReaderFairness ==
  LET runs == part = "reader saves" IN
  /\ WF_readerVars(runs /\ Boot) /\ WF_readerVars(runs /\ ReaderLoop)
  /\ WF_readerVars(runs /\ DeviceAnswers)

ProgramsSpec == ProgramsInit /\ [][ProgramsNext]_allVars /\ CliFairness /\ ReaderFairness

-----------------------------------------------------------------------------
(* A burst that has begun is completed, unless a command ends it, and both programs end     *)
(* when the connection is closed.                                                  *)
NothingHangs == []<>(/\ part = "cli lasts" => ~CliLasts!Hanging
                     /\ part = "reader saves" => ~ReaderHanging)
=============================================================================
