------------------------------- MODULE CsvData ---------------------------------
(***************************************************************************)
(* The recorded samples of the command-line simulator,                       *)
(* device-simulator-cli/platform_abstraction.c built for simulation: the file  *)
(* is read once to count its rows and once more to parse them, and samples are *)
(* taken from the rows by index.  A file is the sequence of its lines, of       *)
(* which only the kind matters: "#" for a comment, "row" for two numbers,       *)
(* "one" for a line without a comma.                                         *)
(***************************************************************************)
EXTENDS Naturals, Sequences, SequencesExt

CONSTANTS
  Files,      (* what the file may hold                                       *)
  MAX_CSV_ROWS,
  Indexes     (* the sample indexes asked for: 32-bit numbers                  *)

Lines == {"#", "row", "one"}

ASSUME FilesAssumption == Files \subseteq Seq(Lines) /\ Indexes \subseteq Nat

VARIABLES
  csvPc,         (* "init", "counted", "parse", "ready", "ended"                  *)
  file,       (* the file as it is on the disk                                *)
  read,       (* the lines of it in csv_buffer                                *)
  rest,       (* what strtok(NULL, ...) goes on with: the lines after the last *)
              (* one it was given, or the rest of that line                   *)
  row_count,  (* rows counted, and allocated                                  *)
  csv_data,   (* what has been parsed: the numbers of the lines               *)
  csv_rows,
  sample      (* the last sample: <<a line of the file>>, or generated         *)

csvVars == <<csvPc, file, read, rest, row_count, csv_data, csv_rows, sample>>

Generated == <<>>

IsData(line) == line # "#"

(* data_source_init.                                                         *)
CsvInit ==
  /\ csvPc = "init" /\ file \in Files /\ read = <<>> /\ rest = <<>>
  /\ row_count = 0 /\ csv_data = <<>> /\ csv_rows = 0 /\ sample = Generated

(* device_load_test_data, up to the allocation.  Without a file or without rows     *)
(* the generator is used.                                                    *)
CountRows ==
  /\ csvPc = "init"
  /\ \/ csvPc' = "ready" /\ UNCHANGED row_count
     \/ LET n == Len(SelectSeq(file, IsData)) IN
        /\ row_count' = IF n < MAX_CSV_ROWS THEN n ELSE MAX_CSV_ROWS
        /\ csvPc' = IF row_count' = 0 THEN "ready" ELSE "counted"
  /\ UNCHANGED <<file, read, rest, csv_data, csv_rows, sample>>

(* The file is opened and read again.                                         *)
ReadAgain ==
  /\ csvPc = "counted" /\ csvPc' = "parse"
  /\ read' = file
  /\ rest' = [i \in DOMAIN file |-> i]
  /\ UNCHANGED <<file, row_count, csv_data, csv_rows, sample>>

(* One turn of the loop over the lines.  strtok keeps one position: splitting a      *)
(* line at its comma leaves it at the end of that line.                          *)
(* Mutant: the lines are split safely, and the allocated rows are not minded.       *)
ParseLineUnbounded ==
  /\ csvPc = "parse" /\ rest # <<>>
  /\ LET i == Head(rest) IN
     IF IsData(read[i])
       THEN /\ csv_data' = IF read[i] = "row" THEN Append(csv_data, i) ELSE csv_data
            /\ rest' = Tail(rest)
       ELSE rest' = Tail(rest) /\ UNCHANGED csv_data
  /\ UNCHANGED <<csvPc, file, read, row_count, csv_rows, sample>>

ParseLine ==
  /\ csvPc = "parse" /\ rest # <<>> /\ Len(csv_data) < row_count
  /\ LET i == Head(rest) IN
     IF IsData(read[i])
       THEN /\ csv_data' = IF read[i] = "row" THEN Append(csv_data, i) ELSE csv_data
            /\ rest' = <<>>
       ELSE rest' = Tail(rest) /\ UNCHANGED csv_data
  /\ UNCHANGED <<csvPc, file, read, row_count, csv_rows, sample>>

(* Mutant: the rows counted are taken for the rows parsed.                      *)
LoadedAll ==
  /\ csvPc = "parse" /\ (rest = <<>> \/ Len(csv_data) >= row_count)
  /\ csv_rows' = row_count /\ csvPc' = "ready"
  /\ UNCHANGED <<file, read, rest, row_count, csv_data, sample>>

Loaded ==
  /\ csvPc = "parse" /\ (rest = <<>> \/ Len(csv_data) >= row_count)
  /\ csv_rows' = Len(csv_data) /\ csvPc' = "ready"
  /\ UNCHANGED <<file, read, rest, row_count, csv_data, sample>>

(* data_source_get_sample.  csv_data is allocated iff rows were counted, and a row    *)
(* that was not parsed holds whatever was in memory.                            *)
Uninitialised == <<0>>

GetSample(index) ==
  /\ csvPc = "ready"
  /\ LET k == (index % csv_rows) + 1 IN
     sample' = IF row_count = 0 \/ csv_rows = 0 THEN Generated
               ELSE IF k \in DOMAIN csv_data THEN <<csv_data[k]>> ELSE Uninitialised
  /\ UNCHANGED <<csvPc, file, read, rest, row_count, csv_data, csv_rows>>

(* data_source_cleanup.                                                       *)
Cleanup ==
  /\ csvPc = "ready" /\ csvPc' = "ended"
  /\ UNCHANGED <<file, read, rest, row_count, csv_data, csv_rows, sample>>

(* Someone else writes the file.                                              *)
Rewrite ==
  /\ csvPc \in {"init", "counted"}
  /\ \E f \in Files : file' = f
  /\ UNCHANGED <<csvPc, read, rest, row_count, csv_data, csv_rows, sample>>

CsvNext ==
  \/ CountRows \/ ReadAgain \/ ParseLine \/ Loaded \/ Cleanup \/ Rewrite
  \/ \E index \in Indexes : GetSample(index)

CsvSpec == CsvInit /\ [][CsvNext]_csvVars

-----------------------------------------------------------------------------
CsvTypeOK ==
  /\ csvPc \in {"init", "counted", "parse", "ready", "ended"}
  /\ Len(csv_data) <= row_count /\ row_count \in 0..MAX_CSV_ROWS
  /\ \A k \in DOMAIN csv_data : csv_data[k] \in DOMAIN read

(* A sample is generated, or comes from a row that was read from the file: no row      *)
(* beyond the last parsed one is ever used, even if the file shrank or grew between     *)
(* counting and parsing.                                                     *)
SamplesAreRead == \A i \in ToSet(sample) : i \in DOMAIN read /\ read[i] = "row"

(* README.md of the simulator: samples come from the CSV file.  Every row of it is      *)
(* loaded, as far as rows were allocated.                                      *)
EveryRowLoaded ==
  csvPc = "ready" /\ row_count > 0 =>
    csv_rows = row_count \/ csv_rows = Len(SelectSeq(read, LAMBDA line : line = "row"))
=============================================================================
