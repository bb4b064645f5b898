---------------------------- MODULE ProgramsProofs ----------------------------
(***************************************************************************)
(* Theorems about the programs of the command line.  CsvData: a sample     *)
(* comes from a row that was read.  DeviceCli: a burst that is closed is   *)
(* whole, and the stamps of the stream do not go back before the clock     *)
(* wraps.  SerialRead: the files hold every frame, once and in order.      *)
(***************************************************************************)
EXTENDS DeviceCli, CsvData, SerialRead, SequenceOrder

-----------------------------------------------------------------------------
(* Arithmetic of % that the provers do not find.                           *)
LEMMA ModRange == ASSUME NEW m \in Nat \ {0}, NEW x \in Nat PROVE x % m \in 0..(m - 1)
OBVIOUS

LEMMA ModSmall == ASSUME NEW m \in Nat \ {0}, NEW x \in Nat, x < m PROVE x % m = x
OBVIOUS

-----------------------------------------------------------------------------
(* CsvData: what is parsed are rows of what was read, and the rows that may be   *)
(* taken are those that were parsed.                                       *)
CsvRead ==
  /\ read \in Seq(Lines) /\ rest \in Seq(Nat) /\ csv_data \in Seq(Nat) /\ file \in Seq(Lines)
  /\ csvPc \in {"init", "counted", "parse", "ready", "ended"}
  /\ \A i \in 1..Len(rest) : rest[i] \in DOMAIN read
  /\ \A k \in 1..Len(csv_data) : csv_data[k] \in DOMAIN read /\ read[csv_data[k]] = "row"

CsvTaken ==
  /\ csvPc \in {"init", "counted", "parse"} => sample = Generated
  /\ csvPc \in {"init", "counted"} => csv_data = <<>>
  /\ csvPc = "init" => row_count = 0
  /\ csvPc = "ready" /\ row_count # 0 => csv_rows = Len(csv_data)
  /\ sample # Generated => \E i \in DOMAIN read : read[i] = "row" /\ sample = <<i>>

CsvInv == CsvRead /\ CsvTaken
-----------------------------------------------------------------------------
(* DeviceCli: while a burst is sent, the log holds its event and the packets    *)
(* counted so far, and the simulation runs in trigger mode only.            *)
Frames    == {"EVENT", "BURST", "COMPLETE", "STREAM"}
Bursts(n) == [i \in 1..n |-> "BURST"]
Begun(n)  == <<"EVENT">> \o Bursts(n)
Whole(n)  == Begun(n) \o <<"COMPLETE">>

BurstInv ==
  /\ log \in Seq(Frames) /\ planned \in Nat /\ to_send \in Nat /\ sent \in Nat
  /\ mode \in {"CONTINUOUS", "TRIGGER"}
  /\ trigger_event_sent \in BOOLEAN /\ trigger_data_active \in BOOLEAN
  /\ trigger_simulation_active \in BOOLEAN
  /\ trigger_data_active = trigger_event_sent
  /\ trigger_simulation_active => mode = "TRIGGER" /\ to_send >= 1
  /\ trigger_simulation_active /\ trigger_data_active =>
       planned = to_send /\ sent < to_send /\ log = Begun(sent)
  /\ log # <<>> /\ Last(log) = "COMPLETE" => log = Whole(planned)

(* Until the clock wraps, the stamp of the next packet is not ahead of the time,  *)
(* but by the one millisecond of a packet that has just been made.  After the   *)
(* last millisecond of the clock it is 0, and the next packet finds the clock    *)
(* wrapped.                                                                *)
StampInv ==
  /\ now \in 0..(ClockMod - 1) /\ timestamp_ms \in Nat /\ stamp \in Nat /\ wrapped \in BOOLEAN
  /\ ~wrapped =>
       /\ stamp <= now /\ timestamp_ms <= now + 1
       /\ last_data_time # now => timestamp_ms <= now
       /\ stamp <= timestamp_ms \/ (last_data_time = now /\ now = ClockMod - 1)
-----------------------------------------------------------------------------
LEMMA CsvStarts == CsvInit => CsvInv
<1> SUFFICES ASSUME CsvInit PROVE CsvInv
  OBVIOUS
<1>1. /\ csvPc = "init" /\ file \in Seq(Lines) /\ read = <<>> /\ rest = <<>> /\ row_count = 0
      /\ csv_data = <<>> /\ sample = Generated
  BY FilesAssumption DEF CsvInit
<1>2. CsvRead BY <1>1 DEF CsvRead
<1>3. CsvTaken BY <1>1 DEF CsvTaken
<1>4. QED BY <1>2, <1>3 DEF CsvInv

LEMMA ParseKeeps == ASSUME CsvInv, ParseLine PROVE CsvInv'
<1>1. CsvRead /\ CsvTaken BY DEF CsvInv
<1>2. /\ csvPc = "parse" /\ rest # <<>> /\ UNCHANGED <<csvPc, file, read, row_count, csv_rows, sample>>
      /\ read \in Seq(Lines) /\ rest \in Seq(Nat) /\ csv_data \in Seq(Nat)
  BY <1>1 DEF ParseLine, CsvRead
<1>3. PICK i \in Nat : i = Head(rest) BY <1>2
<1>4. /\ csv_data' = csv_data \/ (read[i] = "row" /\ csv_data' = Append(csv_data, i))
      /\ rest' = <<>> \/ rest' = Tail(rest)
  BY <1>3 DEF ParseLine
<1>5. i \in DOMAIN read
  <2>1. 1 \in 1..Len(rest) /\ i = rest[1] BY <1>2, <1>3
  <2>2. QED BY <1>1, <2>1 DEF CsvRead
<1>6. rest' \in Seq(Nat) /\ \A j \in 1..Len(rest') : rest'[j] \in DOMAIN read
  <2>1. CASE rest' = <<>> BY <2>1
  <2>2. CASE rest' = Tail(rest)
    <3>1. /\ rest' \in Seq(Nat) /\ Len(rest') = Len(rest) - 1
          /\ \A j \in 1..(Len(rest) - 1) : rest'[j] = rest[j + 1]
      BY <1>2, <2>2
    <3>2. \A j \in 1..Len(rest') : j + 1 \in 1..Len(rest) BY <1>2, <3>1
    <3>3. QED BY <1>1, <3>1, <3>2 DEF CsvRead
  <2>3. QED BY <1>4, <2>1, <2>2
<1>7. csv_data' \in Seq(Nat) /\ \A k \in 1..Len(csv_data') : csv_data'[k] \in DOMAIN read /\ read[csv_data'[k]] = "row"
  <2>1. CASE csv_data' = csv_data BY <1>1, <2>1 DEF CsvRead
  <2>2. CASE read[i] = "row" /\ csv_data' = Append(csv_data, i)
    <3>1. /\ Append(csv_data, i) \in Seq(Nat) /\ Len(Append(csv_data, i)) = Len(csv_data) + 1
          /\ Len(csv_data) \in Nat
          /\ \A k \in 1..Len(csv_data) : Append(csv_data, i)[k] = csv_data[k]
          /\ Append(csv_data, i)[Len(csv_data) + 1] = i
      BY <1>2
    <3>2. ASSUME NEW k \in 1..(Len(csv_data) + 1)
          PROVE  Append(csv_data, i)[k] \in DOMAIN read /\ read[Append(csv_data, i)[k]] = "row"
      <4>1. CASE k \in 1..Len(csv_data) BY <1>1, <3>1, <4>1 DEF CsvRead
      <4>2. CASE k = Len(csv_data) + 1 BY <1>5, <2>2, <3>1, <4>2
      <4>3. QED BY <3>1, <4>1, <4>2
    <3>3. QED BY <2>2, <3>1, <3>2
  <2>3. QED BY <1>4, <2>1, <2>2
<1>8. CsvRead' BY <1>1, <1>2, <1>6, <1>7 DEF CsvRead
<1>9. CsvTaken' BY <1>1, <1>2 DEF CsvTaken
<1>10. QED BY <1>8, <1>9 DEF CsvInv

LEMMA SampleKeeps == ASSUME CsvInv, NEW index \in Indexes, GetSample(index) PROVE CsvInv'
<1>1. CsvRead /\ CsvTaken BY DEF CsvInv
<1>2. /\ csvPc = "ready" /\ UNCHANGED <<csvPc, file, read, rest, row_count, csv_data, csv_rows>>
  BY DEF GetSample
<1>3. CsvRead' BY <1>1, <1>2 DEF CsvRead
<1>4. sample' # Generated => \E i \in DOMAIN read : read[i] = "row" /\ sample' = <<i>>
  <2> SUFFICES ASSUME row_count # 0, csv_rows # 0
               PROVE  \E i \in DOMAIN read : read[i] = "row" /\ sample' = <<i>>
    BY DEF GetSample
  <2>1. csv_rows = Len(csv_data) /\ csv_data \in Seq(Nat) BY <1>1, <1>2 DEF CsvTaken, CsvRead
  <2>2. PICK n \in Nat \ {0} : n = csv_rows BY <2>1
  <2>3. PICK r \in 0..(n - 1) : r = index % n BY <2>2, FilesAssumption, ModRange
  <2>4. r + 1 \in 1..Len(csv_data) /\ r + 1 \in DOMAIN csv_data BY <2>1, <2>2
  <2>5. sample' = <<csv_data[r + 1]>> BY <2>2, <2>3, <2>4 DEF GetSample
  <2>6. csv_data[r + 1] \in DOMAIN read /\ read[csv_data[r + 1]] = "row" BY <1>1, <2>4 DEF CsvRead
  <2>7. QED BY <2>5, <2>6
<1>5. CsvTaken' BY <1>1, <1>2, <1>4 DEF CsvTaken
<1>6. QED BY <1>3, <1>5 DEF CsvInv

LEMMA CsvStep == ASSUME CsvInv, [CsvNext]_csvVars PROVE CsvInv'
<1>1. CsvRead /\ CsvTaken BY DEF CsvInv
<1>2. CASE CountRows
  <2>1. /\ csvPc = "init" /\ csvPc' \in {"ready", "counted"} /\ (csvPc' = "ready" => row_count' = 0)
        /\ UNCHANGED <<file, read, rest, csv_data, csv_rows, sample>>
    BY <1>1, <1>2 DEF CountRows, CsvTaken
  <2>2. CsvRead' BY <1>1, <2>1 DEF CsvRead
  <2>3. CsvTaken' BY <1>1, <2>1 DEF CsvTaken
  <2>4. QED BY <2>2, <2>3 DEF CsvInv
<1>3. CASE ReadAgain
  <2>1. /\ csvPc = "counted" /\ csvPc' = "parse" /\ read' = file /\ rest' = [i \in DOMAIN file |-> i]
        /\ UNCHANGED <<file, row_count, csv_data, csv_rows, sample>>
        /\ csv_data = <<>> /\ file \in Seq(Lines)
    BY <1>1, <1>3 DEF ReadAgain, CsvTaken, CsvRead
  <2>2. rest' \in Seq(Nat) /\ \A i \in 1..Len(rest') : rest'[i] \in DOMAIN read' BY <2>1
  <2>3. CsvRead' BY <1>1, <2>1, <2>2 DEF CsvRead
  <2>4. CsvTaken' BY <1>1, <2>1 DEF CsvTaken
  <2>5. QED BY <2>3, <2>4 DEF CsvInv
<1>4. CASE Loaded
  <2>1. /\ csvPc = "parse" /\ csvPc' = "ready" /\ csv_rows' = Len(csv_data)
        /\ UNCHANGED <<file, read, rest, row_count, csv_data, sample>>
    BY <1>4 DEF Loaded
  <2>2. CsvRead' BY <1>1, <2>1 DEF CsvRead
  <2>3. CsvTaken' BY <1>1, <2>1 DEF CsvTaken
  <2>4. QED BY <2>2, <2>3 DEF CsvInv
<1>5. CASE Cleanup
  <2>1. /\ csvPc = "ready" /\ csvPc' = "ended"
        /\ UNCHANGED <<file, read, rest, row_count, csv_data, csv_rows, sample>>
    BY <1>5 DEF Cleanup
  <2>2. CsvRead' BY <1>1, <2>1 DEF CsvRead
  <2>3. CsvTaken' BY <1>1, <2>1 DEF CsvTaken
  <2>4. QED BY <2>2, <2>3 DEF CsvInv
<1>6. CASE Rewrite
  <2>1. file' \in Seq(Lines) /\ UNCHANGED <<csvPc, read, rest, row_count, csv_data, csv_rows, sample>>
    BY <1>6, FilesAssumption DEF Rewrite
  <2>2. CsvRead' BY <1>1, <2>1 DEF CsvRead
  <2>3. CsvTaken' BY <1>1, <2>1 DEF CsvTaken
  <2>4. QED BY <2>2, <2>3 DEF CsvInv
<1>7. CASE UNCHANGED csvVars
  <2>1. CsvRead' BY <1>1, <1>7 DEF CsvRead, csvVars
  <2>2. CsvTaken' BY <1>1, <1>7 DEF CsvTaken, csvVars
  <2>3. QED BY <2>1, <2>2 DEF CsvInv
<1>8. CASE ParseLine BY <1>8, ParseKeeps
<1>9. ASSUME NEW index \in Indexes, GetSample(index) PROVE CsvInv' BY <1>9, SampleKeeps
<1>10. QED BY <1>2, <1>3, <1>4, <1>5, <1>6, <1>7, <1>8, <1>9 DEF CsvNext

(* Although the file is counted and read in two passes and may be written in      *)
(* between, a sample is generated or comes from a row that was read, for every     *)
(* index and every limit on the rows (platform_abstraction.c, device_load_test_data *)
(* and data_source_get_sample).                                             *)
THEOREM SamplesComeFromRows == CsvSpec => []SamplesAreRead
<1>1. CsvInit => CsvInv
  BY CsvStarts
<1>2. CsvInv /\ [CsvNext]_csvVars => CsvInv'
  BY CsvStep
<1>3. CsvInv => SamplesAreRead
  <2> SUFFICES ASSUME CsvInv, NEW i \in ToSet(sample) PROVE i \in DOMAIN read /\ read[i] = "row"
    BY DEF SamplesAreRead
  <2>1. sample # Generated BY DEF ToSet, Generated
  <2>2. PICK j \in DOMAIN read : read[j] = "row" /\ sample = <<j>> BY <2>1 DEF CsvInv, CsvTaken
  <2>3. i = j BY <2>2 DEF ToSet
  <2>4. QED BY <2>2, <2>3
<1>4. QED
  BY <1>1, <1>2, <1>3, PTL DEF CsvSpec

-----------------------------------------------------------------------------
(* How time goes by in a pass of the loop.                                   *)
LEMMA TimeGoesBy ==
  ASSUME wrapped \in BOOLEAN, NEW t \in Nat, NEW d \in 0..MaxPass, Sleep(t, d)
  PROVE  /\ now' \in 0..(ClockMod - 1) /\ wrapped' \in BOOLEAN
         /\ ~wrapped' => ~wrapped /\ t + d < ClockMod /\ now' = t + d
<1>1. ClockMod \in Nat \ {0} /\ t + d \in Nat BY ClockAssumption
<1>2. now' = (t + d) % ClockMod /\ wrapped' = (wrapped \/ t + d >= ClockMod) BY DEF Sleep, Wrap
<1>3. now' \in 0..(ClockMod - 1) BY <1>1, <1>2, ModRange
<1>4. ~wrapped' => ~wrapped /\ t + d < ClockMod
  <2>1. ~wrapped' => ~wrapped /\ ~(t + d >= ClockMod) BY <1>2
  <2>2. QED BY <1>1, <2>1
<1>5. t + d < ClockMod => now' = t + d BY <1>1, <1>2, ModSmall
<1>6. QED BY <1>2, <1>3, <1>4, <1>5

LEMMA StampStarts == Init => StampInv
<1> SUFFICES ASSUME Init PROVE StampInv
  OBVIOUS
<1>1. /\ now = 1 /\ timestamp_ms = 0 /\ stamp = 0 /\ wrapped = FALSE
  BY DEF Init
<1>2. 1 \in 0..(ClockMod - 1) BY ClockAssumption
<1>3. stamp <= now /\ timestamp_ms <= now + 1 /\ timestamp_ms <= now /\ stamp <= timestamp_ms
  BY <1>1
<1>4. timestamp_ms \in Nat /\ stamp \in Nat /\ wrapped \in BOOLEAN /\ now \in 0..(ClockMod - 1)
  BY <1>1, <1>2
<1>5. QED BY <1>3, <1>4 DEF StampInv

(* A pass that makes no packet of the stream.                                  *)
LEMMA TimeKeeps ==
  ASSUME StampInv, UNCHANGED <<timestamp_ms, stamp>>, last_data_time' \in {last_data_time, now},
         NEW e \in 0..1, NEW d \in 0..MaxPass, Sleep(now + e, d)
  PROVE  StampInv' /\ (~wrapped' => stamp' >= stamp)
<1>1. /\ now \in 0..(ClockMod - 1) /\ timestamp_ms \in Nat /\ stamp \in Nat /\ wrapped \in BOOLEAN
      /\ now \in Nat /\ d \in Nat /\ e \in Nat /\ now + e \in Nat /\ ClockMod \in Nat
  BY ClockAssumption DEF StampInv
<1>2. /\ now' \in 0..(ClockMod - 1) /\ wrapped' \in BOOLEAN
      /\ ~wrapped' => ~wrapped /\ (now + e) + d < ClockMod /\ now' = (now + e) + d
  BY <1>1, TimeGoesBy
<1>3. ASSUME ~wrapped'
      PROVE  /\ stamp <= now' /\ timestamp_ms <= now' + 1
             /\ last_data_time' # now' => timestamp_ms <= now'
             /\ stamp <= timestamp_ms \/ (last_data_time' = now' /\ now' = ClockMod - 1)
  <2>1. /\ stamp <= now /\ timestamp_ms <= now + 1
        /\ last_data_time # now => timestamp_ms <= now
        /\ stamp <= timestamp_ms \/ (last_data_time = now /\ now = ClockMod - 1)
    BY <1>2, <1>3 DEF StampInv
  <2>2. now' = (now + e) + d /\ (now + e) + d < ClockMod BY <1>2, <1>3
  <2>3. CASE e + d = 0
    <3>1. now' = now BY <1>1, <2>2, <2>3
    <3>2. QED BY <1>1, <2>1, <3>1
  <2>4. CASE e + d > 0
    <3>1. now' >= now + 1 /\ now # ClockMod - 1 BY <1>1, <2>2, <2>4
    <3>2. stamp <= timestamp_ms /\ now' \in Nat BY <1>1, <1>2, <2>1, <3>1
    <3>3. stamp <= now' /\ timestamp_ms <= now' BY <1>1, <2>1, <3>1, <3>2
    <3>4. timestamp_ms <= now' + 1
      <4>1. timestamp_ms \in Nat /\ now' \in Nat /\ timestamp_ms <= now' BY <1>1, <3>2, <3>3
      <4>2. \A a \in Nat : \A b \in Nat : a <= b => a <= b + 1 OBVIOUS
      <4>3. QED BY <4>1, <4>2
    <3>5. QED BY <3>2, <3>3, <3>4
  <2>5. QED BY <1>1, <2>3, <2>4
<1>4. timestamp_ms' \in Nat /\ stamp' \in Nat /\ stamp' >= stamp BY <1>1
<1>5. StampInv'
  <2>1. now' \in 0..(ClockMod - 1) /\ wrapped' \in BOOLEAN BY <1>2
  <2>2. QED BY <1>3, <1>4, <2>1 DEF StampInv
<1>6. QED BY <1>4, <1>5

LEMMA PacketKeeps ==
  ASSUME StampInv, GenerateDataPacket PROVE StampInv' /\ (~wrapped' => stamp' >= stamp)
<1>1. /\ now \in 0..(ClockMod - 1) /\ timestamp_ms \in Nat /\ stamp \in Nat /\ wrapped \in BOOLEAN
      /\ now \in Nat /\ ClockMod \in Nat \ {0}
  BY ClockAssumption DEF StampInv
<1>2. PICK d \in 0..MaxPass : Sleep(now, d) BY DEF GenerateDataPacket
<1>3. /\ last_data_time # now /\ last_data_time' = now
      /\ stamp' = timestamp_ms /\ timestamp_ms' = (timestamp_ms + 1) % ClockMod
  BY DEF GenerateDataPacket, DataDue, Wrap
<1>4. /\ now' \in 0..(ClockMod - 1) /\ wrapped' \in BOOLEAN
      /\ ~wrapped' => ~wrapped /\ now + d < ClockMod /\ now' = now + d
  BY <1>1, <1>2, TimeGoesBy
<1>5. d \in Nat BY ClockAssumption
<1>6. timestamp_ms' \in 0..(ClockMod - 1) /\ stamp' \in Nat
  <2>1. timestamp_ms + 1 \in Nat BY <1>1
  <2>2. QED BY <1>1, <1>3, <2>1, ModRange
<1>7. ASSUME ~wrapped'
      PROVE  /\ stamp' >= stamp
             /\ stamp' <= now' /\ timestamp_ms' <= now' + 1
             /\ last_data_time' # now' => timestamp_ms' <= now'
             /\ stamp' <= timestamp_ms' \/ (last_data_time' = now' /\ now' = ClockMod - 1)
  <2>1. stamp <= timestamp_ms /\ timestamp_ms <= now BY <1>3, <1>4, <1>7 DEF StampInv
  <2>2. now' = now + d /\ now + d < ClockMod BY <1>4, <1>7
  <2>3. CASE timestamp_ms + 1 < ClockMod
    <3>1. timestamp_ms' = timestamp_ms + 1
      <4>1. timestamp_ms + 1 \in Nat BY <1>1
      <4>2. QED BY <1>1, <1>3, <2>3, <4>1, ModSmall
    <3>2. QED BY <1>1, <1>3, <1>5, <2>1, <2>2, <3>1
  <2>4. CASE timestamp_ms + 1 >= ClockMod
    <3>1. timestamp_ms = ClockMod - 1 /\ now = ClockMod - 1 /\ d = 0
      BY <1>1, <1>5, <2>1, <2>2, <2>4
    <3>2. now' = now BY <1>1, <2>2, <3>1
    <3>3. timestamp_ms' <= now' BY <1>1, <1>6, <3>1, <3>2
    <3>4. QED BY <1>1, <1>3, <1>6, <2>1, <3>1, <3>2, <3>3
  <2>5. QED BY <1>1, <2>3, <2>4
<1>8. StampInv'
  <2>1. now' \in 0..(ClockMod - 1) /\ wrapped' \in BOOLEAN BY <1>4
  <2>2. timestamp_ms' \in Nat BY <1>1, <1>6
  <2>3. QED BY <1>6, <1>7, <2>1, <2>2 DEF StampInv
<1>9. QED BY <1>7, <1>8

(* The rest of the program sets the stamp by the clock, or leaves it.            *)
LEMMA StampStep ==
  ASSUME StampInv, [Next]_vars PROVE StampInv' /\ (~wrapped' => stamp' >= stamp)
<1> USE DEF conf, trigger, clock, history
<1>1. /\ now \in 0..(ClockMod - 1) /\ timestamp_ms \in Nat /\ stamp \in Nat /\ wrapped \in BOOLEAN
      /\ now \in Nat /\ ClockMod \in Nat
  BY ClockAssumption DEF StampInv
<1>2. ASSUME UNCHANGED <<now, wrapped, last_data_time, stamp>>, timestamp_ms' \in {timestamp_ms, now}
      PROVE  StampInv' /\ (~wrapped' => stamp' >= stamp)
  <2>1. timestamp_ms' \in Nat BY <1>1, <1>2
  <2>2. ASSUME ~wrapped
        PROVE  /\ timestamp_ms' <= now + 1 /\ (last_data_time # now => timestamp_ms' <= now)
               /\ stamp <= timestamp_ms' \/ (last_data_time = now /\ now = ClockMod - 1)
    BY <1>1, <1>2, <2>2 DEF StampInv
  <2>3. QED BY <1>1, <1>2, <2>1, <2>2 DEF StampInv
<1>3. CASE Start \/ Receive \/ PeerCloses \/ UNCHANGED vars
  <2>1. UNCHANGED <<now, wrapped, last_data_time, stamp>> /\ timestamp_ms' \in {timestamp_ms, now}
    BY <1>3 DEF Start, Receive, PeerCloses, vars
  <2>2. QED BY <1>2, <2>1
<1>4. ASSUME NEW c \in Requests, ProcessCommand(c)
      PROVE  StampInv' /\ (~wrapped' => stamp' >= stamp)
  <2>1. UNCHANGED <<now, wrapped, last_data_time, stamp>> /\ timestamp_ms' \in {timestamp_ms, now}
    BY <1>4 DEF ProcessCommand, AnswerOnly, SetModeContinuous, SetModeTrigger, StartStream,
                StopStream, ConfigureStream, RequestBufferedData
  <2>2. QED BY <1>2, <2>1
<1>5. CASE Rest
  <2>1. UNCHANGED <<last_data_time, timestamp_ms, stamp>> /\ now + 0 = now
    BY <1>1, <1>5 DEF Rest
  <2>2. PICK d \in 0..MaxPass : Sleep(now + 0, d) BY <1>5, <2>1 DEF Rest
  <2>3. QED BY <2>1, <2>2, TimeKeeps
<1>6. CASE HandleNothing
  <2>1. /\ UNCHANGED <<timestamp_ms, stamp>> /\ now + 0 = now
        /\ last_data_time' = now /\ last_data_time # now
    BY <1>1, <1>6 DEF HandleNothing, DataDue
  <2>2. PICK d \in 0..MaxPass : Sleep(now + 0, d) BY <1>6, <2>1 DEF HandleNothing
  <2>3. QED BY <2>1, <2>2, TimeKeeps
<1>7. CASE HandleTriggerSimulation
  <2>1. UNCHANGED <<timestamp_ms, stamp>> /\ last_data_time' = now /\ last_data_time # now
    BY <1>7 DEF HandleTriggerSimulation, DataDue
  <2>2. PICK e \in 0..1, d \in 0..MaxPass : Sleep(now + e, d) BY <1>7 DEF HandleTriggerSimulation
  <2>3. QED BY <2>1, <2>2, TimeKeeps
<1>8. CASE GenerateDataPacket BY <1>8, PacketKeeps
<1>9. QED BY <1>3, <1>4, <1>5, <1>6, <1>7, <1>8 DEF Next, Loop

(* Until the 32-bit clock wraps, the stamps of the stream never go back, although *)
(* they count packets and each START sets them by the clock: there is at most one *)
(* packet a millisecond, for every length of a pass (device_simulator.c,        *)
(* device_generate_data_packet; main.c).                                      *)
THEOREM StampsNeverGoBack == Spec => StampsAdvance
<1>1. Init => StampInv
  BY StampStarts
<1>2. StampInv /\ [Next]_vars => StampInv' /\ [~wrapped' => stamp' >= stamp]_vars
  BY StampStep
<1>3. QED
  BY <1>1, <1>2, PTL DEF Spec, StampsAdvance

-----------------------------------------------------------------------------
(* The frames of a burst, one more packet at a time.                          *)
LEMMA BurstGrows ==
  ASSUME NEW n \in Nat
  PROVE  /\ Begun(n) \in Seq(Frames) /\ Begun(n) # <<>> /\ Last(Begun(n)) # "COMPLETE"
         /\ Begun(n) \o <<"BURST">> = Begun(n + 1)
         /\ Whole(n) \in Seq(Frames)
<1>1. /\ <<"EVENT">> \in Seq(Frames) /\ <<"BURST">> \in Seq(Frames) /\ <<"COMPLETE">> \in Seq(Frames)
      /\ Bursts(n) \in Seq(Frames) /\ Len(Bursts(n)) = n /\ \A i \in 1..n : Bursts(n)[i] = "BURST"
  BY DEF Frames, Bursts
<1>2. /\ Begun(n) \in Seq(Frames) /\ Len(Begun(n)) = 1 + n /\ Begun(n)[1] = "EVENT"
      /\ \A i \in 2..(1 + n) : Begun(n)[i] = "BURST"
  <2>1. Begun(n) = <<"EVENT">> \o Bursts(n) BY DEF Begun
  <2> HIDE DEF Bursts
  <2>2. /\ Len(<<"EVENT">>) = 1 /\ <<"EVENT">>[1] = "EVENT"
        /\ \A i \in 1..n : (<<"EVENT">> \o Bursts(n))[1 + i] = Bursts(n)[i]
        /\ (<<"EVENT">> \o Bursts(n))[1] = "EVENT"
        /\ Len(<<"EVENT">> \o Bursts(n)) = 1 + n
    BY <1>1
  <2>3. \A i \in 2..(1 + n) : i - 1 \in 1..n /\ 1 + (i - 1) = i OBVIOUS
  <2>4. \A i \in 2..(1 + n) : (<<"EVENT">> \o Bursts(n))[i] = Bursts(n)[i - 1] BY <2>2, <2>3
  <2>5. QED BY <1>1, <2>1, <2>2, <2>3, <2>4
<1>3. Begun(n) # <<>> /\ Last(Begun(n)) # "COMPLETE"
  <2>1. 1 + n \in 1..(1 + n) /\ (1 + n = 1 \/ 1 + n \in 2..(1 + n)) OBVIOUS
  <2>2. Begun(n)[1 + n] # "COMPLETE" BY <1>2, <2>1
  <2>3. QED BY <1>2, <2>2 DEF Last
<1>4. Begun(n) \o <<"BURST">> = Begun(n + 1)
  <2>1. Bursts(n) \o <<"BURST">> = Bursts(n + 1)
    BY DEF Bursts
  <2> HIDE DEF Bursts
  <2>2. (<<"EVENT">> \o Bursts(n)) \o <<"BURST">> = <<"EVENT">> \o (Bursts(n) \o <<"BURST">>)
    BY <1>1
  <2>3. QED BY <2>1, <2>2 DEF Begun
<1>5. QED BY <1>1, <1>2, <1>3, <1>4 DEF Whole

LEMMA SimulateKeeps ==
  ASSUME BurstInv, NEW t, Simulate(t), trigger_simulation_active,
         UNCHANGED <<mode, trigger_simulation_active>>
  PROVE  BurstInv'
<1>1. /\ log \in Seq(Frames) /\ planned \in Nat /\ to_send \in Nat /\ sent \in Nat
      /\ trigger_data_active = trigger_event_sent /\ to_send >= 1
      /\ trigger_event_sent \in BOOLEAN /\ trigger_data_active \in BOOLEAN
  BY DEF BurstInv
<1> DEFINE packet == IF PacketDue(t) THEN <<"BURST">> ELSE <<>>
           end    == IF Completes(t) THEN <<"COMPLETE">> ELSE <<>>
<1>2. packet \in Seq(Frames) /\ end \in Seq(Frames)
  <2>1. <<"BURST">> \in Seq(Frames) /\ <<"COMPLETE">> \in Seq(Frames) /\ <<>> \in Seq(Frames)
    BY DEF Frames
  <2>2. QED BY <2>1
<1>3. NewFrames(t) = (FireFrames(t) \o packet) \o end BY DEF NewFrames
<1>4. /\ log' = IF Fires(t) THEN NewFrames(t) ELSE log \o NewFrames(t)
      /\ planned' = IF Fires(t) THEN to_send ELSE planned
  BY DEF Simulate
<1>5. CASE ~Fires(t) /\ ~trigger_data_active
  <2>1. ~PacketDue(t) /\ ~Completes(t) /\ SentNow(t) = sent
    BY <1>5 DEF PacketDue, Completes, SentNow, SentByEvent
  <2>2. FireFrames(t) = <<>> /\ packet = <<>> /\ end = <<>> BY <1>5, <2>1 DEF FireFrames
  <2>3. NewFrames(t) = <<>> BY <1>3, <2>2
  <2>4. log' = log BY <1>1, <1>4, <1>5, <2>3
  <2>5. /\ UNCHANGED <<planned, to_send, log>> /\ sent' = sent
        /\ trigger_event_sent' = trigger_event_sent /\ trigger_data_active' = trigger_data_active
    BY <1>1, <1>4, <1>5, <2>1, <2>4 DEF Simulate
  <2>6. QED BY <2>5 DEF BurstInv
<1>6. CASE Fires(t) \/ trigger_data_active
  <2>1. PICK s \in Nat : s = SentByEvent(t) BY <1>1 DEF SentByEvent
  <2>2. s <= to_send /\ log' = (Begun(s) \o packet) \o end /\ planned' = to_send
    <3>1. CASE Fires(t)
      <4>1. s = 1 /\ FireFrames(t) = <<"EVENT", "BURST">> /\ log' = NewFrames(t) /\ planned' = to_send
        BY <1>4, <2>1, <3>1 DEF SentByEvent, FireFrames
      <4>2. Begun(1) = <<"EVENT", "BURST">>
        <5>1. Bursts(1) = <<"BURST">> BY DEF Bursts
        <5>2. <<"EVENT">> \o <<"BURST">> = <<"EVENT", "BURST">>
          <6> DEFINE two == <<"EVENT">> \o <<"BURST">>
          <6>1. <<"EVENT">> \in Seq(Frames) /\ <<"BURST">> \in Seq(Frames) BY DEF Frames
          <6>2. /\ two \in Seq(Frames) /\ Len(two) = 2 /\ two[1] = "EVENT" /\ two[1 + 1] = "BURST"
            BY <6>1
          <6>3. /\ <<"EVENT", "BURST">> \in Seq(Frames) /\ Len(<<"EVENT", "BURST">>) = 2
            BY DEF Frames
          <6> HIDE DEF two
          <6>4. \A i \in 1..2 : two[i] = <<"EVENT", "BURST">>[i] BY <6>2
          <6>5. two = <<"EVENT", "BURST">> BY <6>2, <6>3, <6>4, EqualQueues
          <6>6. QED BY <6>5 DEF two
        <5>3. QED BY <5>1, <5>2 DEF Begun
      <4>3. QED BY <1>1, <1>3, <4>1, <4>2
    <3>2. CASE ~Fires(t)
      <4>1. s = sent /\ FireFrames(t) = <<>> /\ log' = log \o NewFrames(t) /\ planned' = planned
        BY <1>4, <2>1, <3>2 DEF SentByEvent, FireFrames
      <4>2. planned = to_send /\ sent < to_send /\ log = Begun(sent)
        BY <1>6, <3>2 DEF BurstInv
      <4> HIDE DEF packet, end
      <4>3. NewFrames(t) = packet \o end BY <1>2, <1>3, <4>1
      <4>4. log \o (packet \o end) = (log \o packet) \o end BY <1>1, <1>2
      <4>5. QED BY <1>1, <4>1, <4>2, <4>3, <4>4
    <3>3. QED BY <3>1, <3>2
  <2>3. PICK n \in Nat : n = SentNow(t)
    <3>1. SentNow(t) = IF PacketDue(t) THEN s + 1 ELSE s BY <2>1 DEF SentNow
    <3>2. QED BY <3>1
  <2>4. n <= to_send /\ Begun(s) \o packet = Begun(n)
    <3>1. CASE PacketDue(t)
      <4>1. n = s + 1 /\ s < to_send /\ packet = <<"BURST">>
        BY <2>1, <2>3, <3>1 DEF SentNow, PacketDue
      <4>2. Begun(s) \o <<"BURST">> = Begun(s + 1) BY BurstGrows
      <4>3. n <= to_send BY <1>1, <4>1
      <4>4. QED BY <4>1, <4>2, <4>3
    <3>2. CASE ~PacketDue(t)
      <4>1. n = s /\ packet = <<>> BY <2>1, <2>3, <3>2 DEF SentNow
      <4>2. Begun(s) \in Seq(Frames) BY BurstGrows
      <4>3. QED BY <2>2, <4>1, <4>2
    <3>3. QED BY <3>1, <3>2
  <2>5. log' = Begun(n) \o end BY <2>2, <2>4
  <2>6. Completes(t) <=> n >= to_send BY <1>6, <2>3 DEF Completes
  <2>7. CASE Completes(t)
    <3>1. n = to_send BY <1>1, <2>4, <2>6, <2>7
    <3>2. log' = Whole(planned') BY <2>2, <2>5, <2>7, <3>1 DEF Whole
    <3>3. /\ to_send' \in Nat /\ to_send' >= 1 /\ sent' = 0
          /\ trigger_event_sent' = FALSE /\ trigger_data_active' = FALSE
      <4>1. Schedule(t) BY <2>7 DEF Simulate
      <4>2. to_send' \in PacketCounts /\ sent' = 0 /\ trigger_event_sent' = FALSE /\ trigger_data_active' = FALSE
        BY <4>1 DEF Schedule
      <4>3. \A k \in PacketCounts : k \in Nat /\ k >= 1 BY BurstAssumption
      <4>4. QED BY <4>2, <4>3
    <3>4. log' \in Seq(Frames) /\ planned' \in Nat BY <1>1, <2>2, <3>2, BurstGrows
    <3>5. QED BY <3>2, <3>3, <3>4 DEF BurstInv
  <2>8. CASE ~Completes(t)
    <3>1. Begun(n) \in Seq(Frames) /\ Begun(n) # <<>> /\ Last(Begun(n)) # "COMPLETE" BY BurstGrows
    <3>2. log' = Begun(n) BY <2>5, <2>8, <3>1
    <3>3. n < to_send BY <1>1, <2>6, <2>8
    <3>4. sent' = n /\ trigger_event_sent' = (trigger_event_sent \/ Fires(t)) /\ to_send' = to_send
          /\ trigger_data_active' = (trigger_data_active \/ Fires(t))
      BY <2>3, <2>8 DEF Simulate
    <3>5. trigger_event_sent' = TRUE /\ trigger_data_active' = TRUE BY <1>1, <1>6, <3>4
    <3>6. ~(log' # <<>> /\ Last(log') = "COMPLETE") BY <3>1, <3>2
    <3>7. QED BY <1>1, <2>2, <3>1, <3>2, <3>3, <3>4, <3>5, <3>6 DEF BurstInv
  <2>9. QED BY <2>7, <2>8
<1>7. QED BY <1>5, <1>6

LEMMA BurstStep == ASSUME BurstInv, [Next]_vars PROVE BurstInv'
<1> USE DEF conf, trigger, clock, history
<1>1. CASE Start \/ Receive \/ PeerCloses \/ Rest \/ HandleNothing \/ UNCHANGED vars
  <2>1. UNCHANGED <<mode, trigger, log, planned>>
    BY <1>1 DEF Start, Receive, PeerCloses, Rest, HandleNothing, vars
  <2>2. QED BY <2>1 DEF BurstInv
<1>2. ASSUME NEW c \in Requests, ProcessCommand(c) PROVE BurstInv'
  <2>1. CASE AnswerOnly(c) \/ StartStream(c) \/ ConfigureStream(c) \/ RequestBufferedData(c)
    <3>1. UNCHANGED <<mode, trigger, log, planned>>
      BY <2>1 DEF AnswerOnly, StartStream, ConfigureStream, RequestBufferedData
    <3>2. QED BY <3>1 DEF BurstInv
  <2>2. CASE SetModeContinuous(c) \/ StopStream(c)
    <3>1. /\ UNCHANGED <<log, planned, to_send, sent, trigger_event_sent, trigger_data_active>>
          /\ trigger_simulation_active' = FALSE /\ mode' \in {mode, "CONTINUOUS"}
      BY <2>2 DEF SetModeContinuous, StopStream
    <3>2. QED BY <3>1 DEF BurstInv
  <2>3. CASE SetModeTrigger(c)
    <3>1. /\ UNCHANGED <<log, planned>> /\ mode' = "TRIGGER" /\ trigger_simulation_active' = TRUE
          /\ to_send' \in Nat /\ to_send' >= 1 /\ sent' = 0
          /\ trigger_event_sent' = FALSE /\ trigger_data_active' = FALSE
      BY <2>3, BurstAssumption DEF SetModeTrigger, Schedule
    <3>2. QED BY <3>1 DEF BurstInv
  <2>4. QED BY <1>2, <2>1, <2>2, <2>3 DEF ProcessCommand
<1>3. CASE GenerateDataPacket
  <2>1. /\ mode = "CONTINUOUS" /\ UNCHANGED <<mode, trigger, planned>> /\ log' = Unasked(log, "STREAM")
    BY <1>3 DEF GenerateDataPacket
  <2>2. ~trigger_simulation_active /\ log \in Seq(Frames) BY <2>1 DEF BurstInv
  <2>3. log' \in Seq(Frames) /\ Last(log') = "STREAM"
    <3>1. CASE log # <<>> /\ Last(log) = "STREAM" BY <2>1, <2>2, <3>1 DEF Unasked
    <3>2. CASE ~(log # <<>> /\ Last(log) = "STREAM")
      <4>1. log' = Append(log, "STREAM") /\ "STREAM" \in Frames BY <2>1, <3>2 DEF Unasked, Frames
      <4>2. QED BY <2>2, <4>1 DEF Last
    <3>3. QED BY <3>1, <3>2
  <2>4. QED BY <2>1, <2>2, <2>3 DEF BurstInv
<1>4. CASE HandleTriggerSimulation
  <2>1. trigger_simulation_active /\ UNCHANGED <<mode, trigger_simulation_active>>
    BY <1>4 DEF HandleTriggerSimulation
  <2>2. PICK t : Simulate(t)
    <3>1. PICK e \in 0..1 : Simulate(Wrap(now + e)) BY <1>4 DEF HandleTriggerSimulation
    <3>2. QED BY <3>1
  <2>3. QED BY <2>1, <2>2, SimulateKeeps
<1>5. QED BY <1>1, <1>2, <1>3, <1>4 DEF Next, Loop

(* A completion closes a burst of which nothing is missing and into which        *)
(* nothing was mixed, whatever commands come in between and however the clock     *)
(* goes, for every length of a burst (device_simulator.c,                       *)
(* device_handle_trigger_simulation).                                        *)
THEOREM BurstsAreWhole == Spec => []ClosedBurstsWhole
<1>1. Init => BurstInv
  <2> SUFFICES ASSUME Init PROVE BurstInv
    OBVIOUS
  <2>1. /\ log = <<>> /\ planned = 0 /\ to_send = 0 /\ sent = 0 /\ mode = "CONTINUOUS"
        /\ trigger_event_sent = FALSE /\ trigger_data_active = FALSE
        /\ trigger_simulation_active = FALSE
    BY DEF Init
  <2>2. log \in Seq(Frames) BY <2>1
  <2>3. QED BY <2>1, <2>2 DEF BurstInv
<1>2. BurstInv /\ [Next]_vars => BurstInv'
  BY BurstStep
<1>3. BurstInv => ClosedBurstsWhole
  BY DEF BurstInv, ClosedBurstsWhole, Whole, Begun, Bursts
<1>4. QED
  BY <1>1, <1>2, <1>3, PTL DEF Spec

-----------------------------------------------------------------------------
(* SerialRead: what the files hold, piece by piece; Written is Stored(disk).     *)
Pieces(d) == [i \in 1..d.opened |-> IF i \in DOMAIN d.files THEN d.files[i] ELSE <<>>]
Stored(d) == FlattenSeq(Pieces(d))
Rising(s) == \A i, j \in 1..Len(s) : i < j => s[i] < s[j]
Counted(n) == [i \in 1..n |-> i]

Disks == [fp : Nat, opened : Nat, inFile : Nat, files : UNION {[D -> Seq(Nat)] : D \in SUBSET Nat}]

(* The open file is the last one, and only the last one may have room; where no file  *)
(* is open, the last one is missing.                                          *)
DiskInv(d) ==
  /\ d \in Disks
  /\ DOMAIN d.files \subseteq 1..d.opened
  /\ d.fp = NoFile => d.opened \notin DOMAIN d.files
  /\ d.fp # NoFile => /\ d.fp = d.opened /\ d.fp \in DOMAIN d.files
                      /\ d.inFile = Len(d.files[d.fp])
  /\ \A i \in DOMAIN d.files : /\ Len(d.files[i]) <= MaxPerFile
                               /\ i # d.opened => Len(d.files[i]) = MaxPerFile

Complete(d) == DOMAIN d.files = 1..d.opened

(* n frames have come, of which those in waiting are not written yet.            *)
Kept(d, waiting, n) ==
  /\ waiting \in Seq(Nat) /\ n \in Nat
  /\ Rising(Stored(d) \o waiting)
  /\ \A i \in 1..Len(Stored(d) \o waiting) : (Stored(d) \o waiting)[i] <= n
  /\ Complete(d) => Stored(d) \o waiting = Counted(n)

ReaderInv ==
  /\ readerPc \in {"boot", "loop", "ended", "undefined"}
  /\ DiskInv(disk) /\ Kept(disk, g_frameBatch, g_totalFrameCount)
  /\ readerPc = "boot" => disk = NoDisk /\ g_frameBatch = <<>>
  /\ readerPc # "boot" => disk.opened >= 1
  /\ readerPc = "loop" /\ disk.fp # NoFile => Len(g_frameBatch) < Batch
  /\ readerPc = "ended" /\ disk.fp # NoFile => g_frameBatch = <<>>
  /\ readerPc = "undefined" => disk.fp = NoFile

LEMMA PiecesType ==
  ASSUME NEW d, DiskInv(d)
  PROVE  /\ Pieces(d) \in Seq(Seq(Nat)) /\ Stored(d) \in Seq(Nat)
         /\ d.opened \in Nat /\ Len(Pieces(d)) = d.opened
         /\ \A i \in 1..d.opened :
              Pieces(d)[i] = IF i \in DOMAIN d.files THEN d.files[i] ELSE <<>>
<1>1. d.opened \in Nat /\ \A i \in DOMAIN d.files : d.files[i] \in Seq(Nat)
  BY DEF DiskInv, Disks
<1>2. <<>> \in Seq(Nat) OBVIOUS
<1>3. \A i \in 1..d.opened : (IF i \in DOMAIN d.files THEN d.files[i] ELSE <<>>) \in Seq(Nat)
  BY <1>1, <1>2
<1>4. Pieces(d) \in Seq(Seq(Nat)) /\ Len(Pieces(d)) = d.opened
  <2>1. Pieces(d) \in [1..d.opened -> Seq(Nat)] BY <1>3 DEF Pieces
  <2>2. QED BY <1>1, <2>1
<1>5. Stored(d) \in Seq(Nat)
  BY <1>4, FlattenType DEF Stored
<1>6. QED BY <1>1, <1>4, <1>5 DEF Pieces

LEMMA AppendNothing ==
  ASSUME NEW d, NEW e, DiskInv(d), Pieces(e) = Append(Pieces(d), <<>>)
  PROVE  Stored(e) = Stored(d)
<1>1. PICK q \in Seq(Seq(Nat)) : q = Pieces(d) BY PiecesType
<1>2. <<>> \in Seq(Nat) OBVIOUS
<1>3. FlattenSeq(Append(q, <<>>)) = FlattenSeq(q) \o <<>> BY <1>2, FlattenAppend
<1>4. FlattenSeq(q) \in Seq(Nat) BY FlattenType
<1>5. FlattenSeq(q) \o <<>> = FlattenSeq(q) BY <1>4
<1>6. QED BY <1>1, <1>3, <1>5 DEF Stored

(* A file is opened behind one that is full, or the attempt fails: nothing is stored by it. *)
LEMMA OpenKeeps ==
  ASSUME NEW d, NEW broken, DiskInv(d),
         d.fp # NoFile => d.inFile >= MaxPerFile,
         NEW e, e = OpenNext(d, broken)
  PROVE  /\ DiskInv(e) /\ e.opened = d.opened + 1 /\ Stored(e) = Stored(d)
         /\ e.fp # NoFile => e.inFile = 0
         /\ Complete(e) => Complete(d) /\ e.fp # NoFile
<1> DEFINE i == d.opened + 1
<1>1. /\ d.opened \in Nat /\ i \in Nat /\ i # NoFile /\ d.inFile \in Nat
      /\ i \notin DOMAIN d.files /\ MaxPerFile \in Nat
      /\ \A j \in DOMAIN d.files : j \in 1..d.opened /\ d.files[j] \in Seq(Nat)
  BY BatchAssumption DEF DiskInv, Disks, NoFile
<1>2. \A j \in DOMAIN d.files : Len(d.files[j]) = MaxPerFile
  <2> SUFFICES ASSUME NEW j \in DOMAIN d.files PROVE Len(d.files[j]) = MaxPerFile
    OBVIOUS
  <2>1. CASE j # d.opened BY <2>1 DEF DiskInv
  <2>2. CASE j = d.opened
    <3>1. d.fp # NoFile /\ d.fp = j /\ d.inFile = Len(d.files[j]) BY <2>2 DEF DiskInv
    <3>2. Len(d.files[j]) <= MaxPerFile /\ Len(d.files[j]) \in Nat BY <1>1 DEF DiskInv
    <3>3. QED BY <1>1, <3>1, <3>2
  <2>3. QED BY <2>1, <2>2
<1>3. CASE i \in broken
  <2>1. e = [d EXCEPT !.fp = NoFile, !.opened = i] BY <1>3 DEF OpenNext
  <2>2. /\ e \in Disks /\ e.fp = NoFile /\ e.opened = i /\ e.files = d.files
    <3> DEFINE F == UNION {[D -> Seq(Nat)] : D \in SUBSET Nat}
    <3>1. d \in [fp : Nat, opened : Nat, inFile : Nat, files : F] BY DEF DiskInv, Disks
    <3>2. NoFile \in Nat BY DEF NoFile
    <3> HIDE DEF F
    <3>3. /\ e \in [fp : Nat, opened : Nat, inFile : Nat, files : F]
          /\ e.fp = NoFile /\ e.opened = i /\ e.files = d.files
      BY <1>1, <2>1, <3>1, <3>2
    <3>4. QED BY <3>3 DEF Disks, F
  <2>3. DiskInv(e) BY <1>1, <1>2, <2>2 DEF DiskInv
  <2>4. Pieces(e) = Append(Pieces(d), <<>>)
    <3>1. Len(Pieces(d)) = d.opened /\ Pieces(d) \in Seq(Seq(Nat)) BY PiecesType
    <3>2. Append(Pieces(d), <<>>) = [j \in 1..i |-> IF j = i THEN <<>> ELSE Pieces(d)[j]]
      <4>1. PICK z \in Seq(Nat) : z = <<>>
        <5>1. <<>> \in Seq(Nat) OBVIOUS
        <5>2. QED BY <5>1
      <4>2. PICK q \in Seq(Seq(Nat)) : q = Pieces(d) BY <3>1
      <4>3. Append(q, z) = [j \in 1..(Len(q) + 1) |-> IF j = Len(q) + 1 THEN z ELSE q[j]]
        BY AppendIs
      <4>4. Len(q) + 1 = i BY <3>1, <4>2
      <4>5. QED BY <4>1, <4>2, <4>3, <4>4
    <3>3. ASSUME NEW j \in 1..i
          PROVE  (IF j \in DOMAIN e.files THEN e.files[j] ELSE <<>>)
                 = IF j = i THEN <<>> ELSE Pieces(d)[j]
      BY <1>1, <2>2 DEF Pieces
    <3>4. Pieces(e) = [j \in 1..i |-> IF j \in DOMAIN e.files THEN e.files[j] ELSE <<>>]
      BY <2>2 DEF Pieces
    <3>5. QED BY <3>2, <3>3, <3>4
  <2>5. ~Complete(e) BY <1>1, <2>2 DEF Complete
  <2>6. Stored(e) = Stored(d) BY <2>4, AppendNothing
  <2>7. QED BY <2>2, <2>3, <2>5, <2>6
<1>4. CASE i \notin broken
  <2>1. e = [fp |-> i, opened |-> i, inFile |-> 0,
             files |-> [j \in DOMAIN d.files \cup {i} |-> IF j = i THEN <<>> ELSE d.files[j]]]
    BY <1>4 DEF OpenNext
  <2>2. /\ e.fp = i /\ e.opened = i /\ e.inFile = 0
        /\ DOMAIN e.files = DOMAIN d.files \cup {i} /\ e.files[i] = <<>>
        /\ \A j \in DOMAIN d.files : e.files[j] = d.files[j]
    BY <1>1, <2>1
  <2>3. e \in Disks
    <3> DEFINE D == DOMAIN d.files \cup {i}
               files == [j \in D |-> IF j = i THEN <<>> ELSE d.files[j]]
    <3>1. D \subseteq Nat /\ <<>> \in Seq(Nat) BY <1>1
    <3>2. files \in [D -> Seq(Nat)] BY <1>1, <3>1
    <3> HIDE DEF D, files
    <3>3. files \in UNION {[E -> Seq(Nat)] : E \in SUBSET Nat} BY <3>1, <3>2
    <3>4. e = [fp |-> i, opened |-> i, inFile |-> 0, files |-> files] BY <2>1 DEF D, files
    <3>5. QED BY <1>1, <3>3, <3>4 DEF Disks
  <2>4. DiskInv(e)
    <3>1. Len(<<>>) = 0 OBVIOUS
    <3>2. QED BY <1>1, <1>2, <2>2, <2>3, <3>1 DEF DiskInv
  <2>5. Pieces(e) = Append(Pieces(d), <<>>)
    <3>1. Len(Pieces(d)) = d.opened /\ Pieces(d) \in Seq(Seq(Nat)) BY PiecesType
    <3>2. Append(Pieces(d), <<>>) = [j \in 1..i |-> IF j = i THEN <<>> ELSE Pieces(d)[j]]
      <4>1. PICK z \in Seq(Nat) : z = <<>>
        <5>1. <<>> \in Seq(Nat) OBVIOUS
        <5>2. QED BY <5>1
      <4>2. PICK q \in Seq(Seq(Nat)) : q = Pieces(d) BY <3>1
      <4>3. Append(q, z) = [j \in 1..(Len(q) + 1) |-> IF j = Len(q) + 1 THEN z ELSE q[j]]
        BY AppendIs
      <4>4. Len(q) + 1 = i BY <3>1, <4>2
      <4>5. QED BY <4>1, <4>2, <4>3, <4>4
    <3>3. ASSUME NEW j \in 1..i
          PROVE  (IF j \in DOMAIN e.files THEN e.files[j] ELSE <<>>)
                 = IF j = i THEN <<>> ELSE Pieces(d)[j]
      BY <1>1, <2>2 DEF Pieces
    <3>4. Pieces(e) = [j \in 1..i |-> IF j \in DOMAIN e.files THEN e.files[j] ELSE <<>>]
      BY <2>2 DEF Pieces
    <3>5. QED BY <3>2, <3>3, <3>4
  <2>6. Complete(e) => Complete(d)
    <3>1. \A j \in 1..d.opened : j \in 1..i /\ j # i BY <1>1
    <3>2. QED BY <1>1, <2>2, <3>1 DEF Complete
  <2>7. Stored(e) = Stored(d) BY <2>5, AppendNothing
  <2>8. QED BY <1>1, <2>2, <2>4, <2>6, <2>7
<1>5. QED BY <1>3, <1>4

LEMMA AppendBehind ==
  ASSUME NEW a \in Seq(Nat), NEW b \in Seq(Nat), NEW x \in Nat
  PROVE  a \o Append(b, x) = Append(a \o b, x)
<1>1. <<x>> \in Seq(Nat) /\ a \o b \in Seq(Nat) OBVIOUS
<1>2. PICK z \in Seq(Nat), c \in Seq(Nat) : z = <<x>> /\ c = a \o b BY <1>1
<1>3. Append(b, x) = b \o <<x>> /\ Append(c, x) = c \o <<x>> BY AppendIsConcat
<1>4. Joins(a, b, z) BY AnyGrouping
<1>5. QED BY <1>2, <1>3, <1>4 DEF Joins

(* A frame goes to the end of the last file.                                    *)
LEMMA LastGrows ==
  ASSUME NEW q \in Seq(Seq(Nat)), q # <<>>, NEW x \in Nat,
         NEW r \in Seq(Seq(Nat)), Len(r) = Len(q),
         \A j \in 1..Len(q) : j # Len(q) => r[j] = q[j],
         r[Len(q)] = Append(q[Len(q)], x)
  PROVE  FlattenSeq(r) = Append(FlattenSeq(q), x)
<1>1. PICK m \in Nat : m = Len(q)
  <2>1. Len(q) \in Nat OBVIOUS
  <2>2. QED BY <2>1
<1>2. /\ m >= 1 /\ m \in 1..m /\ q[m] \in Seq(Nat) /\ Append(q[m], x) \in Seq(Nat)
      /\ \A j \in 1..m : q[j] \in Seq(Nat)
  BY <1>1
<1>3. PICK front \in Seq(Seq(Nat)) : /\ Len(front) = m - 1
                                     /\ \A j \in 1..(m - 1) : front[j] = q[j]
  <2> DEFINE front == [j \in 1..(m - 1) |-> q[j]]
  <2>1. \A j \in 1..(m - 1) : j \in 1..m BY <1>1
  <2>2. front \in [1..(m - 1) -> Seq(Nat)] BY <1>2, <2>1
  <2>3. m - 1 \in Nat BY <1>2
  <2>4. front \in Seq(Seq(Nat)) /\ Len(front) = m - 1 BY <2>2, <2>3
  <2>5. QED BY <2>4
<1>4. ASSUME NEW t \in Seq(Seq(Nat)), NEW z \in Seq(Nat), Len(t) = m, t[m] = z,
             \A j \in 1..m : j # m => t[j] = q[j]
      PROVE  FlattenSeq(t) = FlattenSeq(front) \o z
  <2>1. Append(front, z) = [j \in 1..(Len(front) + 1) |-> IF j = Len(front) + 1 THEN z ELSE front[j]]
    BY AppendIs
  <2>2. Len(front) + 1 = m BY <1>2, <1>3
  <2>3. ASSUME NEW j \in 1..m PROVE (IF j = m THEN z ELSE front[j]) = t[j]
    <3>1. j # m => j \in 1..(m - 1) BY <1>2
    <3>2. QED BY <1>3, <1>4, <3>1
  <2>4. t = [j \in 1..m |-> t[j]] BY <1>4
  <2>5. Append(front, z) = t BY <2>1, <2>2, <2>3, <2>4
  <2>6. FlattenSeq(Append(front, z)) = FlattenSeq(front) \o z BY FlattenAppend
  <2>7. QED BY <2>5, <2>6
<1>5. FlattenSeq(q) = FlattenSeq(front) \o q[m]
  <2>1. PICK z \in Seq(Nat) : z = q[m] BY <1>2
  <2>2. FlattenSeq(q) = FlattenSeq(front) \o z BY <1>1, <1>4, <2>1
  <2>3. QED BY <2>1, <2>2
<1>6. FlattenSeq(r) = FlattenSeq(front) \o Append(q[m], x)
  <2>1. PICK z \in Seq(Nat) : z = Append(q[m], x) BY <1>2
  <2>2. FlattenSeq(r) = FlattenSeq(front) \o z BY <1>1, <1>4, <2>1
  <2>3. QED BY <2>1, <2>2
<1>7. PICK a \in Seq(Nat) : a = FlattenSeq(front) BY <1>3, FlattenType
<1>8. PICK b \in Seq(Nat) : b = q[m] BY <1>2
<1>9. a \o Append(b, x) = Append(a \o b, x) BY AppendBehind
<1>10. QED BY <1>5, <1>6, <1>7, <1>8, <1>9

LEMMA WriteKeeps ==
  ASSUME NEW e, NEW f \in Nat, DiskInv(e), e.fp # NoFile, e.inFile < MaxPerFile,
         NEW w, w = [e EXCEPT !.files[e.fp] = Append(@, f), !.inFile = @ + 1]
  PROVE  /\ DiskInv(w) /\ w.opened = e.opened /\ Stored(w) = Append(Stored(e), f)
         /\ Complete(w) <=> Complete(e)
<1>1. /\ e.opened \in Nat /\ e.opened >= 1 /\ e.fp = e.opened /\ e.fp \in DOMAIN e.files
      /\ e.inFile = Len(e.files[e.opened]) /\ MaxPerFile \in Nat
      /\ \A j \in DOMAIN e.files : j \in 1..e.opened /\ e.files[j] \in Seq(Nat)
  BY BatchAssumption DEF DiskInv, Disks
<1>2. /\ w \in Disks /\ w.fp = e.fp /\ w.opened = e.opened /\ w.inFile = e.inFile + 1
      /\ w.files = [e.files EXCEPT ![e.fp] = Append(@, f)]
  <2> DEFINE F == UNION {[D -> Seq(Nat)] : D \in SUBSET Nat}
  <2>1. e \in [fp : Nat, opened : Nat, inFile : Nat, files : F] BY DEF DiskInv, Disks
  <2>2. PICK D \in SUBSET Nat : e.files \in [D -> Seq(Nat)] BY <2>1
  <2>3. PICK g : g = [e.files EXCEPT ![e.fp] = Append(@, f)] OBVIOUS
  <2>4. g \in F
    <3>1. Append(e.files[e.fp], f) \in Seq(Nat) BY <1>1
    <3>2. g \in [D -> Seq(Nat)] BY <2>2, <2>3, <3>1
    <3>3. QED BY <3>2
  <2>5. w = [e EXCEPT !.files = g, !.inFile = e.inFile + 1] BY <2>1, <2>3
  <2> HIDE DEF F
  <2>6. /\ w \in [fp : Nat, opened : Nat, inFile : Nat, files : F]
        /\ w.fp = e.fp /\ w.opened = e.opened /\ w.inFile = e.inFile + 1 /\ w.files = g
    <3>1. e = [fp |-> e.fp, opened |-> e.opened, inFile |-> e.inFile, files |-> e.files]
          /\ e.fp \in Nat /\ e.opened \in Nat /\ e.inFile \in Nat
      BY <2>1
    <3>2. PICK a \in Nat, b \in Nat, c \in Nat : a = e.fp /\ b = e.opened /\ c = e.inFile
      BY <3>1
    <3>3. w = [fp |-> a, opened |-> b, inFile |-> c + 1, files |-> g]
      BY <2>5, <3>1, <3>2
    <3>4. w \in [fp : Nat, opened : Nat, inFile : Nat, files : F]
      <4>1. c + 1 \in Nat OBVIOUS
      <4>2. QED BY <2>4, <3>3, <4>1
    <3>5. w.fp = a /\ w.opened = b /\ w.inFile = c + 1 /\ w.files = g BY ONLY <3>3
    <3>6. QED BY <3>2, <3>4, <3>5
  <2>7. QED BY <2>3, <2>6 DEF Disks, F
<1>3. /\ DOMAIN w.files = DOMAIN e.files
      /\ w.files[e.opened] = Append(e.files[e.opened], f)
      /\ \A j \in DOMAIN e.files : j # e.opened => w.files[j] = e.files[j]
  BY <1>1, <1>2
<1>4. Len(w.files[e.opened]) = e.inFile + 1 /\ e.inFile \in Nat
  BY <1>1, <1>3
<1>5. DiskInv(w)
  BY <1>1, <1>2, <1>3, <1>4 DEF DiskInv
<1>6. Stored(w) = Append(Stored(e), f)
  <2>1. PICK q \in Seq(Seq(Nat)) : q = Pieces(e) BY PiecesType
  <2>2. PICK r \in Seq(Seq(Nat)) : r = Pieces(w) BY <1>5, PiecesType
  <2>3. Len(q) = e.opened /\ Len(r) = e.opened BY <1>2, <1>5, <2>1, <2>2, PiecesType
  <2>9. \A j \in 1..e.opened : /\ q[j] = IF j \in DOMAIN e.files THEN e.files[j] ELSE <<>>
                               /\ r[j] = IF j \in DOMAIN w.files THEN w.files[j] ELSE <<>>
    BY <1>2, <2>1, <2>2 DEF Pieces
  <2>4. \A j \in 1..Len(q) : j # Len(q) => r[j] = q[j]
    <3>1. QED BY <1>3, <2>3, <2>9
  <2>5. q[Len(q)] = e.files[e.opened] /\ r[Len(q)] = w.files[e.opened]
    <3>1. e.opened \in 1..e.opened BY <1>1
    <3>2. /\ q[e.opened] = IF e.opened \in DOMAIN e.files THEN e.files[e.opened] ELSE <<>>
          /\ r[e.opened] = IF e.opened \in DOMAIN w.files THEN w.files[e.opened] ELSE <<>>
      BY <2>9, <3>1
    <3>3. QED BY <1>1, <1>3, <2>3, <3>2
  <2>6. q # <<>> BY <1>1, <2>3
  <2>7. FlattenSeq(r) = Append(FlattenSeq(q), f)
    <3>1. r[Len(q)] = Append(q[Len(q)], f) BY <1>3, <2>5
    <3>2. QED BY <2>3, <2>4, <2>6, <3>1, LastGrows
  <2>8. QED BY <2>1, <2>2, <2>7 DEF Stored
<1>7. QED BY <1>2, <1>3, <1>5, <1>6 DEF Complete

(* One turn of the loop of flush_batch_to_file: the frame is the next one stored, or it *)
(* is lost, and then a file is missing.                                        *)
LEMMA SaveAdds ==
  ASSUME NEW d, NEW f \in Nat, NEW broken, DiskInv(d), d.opened >= 1,
         NEW s, s = Save(d, f, broken)
  PROVE  /\ DiskInv(s) /\ s.opened >= 1
         /\ \/ Stored(s) = Stored(d) /\ ~Complete(s)
            \/ Stored(s) = Append(Stored(d), f) /\ (Complete(s) => Complete(d))
<1>1. PICK e : e = IF d.inFile >= MaxPerFile THEN OpenNext(d, broken) ELSE d
  OBVIOUS
<1>2. /\ DiskInv(e) /\ e.opened >= 1 /\ Stored(e) = Stored(d)
      /\ e.fp # NoFile => e.inFile < MaxPerFile
      /\ Complete(e) => Complete(d) /\ e.fp # NoFile
  <2>1. /\ d.opened \in Nat /\ d.inFile \in Nat /\ MaxPerFile \in Nat /\ MaxPerFile >= 1
    BY BatchAssumption DEF DiskInv, Disks
  <2>2. CASE d.inFile >= MaxPerFile
    <3>1. e = OpenNext(d, broken) BY <1>1, <2>2
    <3>2. /\ DiskInv(e) /\ e.opened = d.opened + 1 /\ Stored(e) = Stored(d)
          /\ e.fp # NoFile => e.inFile = 0
          /\ Complete(e) => Complete(d) /\ e.fp # NoFile
      BY <2>2, <3>1, OpenKeeps
    <3>3. QED BY <2>1, <3>2
  <2>3. CASE ~(d.inFile >= MaxPerFile)
    <3>1. e = d BY <1>1, <2>3
    <3>2. d.fp = NoFile => ~Complete(d)
      <4>1. d.opened \in 1..d.opened BY <2>1
      <4>2. QED BY <4>1 DEF DiskInv, Complete
    <3>3. QED BY <2>1, <2>3, <3>1, <3>2
  <2>4. QED BY <2>2, <2>3
<1>3. CASE e.fp = NoFile
  <2>1. s = e BY <1>1, <1>3 DEF Save
  <2>2. QED BY <1>2, <1>3, <2>1
<1>4. CASE e.fp # NoFile
  <2>1. s = [e EXCEPT !.files[e.fp] = Append(@, f), !.inFile = @ + 1] BY <1>1, <1>4 DEF Save
  <2>2. /\ DiskInv(s) /\ s.opened = e.opened /\ Stored(s) = Append(Stored(e), f)
        /\ Complete(s) <=> Complete(e)
    BY <1>2, <1>4, <2>1, WriteKeeps
  <2>3. QED BY <1>2, <2>2
<1>5. QED BY <1>3, <1>4

LEMMA Shifted ==
  ASSUME NEW l \in Nat, NEW m \in Nat, NEW j \in 1..m
  PROVE  /\ ~(l + j <= l) /\ (l + j) + 1 = l + (1 + j)
         /\ (l + j) + 1 \in 1..(l + 1 + m)
OBVIOUS

(* One of the frames that wait is dropped: the others are still in order.        *)
LEMMA DropOne ==
  ASSUME NEW w \in Seq(Nat), NEW f \in Nat, NEW later \in Seq(Nat), NEW n \in Nat,
         Rising(w \o (<<f>> \o later)),
         \A i \in 1..Len(w \o (<<f>> \o later)) : (w \o (<<f>> \o later))[i] <= n
  PROVE  /\ Rising(w \o later)
         /\ \A i \in 1..Len(w \o later) : (w \o later)[i] <= n
<1>1. PICK a \in Seq(Nat), b \in Seq(Nat) : a = w \o (<<f>> \o later) /\ b = w \o later
  <2>1. <<f>> \o later \in Seq(Nat) OBVIOUS
  <2>2. PICK z \in Seq(Nat) : z = <<f>> \o later BY <2>1
  <2>3. w \o z \in Seq(Nat) /\ w \o later \in Seq(Nat) OBVIOUS
  <2>4. QED BY <2>2, <2>3
<1> DEFINE to(i) == IF i <= Len(w) THEN i ELSE i + 1
<1>2. /\ Len(w) \in Nat /\ Len(later) \in Nat /\ Len(b) = Len(w) + Len(later)
      /\ Len(a) = Len(w) + 1 + Len(later)
  <2>1. Len(<<f>> \o later) = 1 + Len(later) /\ <<f>> \o later \in Seq(Nat) OBVIOUS
  <2>2. QED BY <1>1, <2>1
<1>3. \A i \in 1..Len(b) : to(i) \in 1..Len(a) /\ b[i] = a[to(i)]
  <2> SUFFICES ASSUME NEW i \in 1..Len(b) PROVE to(i) \in 1..Len(a) /\ b[i] = a[to(i)]
    OBVIOUS
  <2>1. CASE i <= Len(w)
    <3>1. b[i] = w[i] BY <1>1, <1>2, <2>1
    <3>2. PICK z \in Seq(Nat) : z = <<f>> \o later
      <4>1. <<f>> \o later \in Seq(Nat) OBVIOUS
      <4>2. QED BY <4>1
    <3>3. a[i] = w[i] BY <1>1, <1>2, <2>1, <3>2
    <3>4. QED BY <1>2, <2>1, <3>1, <3>3
  <2>2. CASE i > Len(w)
    <3>1. PICK j \in 1..Len(later) : i = Len(w) + j
      <4>1. i - Len(w) \in 1..Len(later) /\ i = Len(w) + (i - Len(w)) BY <1>2, <2>2
      <4>2. QED BY <4>1
    <3>2. b[i] = later[j] BY <1>1, <1>2, <3>1
    <3>3. PICK z \in Seq(Nat) : z = <<f>> \o later /\ Len(z) = 1 + Len(later) /\ z[1 + j] = later[j]
      <4>1. <<f>> \o later \in Seq(Nat) /\ Len(<<f>> \o later) = 1 + Len(later)
            /\ (<<f>> \o later)[1 + j] = later[j]
        OBVIOUS
      <4>2. QED BY <4>1
    <3>4. (w \o z)[Len(w) + (1 + j)] = z[1 + j]
      <4>1. 1 + j \in 1..Len(z) BY <1>2, <3>3
      <4>2. QED BY <4>1
    <3>5. to(i) = Len(w) + (1 + j) /\ to(i) \in 1..Len(a)
      <4>1. ~(i <= Len(w)) /\ i + 1 = Len(w) + (1 + j) /\ i + 1 \in 1..(Len(w) + 1 + Len(later))
        BY <1>2, <3>1, Shifted
      <4>2. QED BY <1>2, <4>1
    <3>6. QED BY <1>1, <3>2, <3>3, <3>4, <3>5
  <2>3. QED BY <1>2, <2>1, <2>2
<1>4. \A i, j \in 1..Len(b) : i < j => to(i) < to(j)
  <2>1. Len(b) \in Nat /\ Len(w) \in Nat BY <1>2
  <2>2. ASSUME NEW i \in Nat, NEW j \in Nat, i < j PROVE to(i) < to(j) BY <2>1, <2>2
  <2>3. QED BY <2>1, <2>2
<1> HIDE DEF to
<1>5. Rising(a) /\ \A i \in 1..Len(a) : a[i] <= n BY <1>1
<1>6. Rising(b) BY <1>3, <1>4, <1>5 DEF Rising
<1>7. \A i \in 1..Len(b) : b[i] <= n BY <1>3, <1>5
<1>8. QED BY <1>1, <1>6, <1>7

LEMMA KeptAfterSave ==
  ASSUME NEW d, NEW f \in Nat, NEW later \in Seq(Nat), NEW n, NEW broken,
         DiskInv(d), d.opened >= 1, Kept(d, <<f>> \o later, n),
         NEW s, s = Save(d, f, broken)
  PROVE  DiskInv(s) /\ s.opened >= 1 /\ Kept(s, later, n)
<1>1. /\ DiskInv(s) /\ s.opened >= 1
      /\ \/ Stored(s) = Stored(d) /\ ~Complete(s)
         \/ Stored(s) = Append(Stored(d), f) /\ (Complete(s) => Complete(d))
  BY SaveAdds
<1>2. PICK w \in Seq(Nat) : w = Stored(d) BY PiecesType
<1>3. n \in Nat BY DEF Kept
<1>4. /\ Rising(w \o (<<f>> \o later))
      /\ \A i \in 1..Len(w \o (<<f>> \o later)) : (w \o (<<f>> \o later))[i] <= n
      /\ Complete(d) => w \o (<<f>> \o later) = Counted(n)
  BY <1>2 DEF Kept
<1>5. CASE Stored(s) = w /\ ~Complete(s)
  <2>1. /\ Rising(w \o later)
        /\ \A i \in 1..Len(w \o later) : (w \o later)[i] <= n
    BY <1>3, <1>4, DropOne
  <2>2. QED BY <1>1, <1>3, <1>5, <2>1 DEF Kept
<1>6. CASE Stored(s) = Append(w, f) /\ (Complete(s) => Complete(d))
  <2>1. PICK z \in Seq(Nat) : z = <<f>>
    <3>1. <<f>> \in Seq(Nat) OBVIOUS
    <3>2. QED BY <3>1
  <2>2. Append(w, f) = w \o <<f>> BY AppendIsConcat
  <2>3. Joins(w, z, later) BY AnyGrouping
  <2>4. Stored(s) \o later = w \o (<<f>> \o later) BY <1>6, <2>1, <2>2, <2>3 DEF Joins
  <2>5. QED BY <1>1, <1>3, <1>4, <1>6, <2>4 DEF Kept
<1>7. QED BY <1>1, <1>2, <1>5, <1>6

(* The frames of a batch that are left after k of them.                          *)
Left(b, k) == SubSeq(b, k + 1, Len(b))

LEMMA LeftOver ==
  ASSUME NEW b \in Seq(Nat)
  PROVE  /\ Left(b, 0) = b /\ Left(b, Len(b)) = <<>>
         /\ \A k \in 0..Len(b) : Left(b, k) \in Seq(Nat)
         /\ \A k \in 0..(Len(b) - 1) : Left(b, k) = <<b[k + 1]>> \o Left(b, k + 1)
<1>1. Len(b) \in Nat /\ \A i \in 1..Len(b) : b[i] \in Nat OBVIOUS
<1>2. Left(b, 0) = b /\ Left(b, Len(b)) = <<>> BY <1>1 DEF Left
<1>3. ASSUME NEW k \in 0..Len(b)
      PROVE  /\ Left(b, k) \in Seq(Nat) /\ Len(Left(b, k)) = Len(b) - k
             /\ \A i \in 1..(Len(b) - k) : Left(b, k)[i] = b[k + i]
  <2>1. k + 1 \in 1..(Len(b) + 1) /\ k \in Nat BY <1>1
  <2>2. QED BY <1>1, <2>1 DEF Left
<1>4. ASSUME NEW k \in 0..(Len(b) - 1)
      PROVE  Left(b, k) = <<b[k + 1]>> \o Left(b, k + 1)
  <2>1. k \in 0..Len(b) /\ k + 1 \in 0..Len(b) /\ k + 1 \in 1..Len(b) BY <1>1
  <2>2. PICK x \in Nat : x = b[k + 1] BY <1>1, <2>1
  <2>3. PICK t \in Seq(Nat) : t = Left(b, k + 1) BY <1>3, <2>1
  <2>4. PICK a \in Seq(Nat) : a = Left(b, k) BY <1>3, <2>1
  <2>5. /\ Len(t) = Len(b) - (k + 1) /\ Len(a) = Len(b) - k
        /\ \A i \in 1..Len(t) : t[i] = b[(k + 1) + i]
        /\ \A i \in 1..Len(a) : a[i] = b[k + i]
    BY <1>3, <2>1, <2>3, <2>4
  <2>6. PICK c \in Seq(Nat) : /\ c = <<x>> \o t /\ Len(c) = 1 + Len(t) /\ c[1] = x
                              /\ \A i \in 1..Len(t) : c[1 + i] = t[i]
    <3>1. /\ <<x>> \o t \in Seq(Nat) /\ Len(<<x>> \o t) = 1 + Len(t) /\ (<<x>> \o t)[1] = x
          /\ \A i \in 1..Len(t) : (<<x>> \o t)[1 + i] = t[i]
      OBVIOUS
    <3>2. QED BY <3>1
  <2>7. Len(a) = Len(c) /\ Len(t) \in Nat /\ Len(a) \in Nat BY <1>1, <2>5, <2>6
  <2>8. ASSUME NEW i \in 1..Len(a) PROVE a[i] = c[i]
    <3>1. CASE i = 1 BY <1>1, <2>1, <2>2, <2>5, <2>6, <3>1
    <3>2. CASE i # 1
      <4>1. PICK j \in 1..Len(t) : i = 1 + j
        <5>1. i - 1 \in 1..Len(t) /\ i = 1 + (i - 1) BY <2>6, <2>7, <3>2
        <5>2. QED BY <5>1
      <4>2. (k + 1) + j = k + i BY <1>1, <2>1, <4>1
      <4>3. QED BY <2>5, <2>6, <4>1, <4>2
    <3>3. QED BY <3>1, <3>2
  <2>9. a = [i \in 1..Len(a) |-> a[i]] /\ c = [i \in 1..Len(c) |-> c[i]] OBVIOUS
  <2>10. a = c BY <2>7, <2>8, <2>9
  <2>11. QED BY <2>2, <2>3, <2>4, <2>6, <2>10
<1>5. QED BY <1>2, <1>3, <1>4

(* flush_batch_to_file as Flushed has it: g[k] is the disk after k frames.         *)
Saves(g, m, d, batch, broken) ==
  g = [k \in 0..m |-> IF k = 0 THEN d ELSE Save(g[k - 1], batch[k], broken)]

LEMMA SavesExist ==
  ASSUME NEW m \in Nat, NEW d, NEW batch, NEW broken
  PROVE  \E g : Saves(g, m, d, batch, broken)
<1> DEFINE B == {l \in Nat : ~ \E g : Saves(g, l, d, batch, broken)}
<1> SUFFICES ASSUME B # {} PROVE FALSE
  OBVIOUS
<1>1. PICK x \in B : \A y \in B : x <= y
  <2>1. B \subseteq Nat OBVIOUS
  <2> HIDE DEF B
  <2>2. QED BY <2>1, LeastNumber
<1>2. x \in Nat /\ ~ \E g : Saves(g, x, d, batch, broken) BY <1>1
<1>3. CASE x = 0
  <2> DEFINE new(i) == d
             g == [i \in 0..0 |-> new(i)]
  <2>1. \A i \in 0..0 : g[i] = (IF i = 0 THEN d ELSE Save(g[i - 1], batch[i], broken)) OBVIOUS
  <2>2. g = [i \in 0..0 |-> g[i]] OBVIOUS
  <2> HIDE DEF g
  <2>3. Saves(g, 0, d, batch, broken) BY <2>1, <2>2 DEF Saves
  <2>4. QED BY <1>2, <1>3, <2>3
<1>4. CASE x # 0
  <2>1. PICK y \in Nat : x = y + 1
    <3>1. x - 1 \in Nat /\ x = (x - 1) + 1 BY <1>2, <1>4
    <3>2. QED BY <3>1
  <2>2. ~(x <= y) BY <2>1
  <2>3. PICK h : Saves(h, y, d, batch, broken) BY <1>1, <2>2
  <2> DEFINE new(i) == IF i = 0 THEN d ELSE Save(h[i - 1], batch[i], broken)
             g == [i \in 0..(y + 1) |-> new(i)]
  <2>4. ASSUME NEW i \in 0..y PROVE g[i] = h[i]
    <3>1. i \in 0..(y + 1) BY <2>1
    <3>2. h[i] = new(i) BY <2>3 DEF Saves
    <3>3. QED BY <3>1, <3>2
  <2>5. ASSUME NEW i \in 0..(y + 1)
        PROVE  g[i] = IF i = 0 THEN d ELSE Save(g[i - 1], batch[i], broken)
    <3>1. i # 0 => i - 1 \in 0..y BY <2>1
    <3> HIDE DEF g
    <3>2. i # 0 => g[i - 1] = h[i - 1] BY <2>4, <3>1
    <3>3. g[i] = new(i) BY DEF g
    <3>4. QED BY <3>2, <3>3
  <2>6. g = [i \in 0..(y + 1) |-> g[i]] OBVIOUS
  <2> HIDE DEF g
  <2>7. Saves(g, x, d, batch, broken)
    <3>1. [i \in 0..(y + 1) |-> g[i]]
          = [i \in 0..(y + 1) |-> IF i = 0 THEN d ELSE Save(g[i - 1], batch[i], broken)]
      BY <2>5
    <3>2. QED BY <2>1, <2>6, <3>1 DEF Saves
  <2>8. QED BY <1>2, <2>7
<1>5. QED BY <1>3, <1>4

(* After a flush every frame of the batch is stored, or a file is missing.           *)
LEMMA FlushKeeps ==
  ASSUME NEW batch \in Seq(Nat), NEW broken, NEW n,
         DiskInv(disk), disk.opened >= 1, Kept(disk, batch, n),
         NEW s, s = Flushed(batch, broken)
  PROVE  DiskInv(s) /\ s.opened >= 1 /\ Kept(s, <<>>, n)
<1>1. PICK m \in Nat : m = Len(batch)
  <2>1. Len(batch) \in Nat OBVIOUS
  <2>2. QED BY <2>1
<1>2. PICK g : Saves(g, m, disk, batch, broken) /\ s = g[m]
  <2> DEFINE saved == CHOOSE g : Saves(g, m, disk, batch, broken)
  <2>1. Saves(saved, m, disk, batch, broken) BY SavesExist
  <2>2. s = saved[m] BY <1>1 DEF Flushed, Saves
  <2>3. QED BY <2>1, <2>2
<1>3. \A k \in 0..m : g[k] = IF k = 0 THEN disk ELSE Save(g[k - 1], batch[k], broken)
  BY <1>2 DEF Saves
<1> DEFINE Good(k) == DiskInv(g[k]) /\ g[k].opened >= 1 /\ Kept(g[k], Left(batch, k), n)
           B == {k \in 0..m : ~Good(k)}
<1>4. Good(0)
  <2>1. 0 \in 0..m OBVIOUS
  <2>2. g[0] = disk BY <1>3, <2>1
  <2>3. Left(batch, 0) = batch BY LeftOver
  <2>4. QED BY <2>2, <2>3
<1>5. ASSUME NEW k \in 0..(m - 1), Good(k) PROVE Good(k + 1)
  <2>1. /\ k + 1 \in 0..m /\ k + 1 # 0 /\ (k + 1) - 1 = k /\ k + 1 \in 1..Len(batch)
        /\ k \in 0..(Len(batch) - 1)
    BY <1>1
  <2>2. PICK d : d = g[k] OBVIOUS
  <2>3. PICK f \in Nat : f = batch[k + 1] BY <2>1
  <2>4. PICK later \in Seq(Nat) : later = Left(batch, k + 1) BY <1>1, <2>1, LeftOver
  <2>5. PICK e : e = Save(d, f, broken) OBVIOUS
  <2>6. g[k + 1] = e BY <1>3, <2>1, <2>2, <2>3, <2>5
  <2>7. Left(batch, k) = <<f>> \o later BY <2>1, <2>3, <2>4, LeftOver
  <2>8. DiskInv(d) /\ d.opened >= 1 /\ Kept(d, <<f>> \o later, n) BY <1>5, <2>2, <2>7
  <2>9. DiskInv(e) /\ e.opened >= 1 /\ Kept(e, later, n) BY <2>5, <2>8, KeptAfterSave
  <2>10. QED BY <2>4, <2>6, <2>9
<1> HIDE DEF Good
<1>6. B = {}
  <2> SUFFICES ASSUME B # {} PROVE FALSE
    OBVIOUS
  <2>1. PICK x \in B : \A y \in B : x <= y
    <3>1. B \subseteq Nat OBVIOUS
    <3> HIDE DEF B
    <3>2. QED BY <3>1, LeastNumber
  <2>2. x \in 0..m /\ ~Good(x) BY <2>1
  <2>3. x # 0 BY <1>4, <2>2
  <2>4. PICK y \in 0..(m - 1) : x = y + 1
    <3>1. x - 1 \in 0..(m - 1) /\ x = (x - 1) + 1 BY <2>2, <2>3
    <3>2. QED BY <3>1
  <2>5. y \in 0..m /\ ~(x <= y) BY <2>4
  <2>6. Good(y) BY <2>1, <2>5
  <2>7. QED BY <1>5, <2>2, <2>4, <2>6
<1>7. Good(m)
  <2>1. m \in 0..m OBVIOUS
  <2>2. QED BY <1>6, <2>1
<1>8. Left(batch, m) = <<>> BY <1>1, LeftOver
<1>9. QED BY <1>2, <1>7, <1>8 DEF Good

LEMMA KeptElsewhere ==
  ASSUME NEW d, NEW e, NEW b, NEW n, Kept(d, b, n),
         Stored(e) = Stored(d), Complete(e) => Complete(d)
  PROVE  Kept(e, b, n)
BY DEF Kept

LEMMA KeptUncounted ==
  ASSUME NEW d, NEW b, NEW n, Kept(d, b, n), DiskInv(d), ~Complete(d)
  PROVE  Kept(d, b, n + 1)
<1>1. PICK w \in Seq(Nat) : w = Stored(d) BY PiecesType
<1>2. b \in Seq(Nat) /\ n \in Nat /\ n + 1 \in Nat BY DEF Kept
<1>3. PICK a \in Seq(Nat) : a = w \o b
  <2>1. w \o b \in Seq(Nat) BY <1>2
  <2>2. QED BY <2>1
<1>4. \A i \in 1..Len(a) : a[i] <= n BY <1>1, <1>3 DEF Kept
<1>5. \A i \in 1..Len(a) : a[i] <= n + 1 BY <1>2, <1>4
<1>6. QED BY <1>1, <1>2, <1>3, <1>5 DEF Kept

(* The next frame is numbered behind all that came before.                       *)
LEMMA KeptNext ==
  ASSUME NEW d, NEW b, NEW n, Kept(d, b, n), DiskInv(d)
  PROVE  Kept(d, Append(b, n + 1), n + 1)
<1>1. PICK w \in Seq(Nat) : w = Stored(d) BY PiecesType
<1>2. b \in Seq(Nat) /\ n \in Nat /\ n + 1 \in Nat /\ Append(b, n + 1) \in Seq(Nat) BY DEF Kept
<1>3. PICK x \in Nat : x = n + 1 BY <1>2
<1>4. PICK a \in Seq(Nat) : a = w \o b
  <2>1. w \o b \in Seq(Nat) BY <1>2
  <2>2. QED BY <2>1
<1>5. w \o Append(b, x) = Append(a, x) BY <1>2, <1>4, AppendBehind
<1>6. /\ Rising(a) /\ \A i \in 1..Len(a) : a[i] <= n
      /\ Complete(d) => a = Counted(n)
  BY <1>1, <1>4 DEF Kept
<1>7. PICK t \in Seq(Nat) : /\ t = Append(a, x) /\ Len(t) = Len(a) + 1 /\ Len(a) \in Nat
                            /\ t[Len(a) + 1] = x /\ \A i \in 1..Len(a) : t[i] = a[i]
  <2>1. /\ Append(a, x) \in Seq(Nat) /\ Len(Append(a, x)) = Len(a) + 1 /\ Len(a) \in Nat
        /\ Append(a, x)[Len(a) + 1] = x /\ \A i \in 1..Len(a) : Append(a, x)[i] = a[i]
    BY AppendEntries
  <2>2. QED BY <2>1
<1>8. \A i \in 1..Len(t) : i \in 1..Len(a) \/ i = Len(a) + 1 BY <1>7
<1>9. \A i \in 1..Len(a) : a[i] \in Nat OBVIOUS
<1>10. Rising(t)
  <2> SUFFICES ASSUME NEW i \in 1..Len(t), NEW j \in 1..Len(t), i < j PROVE t[i] < t[j]
    BY DEF Rising
  <2>1. i \in 1..Len(a) BY <1>7
  <2>2. CASE j \in 1..Len(a) BY <1>6, <1>7, <2>1, <2>2 DEF Rising
  <2>3. CASE j = Len(a) + 1
    <3>1. t[i] = a[i] /\ a[i] <= n /\ a[i] \in Nat BY <1>6, <1>7, <1>9, <2>1
    <3>2. t[j] = n + 1 BY <1>3, <1>7, <2>3
    <3>3. QED BY <1>2, <3>1, <3>2
  <2>4. QED BY <1>8, <2>2, <2>3
<1>11. \A i \in 1..Len(t) : t[i] <= n + 1
  <2> SUFFICES ASSUME NEW i \in 1..Len(t) PROVE t[i] <= n + 1
    OBVIOUS
  <2>1. CASE i \in 1..Len(a)
    <3>1. t[i] = a[i] /\ a[i] <= n /\ a[i] \in Nat BY <1>6, <1>7, <1>9, <2>1
    <3>2. QED BY <1>2, <3>1
  <2>2. CASE i = Len(a) + 1 BY <1>2, <1>3, <1>7, <2>2
  <2>3. QED BY <1>8, <2>1, <2>2
<1>12. ASSUME Complete(d) PROVE t = Counted(n + 1)
  <2>1. a = Counted(n) BY <1>6, <1>12
  <2>2. Len(a) = n /\ \A i \in 1..n : a[i] = i BY <1>2, <2>1 DEF Counted
  <2>3. t = [i \in 1..Len(t) |-> t[i]] OBVIOUS
  <2>4. \A i \in 1..(n + 1) : t[i] = i BY <1>2, <1>3, <1>7, <2>2
  <2>5. QED BY <1>7, <2>2, <2>3, <2>4 DEF Counted
<1>13. Stored(d) \o Append(b, n + 1) = t BY <1>1, <1>3, <1>5, <1>7
<1>14. QED BY <1>2, <1>10, <1>11, <1>12, <1>13 DEF Kept

LEMMA MissingFile ==
  ASSUME NEW d, DiskInv(d), d.opened >= 1, d.fp = NoFile PROVE ~Complete(d)
<1>1. d.opened \in Nat BY DEF DiskInv, Disks
<1>2. d.opened \in 1..d.opened BY <1>1
<1>3. QED BY <1>2 DEF DiskInv, Complete

-----------------------------------------------------------------------------
LEMMA ReaderStarts == ReaderInit => ReaderInv
<1> SUFFICES ASSUME ReaderInit PROVE ReaderInv
  OBVIOUS
<1>1. /\ disk = NoDisk /\ g_frameBatch = <<>> /\ g_totalFrameCount = 0 /\ readerPc = "boot"
  BY DEF ReaderInit
<1>2. /\ disk.fp = NoFile /\ disk.opened = 0 /\ disk.inFile = 0
      /\ disk.files = [i \in {} |-> <<>>] /\ DOMAIN disk.files = {}
  BY <1>1 DEF NoDisk
<1>3. disk \in Disks
  <2>1. [i \in {} |-> <<>>] \in [{} -> Seq(Nat)] OBVIOUS
  <2> DEFINE F == UNION {[D -> Seq(Nat)] : D \in SUBSET Nat}
  <2>2. {} \in SUBSET Nat OBVIOUS
  <2>3. [i \in {} |-> <<>>] \in F BY <2>1, <2>2
  <2> HIDE DEF F
  <2>4. NoDisk \in [fp : Nat, opened : Nat, inFile : Nat, files : F] BY <2>3 DEF NoDisk, NoFile
  <2>5. QED BY <1>1, <2>4 DEF Disks, F
<1>4. DiskInv(disk) BY <1>2, <1>3 DEF DiskInv
<1>5. Stored(disk) = <<>>
  <2>1. Pieces(disk) = <<>> BY <1>2 DEF Pieces
  <2>2. QED BY <2>1, FlattenEmpty DEF Stored
<1>6. Kept(disk, <<>>, 0)
  <2>1. <<>> \o <<>> = <<>> /\ Len(<<>>) = 0 /\ <<>> \in Seq(Nat) OBVIOUS
  <2>2. Counted(0) = <<>> BY DEF Counted
  <2>3. QED BY <1>5, <2>1, <2>2 DEF Kept, Rising
<1>7. QED BY <1>1, <1>4, <1>6 DEF ReaderInv

(* What the steps that do not touch files and batch leave as it is.               *)
LEMMA ReaderRests ==
  ASSUME ReaderInv, UNCHANGED <<disk, g_frameBatch, g_totalFrameCount, readerPc>>
  PROVE  ReaderInv'
BY DEF ReaderInv

LEMMA BootKeeps == ASSUME ReaderInv, Boot PROVE ReaderInv'
<1>1. PICK broken : disk' = OpenNext(disk, broken) BY DEF Boot
<1>2. /\ readerPc = "boot" /\ readerPc' \in {"loop", "ended"}
      /\ g_frameBatch' = g_frameBatch /\ g_totalFrameCount' = g_totalFrameCount
  BY DEF Boot
<1>3. /\ DiskInv(disk) /\ Kept(disk, g_frameBatch, g_totalFrameCount)
      /\ disk = NoDisk /\ g_frameBatch = <<>>
  BY <1>2 DEF ReaderInv
<1>4. disk.fp = NoFile /\ disk.opened = 0 BY <1>3 DEF NoDisk
<1>5. PICK d, e : d = disk /\ e = disk' OBVIOUS
<1>6. /\ DiskInv(e) /\ e.opened = d.opened + 1 /\ Stored(e) = Stored(d)
      /\ Complete(e) => Complete(d)
  BY <1>1, <1>3, <1>4, <1>5, OpenKeeps
<1>7. Kept(e, g_frameBatch, g_totalFrameCount) BY <1>3, <1>5, <1>6, KeptElsewhere
<1>8. e.opened >= 1 BY <1>4, <1>5, <1>6
<1>9. Len(g_frameBatch) < Batch BY <1>3, BatchAssumption
<1>10. QED BY <1>2, <1>3, <1>5, <1>6, <1>7, <1>8, <1>9 DEF ReaderInv

(* Flush, for a batch that holds what is not yet written of n frames.              *)
LEMMA FlushedKept ==
  ASSUME NEW batch \in Seq(Nat), NEW broken, NEW n,
         DiskInv(disk), disk.opened >= 1, Kept(disk, batch, n), Flush(batch, broken)
  PROVE  /\ DiskInv(disk') /\ disk'.opened >= 1 /\ Kept(disk', g_frameBatch', n)
         /\ disk'.fp # NoFile => g_frameBatch' = <<>>
<1>1. CASE disk.fp = NoFile
  <2>1. g_frameBatch' = batch /\ disk' = disk BY <1>1 DEF Flush
  <2>2. QED BY <1>1, <2>1
<1>2. CASE disk.fp # NoFile
  <2>1. PICK s : s = Flushed(batch, broken) OBVIOUS
  <2>2. g_frameBatch' = <<>> /\ disk' = s BY <1>2, <2>1 DEF Flush
  <2>3. DiskInv(s) /\ s.opened >= 1 /\ Kept(s, <<>>, n) BY <2>1, FlushKeeps
  <2>4. QED BY <2>2, <2>3
<1>3. QED BY <1>1, <1>2

LEMMA CacheKeeps ==
  ASSUME ReaderInv, readerPc = "loop", CacheFrame,
         g_totalFrameCount' = g_totalFrameCount + 1
  PROVE  ReaderInv'
<1>1. /\ DiskInv(disk) /\ Kept(disk, g_frameBatch, g_totalFrameCount) /\ disk.opened >= 1
      /\ disk.fp # NoFile => Len(g_frameBatch) < Batch
  BY DEF ReaderInv
<1>2. PICK n \in Nat, b \in Seq(Nat) : n = g_totalFrameCount /\ b = g_frameBatch
  BY <1>1 DEF Kept
<1>3. PICK batch \in Seq(Nat) : batch = Append(b, n + 1) /\ Len(batch) = Len(b) + 1
  <2>1. Append(b, n + 1) \in Seq(Nat) /\ Len(Append(b, n + 1)) = Len(b) + 1 OBVIOUS
  <2>2. QED BY <2>1
<1>4. Kept(disk, batch, n + 1) BY <1>1, <1>2, <1>3, KeptNext
<1>5. Batch \in Nat /\ Batch >= 1 /\ Len(<<>>) = 0 BY BatchAssumption
<1>6. CASE Len(batch) < Batch
  <2>1. g_frameBatch' = batch /\ disk' = disk /\ readerPc' = "loop"
    BY <1>2, <1>3, <1>6 DEF CacheFrame
  <2>2. QED BY <1>1, <1>2, <1>4, <1>6, <2>1 DEF ReaderInv
<1>7. CASE Len(batch) = Batch
  <2>1. readerPc' = "loop" BY <1>2, <1>3, <1>5, <1>7 DEF CacheFrame
  <2>2. PICK broken \in Broken : Flush(batch, broken)
    BY <1>2, <1>3, <1>5, <1>7 DEF CacheFrame
  <2>3. /\ DiskInv(disk') /\ disk'.opened >= 1 /\ Kept(disk', g_frameBatch', n + 1)
        /\ disk'.fp # NoFile => g_frameBatch' = <<>>
    BY <1>1, <1>4, <2>2, FlushedKept
  <2>4. QED BY <1>2, <1>5, <2>1, <2>3 DEF ReaderInv
<1>8. CASE Len(batch) > Batch
  <2>1. readerPc' = "undefined" /\ disk' = disk /\ g_frameBatch' = b
    BY <1>2, <1>3, <1>5, <1>8 DEF CacheFrame
  <2>2. disk.fp = NoFile BY <1>1, <1>2, <1>3, <1>5, <1>8
  <2>3. ~Complete(disk) BY <1>1, <2>2, MissingFile
  <2>4. Kept(disk, b, n + 1) BY <1>1, <1>2, <2>3, KeptUncounted
  <2>5. QED BY <1>1, <1>2, <2>1, <2>2, <2>4 DEF ReaderInv
<1>9. QED
  <2>1. Len(batch) \in Nat OBVIOUS
  <2>2. QED BY <1>5, <1>6, <1>7, <1>8, <2>1

LEMMA LeaveKeeps ==
  ASSUME ReaderInv, readerPc = "loop", Leave, g_totalFrameCount' = g_totalFrameCount
  PROVE  ReaderInv'
<1>1. /\ DiskInv(disk) /\ Kept(disk, g_frameBatch, g_totalFrameCount) /\ disk.opened >= 1
  BY DEF ReaderInv
<1>2. readerPc' = "ended" BY DEF Leave
<1>3. CASE g_frameBatch = <<>>
  <2>1. disk' = disk /\ g_frameBatch' = g_frameBatch BY <1>3 DEF Leave
  <2>2. QED BY <1>1, <1>2, <1>3, <2>1 DEF ReaderInv
<1>4. CASE g_frameBatch # <<>>
  <2>1. PICK broken \in Broken : Flush(g_frameBatch, broken) BY <1>4 DEF Leave
  <2>2. PICK batch \in Seq(Nat) : batch = g_frameBatch BY <1>1 DEF Kept
  <2>3. /\ DiskInv(disk') /\ disk'.opened >= 1 /\ Kept(disk', g_frameBatch', g_totalFrameCount)
        /\ disk'.fp # NoFile => g_frameBatch' = <<>>
    BY <1>1, <2>1, <2>2, FlushedKept
  <2>4. QED BY <1>2, <2>3 DEF ReaderInv
<1>5. QED BY <1>3, <1>4

LEMMA ReaderStep == ReaderInv /\ [ReaderNext]_readerVars => ReaderInv'
<1> SUFFICES ASSUME ReaderInv, [ReaderNext]_readerVars PROVE ReaderInv'
  OBVIOUS
<1>1. CASE UNCHANGED readerVars BY <1>1, ReaderRests DEF readerVars, reader
<1>2. CASE Boot BY <1>2, BootKeeps
<1>3. CASE ReadFrame BY <1>3, CacheKeeps DEF ReadFrame
<1>4. CASE ReadFails BY <1>4, LeaveKeeps DEF ReadFails
<1>5. CASE \E k \in Keys : PressKey(k)
  <2>1. PICK k \in Keys : PressKey(k) BY <1>5
  <2>2. CASE k = "q" BY <2>1, <2>2, LeaveKeeps DEF PressKey
  <2>3. CASE k # "q" BY <2>1, <2>3, ReaderRests DEF PressKey
  <2>4. QED BY <2>2, <2>3
<1>6. CASE DeviceAnswers \/ DeviceCloses \/ \E kind \in Kinds : DeviceSends(kind)
  BY <1>6, ReaderRests DEF DeviceAnswers, DeviceCloses, DeviceSends, reader
<1>7. QED BY <1>1, <1>2, <1>3, <1>4, <1>5, <1>6 DEF ReaderNext, ReaderLoop

LEMMA ReaderSaves == ReaderInv => EveryFrameSaved
<1> SUFFICES ASSUME ReaderInv PROVE EveryFrameSaved
  OBVIOUS
<1>1. DiskInv(disk) /\ Kept(disk, g_frameBatch, g_totalFrameCount) BY DEF ReaderInv
<1>2. Written = Stored(disk) BY DEF Written, Stored, Pieces
<1>3. NothingLost
  <2> SUFFICES ASSUME AllOpened
               PROVE  /\ Written \o g_frameBatch = [i \in 1..g_totalFrameCount |-> i]
                      /\ readerPc = "ended" => g_frameBatch = <<>>
    BY DEF NothingLost
  <2>1. Complete(disk) BY DEF AllOpened, Complete
  <2>2. Written \o g_frameBatch = [i \in 1..g_totalFrameCount |-> i]
    BY <1>1, <1>2, <2>1 DEF Kept, Counted
  <2>3. ASSUME readerPc = "ended" PROVE g_frameBatch = <<>>
    <3>1. disk.opened >= 1 BY <2>3 DEF ReaderInv
    <3>2. disk.fp # NoFile BY <1>1, <2>1, <3>1, MissingFile
    <3>3. QED BY <2>3, <3>2 DEF ReaderInv
  <2>4. QED BY <2>2, <2>3
<1>4. WrittenOnce
  <2>1. PICK w \in Seq(Nat) : w = Written BY <1>1, <1>2, PiecesType
  <2>2. PICK b \in Seq(Nat) : b = g_frameBatch BY <1>1 DEF Kept
  <2>3. Rising(w \o b) BY <1>1, <1>2, <2>1, <2>2 DEF Kept
  <2>4. \A i \in 1..Len(w) : i \in 1..Len(w \o b) /\ (w \o b)[i] = w[i] OBVIOUS
  <2>5. DOMAIN w = 1..Len(w) OBVIOUS
  <2>6. \A i, j \in DOMAIN w : i < j => w[i] < w[j] BY <2>3, <2>4, <2>5 DEF Rising
  <2>7. QED BY <2>1, <2>6 DEF WrittenOnce
<1>5. FilesAreFull BY <1>1 DEF DiskInv, FilesAreFull
<1>6. QED BY <1>3, <1>4, <1>5 DEF EveryFrameSaved

(* Whatever the lengths of batch and file, whichever files cannot be opened, and however *)
(* the program ends, what is written is in order and written once, every file but the   *)
(* last is full, and no frame is missing as long as all files were opened              *)
(* (serialread.c, cache_frame, flush_batch_to_file, communication_loop).            *)
THEOREM FramesAreSaved == ReaderSpec => []EveryFrameSaved
<1>1. ReaderInit => ReaderInv BY ReaderStarts
<1>2. ReaderInv /\ [ReaderNext]_readerVars => ReaderInv' BY ReaderStep
<1>3. ReaderInv => EveryFrameSaved BY ReaderSaves
<1>4. QED BY <1>1, <1>2, <1>3, PTL DEF ReaderSpec
=============================================================================
