--------------------------- MODULE SensorsProofs ---------------------------
(***************************************************************************)
(* The sensor side of the program for every number of EEPROM words, tries, *)
(* frames, blocks and echoes: what is decoded, what a frame is made of and *)
(* what the distances are worth.                                           *)
(***************************************************************************)
EXTENDS Sensors, ConversionProofs, SequenceTheorems

Places == {"dump", "extract", "rate", "loop", "read", "poll", "clear", "blocks",
           "aux", "control", "publish", "range", "stopped", "failed"}
Reading == {"poll", "clear", "blocks", "aux", "control"}
Holding == {"blocks", "aux", "control", "publish"}

WordOK ==
    /\ word \in [data : SUBSET DataBits, bad : 0..2, decoded : SUBSET DataBits]
    /\ worst \in 0..2 /\ addr \in 0..Words
    /\ EepromSound

CameraOK ==
    /\ lastPage \in 0..1 /\ ready \in BOOLEAN /\ page \in [0..1 -> Measurement]

LoopsOK ==
    /\ pc \in Places
    /\ frameNo \in 1..Frames /\ tries \in 0..(MaxTries - 1)
    /\ subPage \in 0..1 /\ lapped \in 0..2
    /\ pc \in Reading => reading = TRUE
    /\ pc \notin Reading => reading = FALSE /\ frameNo = 1

BlocksOK ==
    /\ frame \in Seq(Measurement) /\ Len(frame) <= Blocks
    /\ pc = "blocks" => Len(frame) < Blocks
    /\ pc \notin Holding => frame = <<>>

\* The subpage being read is overwritten by the second measurement only.
LapsOK ==
    pc \in {"clear", "blocks"} =>
        /\ lapped = 0 => lastPage = subPage
        /\ lapped = 1 => lastPage = 1 - subPage

WholeOK ==
    lapped < 2 =>
        /\ pc = "blocks" => \A a \in 1..Len(frame) : frame[a].stamp = page[subPage].stamp
        /\ \A a, b \in 1..Len(frame) : frame[a].stamp = frame[b].stamp

\* Once a ready bit has been cleared in a reading, those found set later
\* stand for measurements that ended during it.
FreshOK ==
    /\ (ready /\ pc \in Reading /\ (frameNo > 1 \/ pc \notin {"poll", "clear"}))
           => page[lastPage].fresh
    /\ (pc \in {"clear", "blocks"} /\ frameNo > 1) => page[subPage].fresh
    /\ (pc = "publish" \/ frameNo > 1) => \A a \in 1..Len(frame) : frame[a].fresh

\* The auxiliary words are those of the camera's last measurement, which
\* has ended during the reading when a frame has been read before.
AuxOK ==
    /\ (pc \in {"clear", "blocks", "aux"} /\ frameNo > 1) => page[lastPage].fresh
    /\ (pc = "control" /\ frameNo > 1) => auxData.fresh
    /\ pc = "publish" => auxFresh \/ ~auxData.valid

FrameInv == CameraOK /\ LoopsOK /\ BlocksOK /\ LapsOK /\ WholeOK /\ FreshOK /\ AuxOK
-----------------------------------------------------------------------------
(***************************************************************************)
(* The EEPROM.                                                             *)
(***************************************************************************)
LEMMA StatusIsWorst ==
    ASSUME WordOK, DecodeWord
    PROVE  WordOK'
<1>1. /\ addr' = addr + 1 /\ addr < Words /\ addr \in 0..Words /\ Words \in Nat
  BY ThermalAssumption DEF ThermalAssumption, DecodeWord, WordOK
<1>2. PICK data \in WordData, flips \in Damages :
          /\ word' = [data |-> data, bad |-> Cardinality(flips),
                      decoded |-> Decoded(Flip(Encoded(data), flips))]
          /\ worst' = IF Cardinality(flips) > worst THEN Cardinality(flips) ELSE worst
          /\ status' = StatusAfter(status, Flip(Encoded(data), flips))
  BY Zenon DEF DecodeWord
<1>3. data \in SUBSET DataBits
  BY ThermalAssumption DEF ThermalAssumption
<1> DEFINE stored == Flip(Encoded(data), flips)
<1>4. /\ worst \in 0..2
      /\ status = CASE worst = 0 -> 0 [] worst = 1 -> Corrected [] OTHER -> Uncorrectable
  BY DEF WordOK, EepromSound
<1>5. Decoded(stored) \in SUBSET DataBits
  BY DEF Decoded
<1>6. CASE flips = {}
  <2>1. Cardinality(flips) = 0
    BY <1>6, FS_EmptySet
  <2>2. stored = Encoded(data)
    BY <1>6 DEF Flip
  <2>3. Check(stored) = 0 /\ Decoded(stored) = data
    BY <1>3, <2>2, HammingDecodes DEF WordBits
  <2>4. status' = status /\ worst' = worst
    BY <1>2, <1>4, <2>1, <2>3 DEF StatusAfter
  <2>q. QED
    BY <1>1, <1>2, <1>3, <1>4, <2>1, <2>3, <2>4 DEF WordOK, EepromSound
<1>7. ASSUME NEW i \in WordBits, flips = {i} PROVE WordOK'
  <2>1. Cardinality(flips) = 1
    BY <1>7, FS_Singleton
  <2>2. stored = Flip(Encoded(data), {i})
    BY <1>7
  <2>3. Check(stored) > 15 /\ Check(stored) # 0 /\ Decoded(stored) = data
    BY <1>3, <2>2, HammingDecodes
  <2>4. status' = IF status = 0 THEN Corrected ELSE status
    BY <1>2, <2>3 DEF StatusAfter
  <2>5. worst' = IF worst = 0 THEN 1 ELSE worst
    BY <1>2, <1>4, <2>1
  <2>q. QED
    BY <1>1, <1>2, <1>3, <1>4, <2>1, <2>3, <2>4, <2>5
       DEF WordOK, EepromSound, Corrected, Uncorrectable
<1>8. ASSUME NEW i \in WordBits, NEW j \in WordBits, i # j, flips = {i, j} PROVE WordOK'
  <2>1. Cardinality(flips) = 2
    <3>1. IsFiniteSet({i}) /\ Cardinality({i}) = 1
      BY FS_Singleton
    <3>2. Cardinality({i} \cup {j}) = Cardinality({i}) + 1
      BY <1>8, <3>1, FS_AddElement
    <3>3. flips = {i} \cup {j}
      BY <1>8
    <3>q. QED
      BY <3>1, <3>2, <3>3
  <2>2. stored = Flip(Encoded(data), {i, j})
    BY <1>8
  <2>3. Check(stored) \in 1..15
    BY <1>3, <1>8, <2>2, HammingDecodes
  <2>4. status' = Uncorrectable
    BY <1>2, <2>3 DEF StatusAfter
  <2>5. worst' = 2
    BY <1>2, <1>4, <2>1
  <2>q. QED
    BY <1>1, <1>2, <1>3, <1>5, <2>1, <2>4, <2>5 DEF WordOK, EepromSound
<1>9. flips = {} \/ \E i, j \in WordBits : flips = {i, j}
  BY <1>2 DEF Damages
<1>q. QED
  BY <1>6, <1>7, <1>8, <1>9

LEMMA WordStep ==
    ASSUME WordOK, [SensorsNext]_sensorVars
    PROVE  WordOK'
<1>1. CASE DecodeWord
  BY <1>1, StatusIsWorst
<1>2. CASE DumpEnds
  BY <1>2 DEF DumpEnds, NoWord, WordOK, EepromSound
<1>3. CASE UNCHANGED <<word, worst, status, addr>>
  BY <1>3 DEF WordOK, EepromSound
<1>q. QED
  BY <1>1, <1>2, <1>3
     DEF SensorsNext, SensorThread, InitCamera, ReadThermal, DumpFails, Configure,
         ReadBegins, Poll, ClearReady, ReadBlock, ReadAux, ReadControl, Measure,
         TransferFails, SensorLoop, PublishFrame, Ranging, PublishRange, Stop,
         StepOnly, sensorVars, thermalVars, eepromVars

(***************************************************************************)
(* The status thermal_sensor_init returns is that of the worst word read,  *)
(* in whatever order words come, and every word with one flipped bit is    *)
(* restored: for every data and each of the sixteen bits.                  *)
(***************************************************************************)
THEOREM EepromIsSound == SensorsSpec => []EepromSound
<1>1. SensorsInit => WordOK
  BY ThermalAssumption
     DEF ThermalAssumption, SensorsInit, ThermalInit, NoWord, WordOK, EepromSound
<1>2. WordOK => EepromSound
  BY DEF WordOK
<1>q. QED
  BY <1>1, <1>2, WordStep, PTL DEF SensorsSpec
-----------------------------------------------------------------------------
(***************************************************************************)
(* The frames.                                                             *)
(***************************************************************************)
LEMMA NoBlocks ==
    ASSUME frame = <<>>
    PROVE  BlocksOK /\ WholeOK /\ (\A a \in 1..Len(frame) : frame[a].fresh)
<1>1. frame \in Seq(Measurement) /\ Len(frame) = 0 /\ 1..Len(frame) = {}
  BY EmptySeq
<1>q. QED
  BY <1>1, ThermalAssumption DEF ThermalAssumption, BlocksOK, WholeOK

LEMMA FrameInvInit == SensorsInit => FrameInv
<1> SUFFICES ASSUME SensorsInit PROVE FrameInv
  OBVIOUS
<1> USE DEF SensorsInit, ThermalInit
<1>1. CameraOK
  <2>1. Unmeasured \in Measurement
    BY ThermalAssumption DEF ThermalAssumption, Unmeasured, Measurement
  <2>2. page = [q \in 0..1 |-> Unmeasured] /\ lastPage = 0 /\ ready = FALSE
    OBVIOUS
  <2>q. QED
    BY <2>1, <2>2 DEF CameraOK
<1>2. LoopsOK
  BY ThermalAssumption DEF ThermalAssumption, LoopsOK, Places, Reading
<1>3. LapsOK /\ FreshOK
  BY NoBlocks DEF LapsOK, FreshOK, Reading
<1>4. AuxOK
  BY DEF AuxOK
<1>q. QED
  BY <1>1, <1>2, <1>3, <1>4, NoBlocks DEF FrameInv

(***************************************************************************)
(* Steps outside a reading: no block is held, and the first of the frames  *)
(* is the next one.                                                        *)
(***************************************************************************)
LEMMA OutsideKeeps ==
    ASSUME FrameInv, pc \notin Reading, pc' \in Places, pc' \notin Reading, pc' # "publish",
           UNCHANGED <<camera, loops, subPage, reading>>,
           frame' = <<>>, lapped' \in {lapped, 0}
    PROVE  FrameInv'
<1>1. UNCHANGED <<lastPage, ready, page, frameNo, tries, subPage, reading>>
  BY DEF camera, loops
<1>2. CameraOK'
  BY <1>1 DEF FrameInv, CameraOK
<1>3. LoopsOK'
  BY <1>1 DEF FrameInv, LoopsOK
<1>4. LapsOK' /\ FreshOK'
  BY <1>1, NoBlocks DEF FrameInv, LoopsOK, LapsOK, FreshOK, Reading
<1>5. BlocksOK' /\ WholeOK'
  <2>1. frame' \in Seq(Measurement) /\ Len(frame') = 0 /\ 1..Len(frame') = {}
    BY EmptySeq
  <2>q. QED
    BY <2>1, ThermalAssumption DEF ThermalAssumption, BlocksOK, WholeOK
<1>6. AuxOK'
  BY DEF AuxOK, Reading
<1>q. QED
  BY <1>2, <1>3, <1>4, <1>5, <1>6 DEF FrameInv

LEMMA InitStepKeeps == ASSUME FrameInv, InitCamera PROVE FrameInv'
<1>1. /\ pc \in {"dump", "extract", "rate"}
      /\ pc' \in {"dump", "extract", "rate", "failed", "loop"}
      /\ UNCHANGED <<camera, loops, subPage, frame, lapped, reading>>
  BY DEF InitCamera, DumpFails, DecodeWord, DumpEnds, Configure, InitOnly
<1>2. frame = <<>>
  BY <1>1 DEF FrameInv, BlocksOK, Holding
<1>q. QED
  BY <1>1, <1>2, OutsideKeeps DEF Reading, Places

LEMMA ThreadStepKeeps ==
    ASSUME FrameInv, SensorLoop \/ PublishFrame \/ Ranging \/ PublishRange
    PROVE  FrameInv'
<1>1. CASE SensorLoop /\ running
  <2>1. /\ pc = "loop" /\ pc' = "read"
        /\ UNCHANGED <<camera, loops, subPage, frame, lapped, reading>>
    BY <1>1 DEF SensorLoop, StepOnly
  <2>2. frame = <<>>
    BY <2>1 DEF FrameInv, BlocksOK, Holding
  <2>q. QED
    BY <2>1, <2>2, OutsideKeeps DEF Reading, Places
<1>2. CASE ~(SensorLoop /\ running)
  <2>1. /\ pc \in {"loop", "publish", "range"} /\ pc' \in {"stopped", "range", "loop"}
        /\ UNCHANGED <<camera, loops, subPage, reading>>
        /\ pc = "publish" => frame' = <<>> /\ lapped' = 0
        /\ pc # "publish" => UNCHANGED <<frame, lapped>>
    BY <1>2 DEF SensorLoop, PublishFrame, Ranging, PublishRange, StepOnly
  <2>2. pc # "publish" => frame = <<>>
    BY <2>1 DEF FrameInv, BlocksOK, Holding
  <2>q. QED
    BY <2>1, <2>2, OutsideKeeps DEF Reading, Places
<1>q. QED
  BY <1>1, <1>2

(***************************************************************************)
(* The camera: what it writes while a reading is on is fresh, and it       *)
(* comes back to the subpage being read only with its second measurement.  *)
(***************************************************************************)
LEMMA MeasureKeeps == ASSUME FrameInv, Measure PROVE FrameInv'
<1>1. PICK good \in BOOLEAN :
          page' = [page EXCEPT ![lastPage'] =
                      [stamp |-> (page[lastPage].stamp + 1) % Stamps,
                       good |-> good, fresh |-> reading]]
  BY DEF Measure
<1>2. /\ lastPage' = 1 - lastPage /\ ready' = TRUE
      /\ lapped' = IF pc \in {"clear", "blocks"} /\ lapped < 2 THEN lapped + 1 ELSE lapped
      /\ UNCHANGED <<pc, frameNo, tries, subPage, frame, reading, auxData, auxFresh>>
  BY DEF Measure, loops, auxVars
<1>0. reading \in BOOLEAN
  BY Zenon DEF FrameInv, LoopsOK
<1>3. lastPage \in 0..1 /\ lastPage' \in 0..1 /\ subPage \in 0..1 /\ lapped \in 0..2
      /\ page \in [0..1 -> Measurement]
  BY <1>2 DEF FrameInv, CameraOK, LoopsOK
<1> DEFINE new == [stamp |-> (page[lastPage].stamp + 1) % Stamps,
                   good |-> good, fresh |-> reading]
<1>4. new \in Measurement /\ new.fresh = reading
  <2>1. page[lastPage].stamp \in Nat
    BY <1>3 DEF Measurement
  <2> DEFINE n == page[lastPage].stamp + 1
  <2>2. n \in Nat
    BY <2>1
  <2> HIDE DEF n
  <2>3. n % Stamps \in 0..(Stamps - 1)
    BY <2>2, ThermalAssumption, SMT DEF ThermalAssumption
  <2>q. QED
    BY <1>0, <2>3 DEF Measurement, n
<1>5. page' = [page EXCEPT ![lastPage'] = new]
  BY <1>1
<1> HIDE DEF new
<1>6. /\ page' \in [0..1 -> Measurement]
      /\ page'[lastPage'] = new
      /\ page'[lastPage] = page[lastPage]
      /\ page'[subPage] = IF subPage = lastPage' THEN new ELSE page[subPage]
  BY <1>2, <1>3, <1>4, <1>5
<1>7. CameraOK'
  BY <1>2, <1>3, <1>6 DEF CameraOK
<1>8. LoopsOK' /\ BlocksOK'
  BY <1>2, <1>3 DEF FrameInv, LoopsOK, BlocksOK
<1>9. LapsOK'
  BY <1>2, <1>3 DEF FrameInv, LapsOK
<1>10. WholeOK'
  <2>1. CASE pc = "blocks" /\ lapped' < 2
    <3>1. lapped = 0 /\ lastPage = subPage
      BY <1>2, <1>3, <2>1 DEF FrameInv, LapsOK
    <3>2. page'[subPage] = page[subPage]
      BY <1>6, <3>1
    <3>q. QED
      BY <1>2, <2>1, <3>1, <3>2 DEF FrameInv, WholeOK
  <2>2. CASE ~(pc = "blocks" /\ lapped' < 2)
    <3>1. lapped' < 2 => lapped < 2
      BY <1>2, <1>3
    <3>q. QED
      BY <1>2, <2>2, <3>1 DEF FrameInv, WholeOK
  <2>q. QED
    BY <2>1, <2>2
<1>11. FreshOK'
  <2>1. pc \in Reading => new.fresh
    BY <1>4 DEF FrameInv, LoopsOK
  <2>2. (pc' \in {"clear", "blocks"} /\ frameNo' > 1) => page'[subPage'].fresh
    BY <1>2, <1>6, <2>1 DEF FrameInv, FreshOK, Reading
  <2>q. QED
    BY <1>2, <1>6, <2>1, <2>2 DEF FrameInv, FreshOK
<1>12. AuxOK'
  <2>1. pc \in {"clear", "blocks", "aux"} => page'[lastPage'].fresh
    BY <1>4, <1>6 DEF FrameInv, LoopsOK, Reading
  <2>q. QED
    BY <1>2, <2>1 DEF FrameInv, AuxOK
<1>q. QED
  BY <1>7, <1>8, <1>9, <1>10, <1>11, <1>12 DEF FrameInv

(***************************************************************************)
(* The steps of a reading.                                                 *)
(***************************************************************************)
LEMMA ReadBeginsKeeps == ASSUME FrameInv, ReadBegins PROVE FrameInv'
<1>1. /\ pc = "read" /\ pc' = "poll" /\ frameNo' = 1 /\ tries' = 0 /\ reading' = TRUE
      /\ page' = [q \in 0..1 |-> [page[q] EXCEPT !.fresh = FALSE]]
      /\ UNCHANGED <<lastPage, ready, subPage, frame, lapped>>
  BY DEF ReadBegins
<1>2. CameraOK'
  <2>1. ASSUME NEW q \in 0..1 PROVE [page[q] EXCEPT !.fresh = FALSE] \in Measurement
    <3>1. page[q] \in Measurement
      BY DEF FrameInv, CameraOK
    <3>q. QED
      BY <3>1 DEF Measurement
  <2>2. page' \in [0..1 -> Measurement]
    BY <1>1, <2>1
  <2>q. QED
    BY <1>1, <2>2 DEF FrameInv, CameraOK
<1>3. LoopsOK'
  BY <1>1, ThermalAssumption DEF ThermalAssumption, FrameInv, LoopsOK, Places, Reading
<1>4. frame' = <<>>
  BY <1>1 DEF FrameInv, BlocksOK, Holding
<1>5. BlocksOK' /\ WholeOK'
  <2>1. frame' \in Seq(Measurement) /\ Len(frame') = 0 /\ 1..Len(frame') = {}
    BY <1>4, EmptySeq
  <2>q. QED
    BY <1>4, <2>1, ThermalAssumption DEF ThermalAssumption, BlocksOK, WholeOK
<1>6. LapsOK' /\ FreshOK'
  BY <1>1 DEF LapsOK, FreshOK
<1>7. AuxOK'
  BY <1>1 DEF AuxOK
<1>q. QED
  BY <1>2, <1>3, <1>5, <1>6, <1>7 DEF FrameInv

(***************************************************************************)
(* A try that fails drops its blocks; the last one ends the reading.       *)
(***************************************************************************)
LEMMA FailedTryKeeps ==
    ASSUME FrameInv, pc \in Reading, TryFailed,
           UNCHANGED <<lastPage, page, subPage>>,
           ready' = ready \/ ready' = FALSE, lapped' \in 0..2
    PROVE  FrameInv'
<1>1. /\ frame' = <<>>
      /\ \/ /\ pc' = "poll" /\ tries' = tries + 1 /\ tries + 1 < MaxTries
            /\ frameNo' = frameNo /\ reading' = reading
         \/ /\ pc' = "range" /\ tries' = 0 /\ frameNo' = 1 /\ reading' = FALSE
  BY DEF TryFailed, ReadEnds
<1>2. CameraOK'
  <2>1. ready' \in BOOLEAN
    BY Zenon DEF FrameInv, CameraOK
  <2>q. QED
    BY <2>1 DEF FrameInv, CameraOK
<1>3. LoopsOK'
  <2>1. CASE pc' = "poll"
    BY <1>1, <2>1, ThermalAssumption
       DEF ThermalAssumption, FrameInv, LoopsOK, Places, Reading
  <2>2. CASE pc' = "range"
    BY <1>1, <2>2, ThermalAssumption
       DEF ThermalAssumption, FrameInv, LoopsOK, Places, Reading
  <2>q. QED
    BY <1>1, <2>1, <2>2
<1>4. BlocksOK' /\ WholeOK' /\ (\A a \in 1..Len(frame') : frame'[a].fresh)
  <2>1. frame' \in Seq(Measurement) /\ Len(frame') = 0 /\ 1..Len(frame') = {}
    BY <1>1, EmptySeq
  <2>q. QED
    BY <1>1, <2>1, ThermalAssumption DEF ThermalAssumption, BlocksOK, WholeOK
<1>5. LapsOK'
  BY <1>1 DEF LapsOK
<1>6. FreshOK'
  <2>1. (ready' /\ pc' \in Reading /\ (frameNo' > 1 \/ pc' \notin {"poll", "clear"}))
            => page'[lastPage'].fresh
    BY <1>1 DEF FrameInv, FreshOK, Reading
  <2>q. QED
    BY <1>1, <1>4, <2>1 DEF FreshOK
<1>7. AuxOK'
  BY <1>1 DEF AuxOK
<1>q. QED
  BY <1>2, <1>3, <1>4, <1>5, <1>6, <1>7 DEF FrameInv

LEMMA TransferFailsKeeps == ASSUME FrameInv, TransferFails PROVE FrameInv'
<1>1. pc \in Reading /\ TryFailed /\ lapped' = 0
      /\ UNCHANGED <<lastPage, ready, page, subPage>>
  BY DEF TransferFails, Reading, camera
<1>q. QED
  BY <1>1, FailedTryKeeps

LEMMA PollKeeps == ASSUME FrameInv, Poll PROVE FrameInv'
<1>1. /\ pc = "poll" /\ lapped' = 0
      /\ UNCHANGED <<lastPage, ready, page, frameNo, tries, frame, reading>>
      /\ \/ ready /\ pc' = "clear" /\ subPage' = lastPage
         \/ pc' = "poll" /\ subPage' = subPage
  BY DEF Poll, camera, loops
<1>2. CameraOK'
  BY <1>1 DEF FrameInv, CameraOK
<1>3. LoopsOK'
  BY <1>1 DEF FrameInv, CameraOK, LoopsOK, Places, Reading
<1>4. frame' = <<>> /\ frame = <<>>
  BY <1>1 DEF FrameInv, BlocksOK, Holding
<1>5. BlocksOK' /\ WholeOK' /\ (\A a \in 1..Len(frame') : frame'[a].fresh)
  <2>1. frame' \in Seq(Measurement) /\ Len(frame') = 0 /\ 1..Len(frame') = {}
    BY <1>4, EmptySeq
  <2>q. QED
    BY <1>1, <1>4, <2>1, ThermalAssumption DEF ThermalAssumption, BlocksOK, WholeOK
<1>6. LapsOK'
  BY <1>1 DEF LapsOK
<1>7. FreshOK'
  BY <1>1, <1>5 DEF FrameInv, FreshOK, Reading
<1>8. AuxOK'
  BY <1>1 DEF FrameInv, FreshOK, Reading, AuxOK
<1>q. QED
  BY <1>2, <1>3, <1>5, <1>6, <1>7, <1>8 DEF FrameInv

LEMMA ClearReadyKeeps == ASSUME FrameInv, ClearReady PROVE FrameInv'
<1>1. /\ pc = "clear" /\ ready' = FALSE
      /\ UNCHANGED <<lastPage, page, subPage, lapped>>
  BY DEF ClearReady
<1>2. CASE TryFailed
  <2>1. lapped' \in 0..2
    BY <1>1 DEF FrameInv, LoopsOK
  <2>q. QED
    BY <1>1, <1>2, <2>1, FailedTryKeeps DEF Reading
<1>3. CASE pc' = "blocks" /\ UNCHANGED <<loops, frame, reading, auxVars>>
  <2>1. UNCHANGED <<frameNo, tries, frame, reading>>
    BY <1>3 DEF loops
  <2>2. CameraOK'
    BY <1>1 DEF FrameInv, CameraOK
  <2>3. LoopsOK'
    BY <1>1, <1>3, <2>1 DEF FrameInv, LoopsOK, Places, Reading
  <2>4. frame' = <<>> /\ frame = <<>>
    BY <1>1, <2>1 DEF FrameInv, BlocksOK, Holding
  <2>5. BlocksOK' /\ WholeOK' /\ (\A a \in 1..Len(frame') : frame'[a].fresh)
    <3>1. frame' \in Seq(Measurement) /\ Len(frame') = 0 /\ 1..Len(frame') = {}
      BY <2>4, EmptySeq
    <3>q. QED
      BY <2>4, <3>1, ThermalAssumption DEF ThermalAssumption, BlocksOK, WholeOK
  <2>6. LapsOK'
    BY <1>1, <1>3 DEF FrameInv, LapsOK
  <2>7. FreshOK'
    BY <1>1, <1>3, <2>1, <2>5 DEF FrameInv, FreshOK, Reading
  <2>8. AuxOK'
    BY <1>1, <1>3, <2>1 DEF FrameInv, AuxOK
  <2>q. QED
    BY <2>2, <2>3, <2>5, <2>6, <2>7, <2>8 DEF FrameInv
<1>q. QED
  BY <1>2, <1>3 DEF ClearReady

LEMMA ReadBlockKeeps == ASSUME FrameInv, ReadBlock PROVE FrameInv'
<1>1. /\ pc = "blocks" /\ frame' = Append(frame, page[subPage])
      /\ pc' = IF Len(frame') = Blocks THEN "aux" ELSE "blocks"
      /\ UNCHANGED <<lastPage, ready, page, frameNo, tries, subPage, lapped, reading>>
  BY DEF ReadBlock, PageOf, camera, loops
<1> DEFINE new == page[subPage]
<1>2. /\ frame \in Seq(Measurement) /\ Len(frame) \in Nat /\ Len(frame) < Blocks
      /\ new \in Measurement /\ Blocks \in Nat
  BY <1>1, LenProperties, ThermalAssumption
     DEF ThermalAssumption, FrameInv, BlocksOK, CameraOK, LoopsOK
<1>3. /\ frame' \in Seq(Measurement) /\ Len(frame') = Len(frame) + 1
      /\ \A a \in 1..Len(frame) : frame'[a] = frame[a]
      /\ frame'[Len(frame) + 1] = new
  BY <1>1, <1>2, AppendProperties
<1>4. \A a \in 1..Len(frame') : a \in 1..Len(frame) \/ frame'[a] = new
  BY <1>2, <1>3
<1>5. CameraOK'
  BY <1>1 DEF FrameInv, CameraOK
<1>6. LoopsOK'
  BY <1>1 DEF FrameInv, LoopsOK, Places, Reading
<1>7. BlocksOK'
  BY <1>1, <1>2, <1>3 DEF BlocksOK, Holding
<1>8. LapsOK'
  BY <1>1 DEF FrameInv, LapsOK
<1>9. WholeOK'
  <2>1. lapped < 2 => \A a \in 1..Len(frame') : frame'[a].stamp = new.stamp
    BY <1>1, <1>3, <1>4 DEF FrameInv, WholeOK
  <2>q. QED
    BY <1>1, <2>1 DEF WholeOK
<1>10. FreshOK'
  <2>1. frameNo > 1 => \A a \in 1..Len(frame') : frame'[a].fresh
    BY <1>1, <1>3, <1>4 DEF FrameInv, FreshOK
  <2>q. QED
    BY <1>1, <2>1 DEF FrameInv, FreshOK, Reading
<1>11. AuxOK'
  BY <1>1 DEF FrameInv, AuxOK
<1>q. QED
  BY <1>5, <1>6, <1>7, <1>8, <1>9, <1>10, <1>11 DEF FrameInv

LEMMA ReadAuxKeeps == ASSUME FrameInv, ReadAux PROVE FrameInv'
<1>1. /\ pc = "aux" /\ pc' = "control"
      /\ UNCHANGED <<lastPage, ready, page, frameNo, tries, subPage, frame, lapped, reading>>
  BY DEF ReadAux, camera, loops
<1>2. CameraOK' /\ LoopsOK' /\ BlocksOK'
  BY <1>1 DEF FrameInv, CameraOK, LoopsOK, BlocksOK, Places, Reading, Holding
<1>3. LapsOK' /\ WholeOK' /\ FreshOK'
  BY <1>1 DEF FrameInv, LapsOK, WholeOK, FreshOK, Reading
<1>4. AuxOK'
  <2>1. frameNo > 1 => page[lastPage].fresh
    BY <1>1 DEF FrameInv, AuxOK
  <2>2. auxData'.fresh = page[lastPage].fresh
    BY DEF ReadAux, AuxRead
  <2>q. QED
    BY <1>1, <2>1, <2>2 DEF AuxOK
<1>q. QED
  BY <1>2, <1>3, <1>4 DEF FrameInv

LEMMA ReadControlKeeps == ASSUME FrameInv, ReadControl PROVE FrameInv'
<1>1. /\ pc = "control"
      /\ NextFrame \/ TryFailed
      /\ UNCHANGED <<lastPage, ready, page, subPage, lapped>>
  BY DEF ReadControl, camera
<1>2. CASE TryFailed
  <2>1. lapped' \in 0..2
    BY <1>1 DEF FrameInv, LoopsOK
  <2>q. QED
    BY <1>1, <1>2, <2>1, FailedTryKeeps DEF Reading
<1>3. CASE NextFrame /\ frameNo < Frames
  <2>1. /\ pc' = "poll" /\ frameNo' = frameNo + 1 /\ tries' = 0 /\ frame' = <<>>
        /\ reading' = reading
    BY <1>3 DEF NextFrame
  <2>2. CameraOK'
    BY <1>1 DEF FrameInv, CameraOK
  <2>3. LoopsOK'
    BY <1>1, <1>3, <2>1, ThermalAssumption
       DEF ThermalAssumption, FrameInv, LoopsOK, Places, Reading
  <2>4. BlocksOK' /\ WholeOK' /\ (\A a \in 1..Len(frame') : frame'[a].fresh)
    <3>1. frame' \in Seq(Measurement) /\ Len(frame') = 0 /\ 1..Len(frame') = {}
      BY <2>1, EmptySeq
    <3>q. QED
      BY <2>1, <3>1, ThermalAssumption DEF ThermalAssumption, BlocksOK, WholeOK
  <2>5. LapsOK' /\ FreshOK'
    BY <1>1, <2>1, <2>4 DEF FrameInv, LapsOK, FreshOK, Reading
  <2>6. AuxOK'
    BY <2>1 DEF AuxOK
  <2>q. QED
    BY <2>2, <2>3, <2>4, <2>5, <2>6 DEF FrameInv
<1>4. CASE NextFrame /\ ~(frameNo < Frames)
  <2>1. /\ pc' = "publish" /\ frameNo' = 1 /\ tries' = 0 /\ frame' = frame
        /\ reading' = FALSE
    BY <1>4 DEF NextFrame, ReadEnds
  <2>2. frameNo > 1
    BY <1>4, ThermalAssumption DEF ThermalAssumption, FrameInv, LoopsOK
  <2>3. CameraOK'
    BY <1>1 DEF FrameInv, CameraOK
  <2>4. LoopsOK'
    BY <1>1, <2>1, ThermalAssumption
       DEF ThermalAssumption, FrameInv, LoopsOK, Places, Reading
  <2>5. BlocksOK' /\ LapsOK' /\ WholeOK'
    BY <1>1, <2>1 DEF FrameInv, BlocksOK, LapsOK, WholeOK, Holding
  <2>6. FreshOK'
    BY <1>1, <2>1, <2>2 DEF FrameInv, FreshOK, Reading
  <2>7. AuxOK'
    <3>1. auxData' = auxData
      BY <1>4 DEF NextFrame
    <3>2. auxData.valid => (auxFresh' <=> auxData.fresh)
      BY <2>1 DEF ReadControl, AuxBecomes
    <3>3. auxData.fresh
      BY <1>1, <2>2 DEF FrameInv, AuxOK
    <3>q. QED
      BY <2>1, <3>1, <3>2, <3>3 DEF AuxOK
  <2>q. QED
    BY <2>3, <2>4, <2>5, <2>6, <2>7 DEF FrameInv
<1>q. QED
  BY <1>1, <1>2, <1>3, <1>4

LEMMA FrameStep == FrameInv /\ [SensorsNext]_sensorVars => FrameInv'
<1> SUFFICES ASSUME FrameInv, [SensorsNext]_sensorVars PROVE FrameInv'
  OBVIOUS
<1>1. CASE UNCHANGED thermalVars
  <2>1. /\ UNCHANGED <<pc, lastPage, ready, page, frameNo, tries, subPage, frame>>
        /\ UNCHANGED <<lapped, reading, auxData, auxFresh>>
    BY <1>1 DEF thermalVars, camera, loops, auxVars
  <2>q. QED
    BY <2>1 DEF FrameInv, CameraOK, LoopsOK, BlocksOK, LapsOK, WholeOK, FreshOK, AuxOK
<1>2. CASE Stop \/ UNCHANGED sensorVars
  BY <1>1, <1>2 DEF Stop, sensorVars
<1>q. QED
  BY <1>2, InitStepKeeps, ThreadStepKeeps, MeasureKeeps, ReadBeginsKeeps,
     TransferFailsKeeps, PollKeeps, ClearReadyKeeps, ReadBlockKeeps, ReadAuxKeeps,
     ReadControlKeeps
     DEF SensorsNext, SensorThread, ReadThermal

LEMMA FrameInvariant == SensorsSpec => []FrameInv
BY FrameInvInit, FrameStep, PTL DEF SensorsSpec

(***************************************************************************)
(* The pixels thermal_sensor_read hands on were measured after it was      *)
(* called, with any number of tries and failures: the frame published is   *)
(* never the first one read, whose ready bit may have been set long        *)
(* before.  So were the gain and the supply voltage, unless the camera     *)
(* marked those of the frame published as not valid.                       *)
(***************************************************************************)
THEOREM PublishedIsFresh == SensorsSpec => []PublishedFresh
<1>1. FrameInv => PublishedFresh
  <2> SUFFICES ASSUME FrameInv, pc = "publish"
               PROVE  /\ \A b \in DOMAIN frame : frame[b].fresh
                      /\ auxFresh \/ ~auxData.valid
    BY DEF PublishedFresh
  <2>1. DOMAIN frame = 1..Len(frame)
    BY LenProperties DEF FrameInv, BlocksOK
  <2>2. \A b \in 1..Len(frame) : frame[b].fresh
    BY DEF FrameInv, FreshOK
  <2>3. auxFresh \/ ~auxData.valid
    BY DEF FrameInv, AuxOK
  <2>q. QED
    BY <2>1, <2>2, <2>3
<1>q. QED
  BY <1>1, FrameInvariant, PTL

(***************************************************************************)
(* The blocks of a published frame belong to one measurement unless the    *)
(* camera has ended two more while they were read, in as many transactions *)
(* as the frame is split into.                                             *)
(***************************************************************************)
THEOREM FrameIsWhole == SensorsSpec => []FrameWhole
<1>1. FrameInv => FrameWhole
  <2> SUFFICES ASSUME FrameInv, lapped < 2, NEW a \in DOMAIN frame, NEW b \in DOMAIN frame
               PROVE  frame[a].stamp = frame[b].stamp
    BY DEF FrameWhole
  <2>1. a \in 1..Len(frame) /\ b \in 1..Len(frame)
    BY LenProperties DEF FrameInv, BlocksOK
  <2>q. QED
    BY <2>1 DEF FrameInv, WholeOK
<1>q. QED
  BY <1>1, FrameInvariant, PTL
-----------------------------------------------------------------------------
(***************************************************************************)
(* The distances.                                                          *)
(***************************************************************************)
RangeTypeOK ==
    /\ usPc \in {"idle", "ping", "rise", "fall", "done"}
    /\ clock \in 0..(ClockSize - 1) /\ from \in 0..(ClockSize - 1)
    /\ since \in Nat /\ rise \in Nat /\ width \in Nat
    /\ sample \in 0..Samples /\ valid \in 0..sample /\ sum \in Nat
    /\ usPc \in {"rise", "fall"} => sample < Samples

\* An edge is seen at the second poll after it at the latest.
EchoOK ==
    /\ (usPc = "rise" /\ High) => since < rise + MaxDelay
    /\ usPc = "fall" =>
           /\ rise > 0 /\ since < rise + width + MaxDelay
           /\ Elapsed(clock) <= Timeout
           /\ rise < since - Elapsed(clock)
           /\ since - Elapsed(clock) < rise + 2 * MaxDelay

Shortest == width + 2 - 2 * MaxDelay
Longest == width - 2 + 2 * MaxDelay
SumOK == valid * Shortest <= sum /\ sum <= valid * Longest

RangeInv == RangeTypeOK /\ EchoOK /\ SumOK

LEMMA ClockConstants ==
    /\ ClockSize \in Nat \ {0} /\ MaxDelay \in Nat \ {0} /\ Timeout \in Nat
    /\ Samples \in Nat \ {0} /\ Timeout + MaxDelay < ClockSize \div 2
    /\ ClockSize \div 2 \in Nat /\ ClockSize \div 2 < ClockSize
    /\ ClockStarts \subseteq 0..(ClockSize - 1) /\ Rises \subseteq Nat /\ Widths \subseteq Nat
BY UltrasonicAssumption DEF UltrasonicAssumption

LEMMA Cancelled == \A n \in Int : n - n = 0 /\ 0 * n = 0
OBVIOUS

LEMMA RemainderAbove ==
    ASSUME NEW c \in Nat \ {0}, NEW x \in Int, 0 <= x, x < 2 * c
    PROVE  x % c = IF x < c THEN x ELSE x - c
<1>1. x < c => x % c = x
  BY SMT
<1>2. c <= x => x % c = x - c
  BY SMT
<1>q. QED
  BY <1>1, <1>2

LEMMA RemainderBelow ==
    ASSUME NEW c \in Nat \ {0}, NEW x \in Int, -c <= x, x < c
    PROVE  x % c = IF x >= 0 THEN x ELSE x + c
<1>1. x >= 0 => x % c = x
  BY SMT
<1>2. x < 0 => x % c = x + c
  BY SMT
<1>q. QED
  BY <1>1, <1>2

(***************************************************************************)
(* The unsigned difference of two readings of the clock is the time        *)
(* between them, over the wrap-around too, as long as it is less than a    *)
(* round.                                                                  *)
(***************************************************************************)
LEMMA ElapsedGrows ==
    ASSUME RangeTypeOK, NEW d \in 1..MaxDelay, clock' = (clock + d) % ClockSize
    PROVE  /\ clock' \in 0..(ClockSize - 1)
           /\ Elapsed(clock) \in Nat
           /\ Elapsed(clock) + d < ClockSize => Elapsed(clock') = Elapsed(clock) + d
<1> DEFINE c == ClockSize
<1>1. /\ c \in Nat \ {0} /\ d \in Nat /\ d < c
      /\ clock \in 0..(c - 1) /\ from \in 0..(c - 1)
  BY ClockConstants DEF RangeTypeOK
<1> HIDE DEF c
<1>2. clock' = IF clock + d < c THEN clock + d ELSE clock + d - c
  <2> DEFINE x == clock + d
  <2>1. clock' = x % c
    BY DEF c
  <2>2. x \in Int /\ 0 <= x /\ x < 2 * c
    BY <1>1
  <2> HIDE DEF x
  <2>3. x % c = IF x < c THEN x ELSE x - c
    BY <1>1, <2>2, RemainderAbove, Zenon
  <2>4. clock' = IF x < c THEN x ELSE x - c
    BY <2>1, <2>3, Zenon
  <2>q. QED
    BY <1>1, <2>4 DEF x
<1>3. clock' \in 0..(c - 1)
  BY <1>1, <1>2
<1>4. Elapsed(clock) = IF clock >= from THEN clock - from ELSE clock - from + c
  <2> DEFINE x == clock - from
  <2>1. Elapsed(clock) = x % c
    BY DEF Elapsed, c
  <2>2. x \in Int /\ -c <= x /\ x < c /\ (x >= 0 <=> clock >= from)
    BY <1>1
  <2> HIDE DEF x
  <2>3. x % c = IF x >= 0 THEN x ELSE x + c
    BY <1>1, <2>2, RemainderBelow, Zenon
  <2>4. Elapsed(clock) = IF x >= 0 THEN x ELSE x + c
    BY <2>1, <2>3, Zenon
  <2>q. QED
    BY <2>2, <2>4 DEF x
<1>5. Elapsed(clock') = IF clock' >= from THEN clock' - from ELSE clock' - from + c
  <2> DEFINE x == clock' - from
  <2>1. Elapsed(clock') = x % c
    BY DEF Elapsed, c
  <2>2. x \in Int /\ -c <= x /\ x < c /\ (x >= 0 <=> clock' >= from)
    BY <1>1, <1>3
  <2> HIDE DEF x
  <2>3. x % c = IF x >= 0 THEN x ELSE x + c
    BY <1>1, <2>2, RemainderBelow, Zenon
  <2>4. Elapsed(clock') = IF x >= 0 THEN x ELSE x + c
    BY <2>1, <2>3, Zenon
  <2>q. QED
    BY <2>2, <2>4 DEF x
<1>6. Elapsed(clock) + d < c => Elapsed(clock') = Elapsed(clock) + d
  BY <1>1, <1>2, <1>4, <1>5
<1>7. Elapsed(clock) \in Nat
  BY <1>1, <1>4
<1>q. QED
  BY <1>3, <1>6, <1>7 DEF c

LEMMA WaitForRiseKeeps == ASSUME RangeInv, WaitForRise PROVE RangeInv'
<1>1. PICK d \in 1..MaxDelay : clock' = (clock + d) % ClockSize /\ since' = since + d
  BY DEF WaitForRise, Waiting, TimePasses
<1>2. /\ usPc = "rise" /\ ~High /\ width' = width /\ sample < Samples
      /\ \/ /\ usPc' = "ping" /\ rise' = 0 /\ from' = 0
            /\ sample' = sample + 1 /\ valid' = valid /\ sum' = sum
         \/ UNCHANGED <<usPc, from, rise, sample, valid, sum>>
  BY DEF WaitForRise, Waiting, NextPing, Count, averageVars, RangeInv, RangeTypeOK
<1>3. d \in Nat \ {0} /\ d <= MaxDelay /\ ClockSize \in Nat \ {0} /\ MaxDelay \in Nat
  BY ClockConstants
<1>4. clock' \in 0..(ClockSize - 1)
  BY <1>1, ElapsedGrows DEF RangeInv
<1>5. RangeTypeOK'
  <2>1. /\ sample \in Nat /\ valid \in 0..sample /\ sum \in Nat /\ width \in Nat
        /\ since \in Nat /\ rise \in Nat /\ Samples \in Nat
        /\ from \in 0..(ClockSize - 1) /\ usPc \in {"idle", "ping", "rise", "fall", "done"}
        /\ sample \in 0..Samples
    BY ClockConstants DEF RangeInv, RangeTypeOK
  <2>2. since' \in Nat
    BY <1>1, <1>3, <2>1
  <2>3. CASE usPc' = "ping" /\ rise' = 0 /\ from' = 0
             /\ sample' = sample + 1 /\ valid' = valid /\ sum' = sum
    BY <1>2, <1>3, <1>4, <2>1, <2>2, <2>3 DEF RangeTypeOK
  <2>4. CASE UNCHANGED <<usPc, from, rise, sample, valid, sum>>
    BY <1>2, <1>4, <2>1, <2>2, <2>4 DEF RangeTypeOK
  <2>q. QED
    BY <1>2, <2>3, <2>4
<1>6. EchoOK'
  BY <1>1, <1>2, <1>3 DEF RangeInv, RangeTypeOK, EchoOK, High
<1>7. SumOK'
  BY <1>2 DEF RangeInv, SumOK, Shortest, Longest
<1>q. QED
  BY <1>5, <1>6, <1>7 DEF RangeInv

LEMMA WaitForFallKeeps == ASSUME RangeInv, WaitForFall PROVE RangeInv'
<1>1. PICK d \in 1..MaxDelay : clock' = (clock + d) % ClockSize /\ since' = since + d
  BY DEF WaitForFall, Waiting, TimePasses
<1>2. /\ usPc = "fall" /\ High /\ width' = width /\ sample < Samples
      /\ \/ /\ usPc' = "ping" /\ rise' = 0 /\ from' = 0
            /\ sample' = sample + 1 /\ valid' = valid /\ sum' = sum
         \/ /\ ~(Signed(Elapsed(clock')) > Timeout)
            /\ UNCHANGED <<usPc, from, rise, sample, valid, sum>>
  BY DEF WaitForFall, Waiting, NextPing, Count, averageVars, RangeInv, RangeTypeOK
<1>3. d \in Nat \ {0} /\ d <= MaxDelay
  BY ClockConstants
<1> DEFINE e == Elapsed(clock)
<1>4. /\ clock' \in 0..(ClockSize - 1) /\ e \in Nat
      /\ e + d < ClockSize => Elapsed(clock') = e + d
  BY <1>1, ElapsedGrows DEF RangeInv
<1>5. /\ e <= Timeout /\ rise < since - e /\ since - e < rise + 2 * MaxDelay /\ rise > 0
  BY <1>2 DEF RangeInv, EchoOK
<1> HIDE DEF e
<1>6. e + d < ClockSize \div 2 /\ e + d < ClockSize
  BY <1>3, <1>4, <1>5, ClockConstants
<1>7. Elapsed(clock') = e + d /\ Signed(Elapsed(clock')) = e + d
  BY <1>3, <1>4, <1>6, ClockConstants DEF Signed
<1>8. RangeTypeOK'
  BY <1>1, <1>2, <1>3, <1>4, ClockConstants DEF RangeInv, RangeTypeOK
<1>9. EchoOK'
  <2>1. CASE usPc' = "ping"
    BY <2>1 DEF EchoOK
  <2>2. CASE UNCHANGED <<usPc, from, rise>> /\ ~(Signed(Elapsed(clock')) > Timeout)
    <3>1. Elapsed(clock)' = e + d
      BY <1>7, <2>2 DEF Elapsed
    <3>2. e + d <= Timeout
      BY <1>3, <1>4, <1>7, <2>2, ClockConstants
    <3>3. since' - (e + d) = since - e
      BY <1>1, <1>3, <1>4 DEF RangeInv, RangeTypeOK
    <3>4. since' < rise' + width' + MaxDelay
      BY <1>1, <1>2, <1>3, <2>2, ClockConstants DEF High, RangeInv, RangeTypeOK
    <3>q. QED
      BY <1>2, <1>5, <2>2, <3>1, <3>2, <3>3, <3>4 DEF EchoOK
  <2>q. QED
    BY <1>2, <2>1, <2>2
<1>10. SumOK'
  BY <1>2 DEF RangeInv, SumOK, Shortest, Longest
<1>q. QED
  BY <1>8, <1>9, <1>10 DEF RangeInv

LEMMA RoseKeeps == ASSUME RangeInv, Rose PROVE RangeInv'
<1>1. PICK d \in 1..MaxDelay : clock' = (clock + d) % ClockSize /\ since' = since + d
  BY DEF Rose, TimePasses
<1>2. /\ usPc = "rise" /\ usPc' = "fall" /\ High /\ from' = clock'
      /\ UNCHANGED <<rise, width, sample, valid, sum>>
  BY DEF Rose, averageVars
<1>3. d \in Nat \ {0} /\ d <= MaxDelay
  BY ClockConstants
<1>4. clock' \in 0..(ClockSize - 1)
  BY <1>1, ElapsedGrows DEF RangeInv
<1>5. RangeTypeOK'
  BY <1>1, <1>2, <1>3, <1>4 DEF RangeInv, RangeTypeOK
<1>6. Elapsed(clock)' = 0
  <2>1. Elapsed(clock)' = (clock' - clock') % ClockSize
    BY <1>2 DEF Elapsed
  <2>2. clock' - clock' = 0
    <3>1. \A n \in 0..(ClockSize - 1) : n \in Int
      OBVIOUS
    <3>q. QED
      BY <1>4, <3>1, Cancelled, Zenon
  <2>3. 0 % ClockSize = 0
    BY ClockConstants
  <2>q. QED
    BY <2>1, <2>2, <2>3
<1>7. EchoOK'
  BY <1>1, <1>2, <1>3, <1>6, ClockConstants DEF RangeInv, RangeTypeOK, EchoOK, High
<1>8. SumOK'
  BY <1>2 DEF RangeInv, SumOK, Shortest, Longest
<1>q. QED
  BY <1>5, <1>7, <1>8 DEF RangeInv

LEMMA OneMore ==
    ASSUME NEW n \in Nat, NEW k \in Int
    PROVE  (n + 1) * k = n * k + k
BY SMT

LEMMA FellKeeps == ASSUME RangeInv, Fell PROVE RangeInv'
<1>1. PICK d \in 1..MaxDelay : clock' = (clock + d) % ClockSize /\ since' = since + d
  BY DEF Fell, TimePasses
<1>2. /\ usPc = "fall" /\ ~High /\ usPc' = "ping" /\ rise' = 0 /\ from' = 0
      /\ width' = width /\ Count(Elapsed(clock')) /\ sample < Samples
  BY DEF Fell, NextPing, RangeInv, RangeTypeOK
<1>3. d \in Nat \ {0} /\ d <= MaxDelay
  BY ClockConstants
<1> DEFINE e == Elapsed(clock)
<1>4. /\ clock' \in 0..(ClockSize - 1) /\ e \in Nat
      /\ e + d < ClockSize => Elapsed(clock') = e + d
  BY <1>1, ElapsedGrows DEF RangeInv
<1>5. /\ e <= Timeout /\ rise < since - e /\ since - e < rise + 2 * MaxDelay /\ rise > 0
      /\ since < rise + width + MaxDelay
  BY <1>2 DEF RangeInv, EchoOK
<1>6. ~(rise <= since /\ since < rise + width)
  BY <1>2, <1>5 DEF High
<1> HIDE DEF e
<1>7. Elapsed(clock') = e + d
  BY <1>3, <1>4, <1>5, ClockConstants
<1>8. since \in Nat /\ rise \in Nat /\ width \in Nat /\ valid \in Nat /\ sum \in Nat
  BY DEF RangeInv, RangeTypeOK
<1>9. Shortest <= e + d /\ e + d <= Longest /\ e + d > 0
  BY <1>3, <1>4, <1>5, <1>6, <1>8, ClockConstants DEF Shortest, Longest
<1>10. sample' = sample + 1 /\ valid' = valid + 1 /\ sum' = sum + (e + d)
  BY <1>2, <1>7, <1>9 DEF Count
<1>11. RangeTypeOK'
  BY <1>1, <1>2, <1>3, <1>4, <1>10, ClockConstants DEF RangeInv, RangeTypeOK
<1>12. EchoOK'
  BY <1>2 DEF EchoOK
<1>13. SumOK'
  <2>1. Shortest \in Int /\ Longest \in Int /\ Shortest' = Shortest /\ Longest' = Longest
    BY <1>2, <1>8, ClockConstants DEF Shortest, Longest
  <2>2. (valid + 1) * Shortest = valid * Shortest + Shortest
        /\ (valid + 1) * Longest = valid * Longest + Longest
    BY <1>8, <2>1, OneMore
  <2>3. valid * Shortest \in Int /\ valid * Longest \in Int
    BY <1>8, <2>1
  <2>4. valid * Shortest <= sum /\ sum <= valid * Longest
    BY DEF RangeInv, SumOK
  <2> DEFINE a == valid * Shortest
             b == valid * Longest
  <2>5. a + Shortest <= sum + (e + d) /\ sum + (e + d) <= b + Longest
    <3> HIDE DEF a, b
    <3>1. a \in Int /\ b \in Int /\ a <= sum /\ sum <= b
      BY <2>3, <2>4 DEF a, b
    <3>q. QED
      BY <1>3, <1>4, <1>8, <1>9, <2>1, <3>1
  <2>q. QED
    BY <1>10, <2>1, <2>2, <2>5 DEF SumOK
<1>q. QED
  BY <1>11, <1>12, <1>13 DEF RangeInv

LEMMA NoEcho ==
    ASSUME width' \in Nat, valid' = 0, sum' = 0
    PROVE  SumOK'
<1>1. Shortest' \in Int /\ Longest' \in Int
  BY ClockConstants DEF Shortest, Longest
<1>2. 0 * Shortest' = 0 /\ 0 * Longest' = 0
  BY <1>1, Cancelled
<1>3. valid' * Shortest' = 0 /\ valid' * Longest' = 0
  BY <1>2, Zenon
<1>q. QED
  BY <1>3 DEF SumOK

LEMMA RangeStep == RangeInv /\ [SensorsNext]_sensorVars => RangeInv'
<1> SUFFICES ASSUME RangeInv, [SensorsNext]_sensorVars PROVE RangeInv'
  OBVIOUS
<1>0. ClockSize \in Nat \ {0} /\ Samples \in Nat
      /\ ClockStarts \subseteq 0..(ClockSize - 1) /\ Rises \subseteq Nat /\ Widths \subseteq Nat
  BY ClockConstants
<1>1. CASE RangeBegins
  <2>1. /\ usPc' = "ping" /\ width' \in Nat /\ sample' = 0 /\ valid' = 0 /\ sum' = 0
        /\ UNCHANGED <<clock, from, since, rise>>
    BY <1>0, <1>1 DEF RangeBegins, echoVars
  <2>2. RangeTypeOK' /\ EchoOK'
    BY <1>0, <2>1 DEF RangeInv, RangeTypeOK, EchoOK
  <2>q. QED
    BY <2>1, <2>2, NoEcho DEF RangeInv
<1>2. CASE Ping
  <2>1. /\ usPc' = "rise" /\ sample < Samples /\ since' = 0 /\ from' = clock'
        /\ clock' \in 0..(ClockSize - 1) /\ rise' \in Nat
        /\ UNCHANGED <<width, sample, valid, sum>>
    BY <1>0, <1>2 DEF Ping, averageVars
  <2>2. RangeTypeOK'
    BY <1>0, <2>1 DEF RangeInv, RangeTypeOK
  <2>3. EchoOK'
    <3>1. ~High'
      BY <2>1 DEF High
    <3>q. QED
      BY <2>1, <3>1, Zenon DEF EchoOK
  <2>4. SumOK'
    BY <2>1 DEF RangeInv, SumOK, Shortest, Longest
  <2>q. QED
    BY <2>2, <2>3, <2>4 DEF RangeInv
<1>3. CASE RangeEnds
  <2>1. /\ usPc' = "done" /\ clock' = 0 /\ since' = 0
        /\ UNCHANGED <<from, rise, width, sample, valid, sum>>
    BY <1>3 DEF RangeEnds, averageVars
  <2>q. QED
    BY <1>0, <2>1 DEF RangeInv, RangeTypeOK, EchoOK, SumOK, Shortest, Longest
<1>4. CASE PublishRange
  <2>1. /\ usPc' = "idle" /\ width' = 0 /\ sample' = 0 /\ valid' = 0 /\ sum' = 0
        /\ UNCHANGED <<clock, from, since, rise>>
    BY <1>4 DEF PublishRange, echoVars
  <2>2. RangeTypeOK' /\ EchoOK'
    BY <1>0, <2>1 DEF RangeInv, RangeTypeOK, EchoOK
  <2>q. QED
    BY <2>1, <2>2, NoEcho DEF RangeInv
<1>5. CASE UNCHANGED ultrasonicVars
  <2>1. UNCHANGED <<usPc, clock, from, since, rise, width, sample, valid, sum>>
    BY <1>5 DEF ultrasonicVars, echoVars, averageVars
  <2>q. QED
    BY <1>0, <2>1 DEF RangeInv, RangeTypeOK, EchoOK, High, Elapsed, SumOK, Shortest, Longest
<1>q. QED
  BY <1>1, <1>2, <1>3, <1>4, <1>5, WaitForRiseKeeps, WaitForFallKeeps, RoseKeeps, FellKeeps
     DEF SensorsNext, SensorThread, ThermalOnly, SensorLoop, PublishFrame, Ranging,
         ReadRange, Stop, sensorVars

LEMMA AverageBetween ==
    ASSUME NEW n \in Nat \ {0}, NEW s \in Int, NEW lo \in Int, NEW hi \in Int,
           n * lo <= s, s <= n * hi
    PROVE  lo <= s \div n /\ s \div n <= hi
<1>1. lo <= s \div n
  BY SMT
<1>2. s \div n <= hi
  BY SMT
<1>q. QED
  BY <1>1, <1>2

(***************************************************************************)
(* The distance published is the obstacle's to within two polls at each    *)
(* edge of the echo, for every timeout, width and number of samples, with  *)
(* the clock wrapping round anywhere in between.                           *)
(***************************************************************************)
THEOREM DistanceIsTrue == SensorsSpec => []DistanceTrue
<1>1. SensorsInit => RangeInv
  BY ClockConstants
     DEF SensorsInit, UltrasonicInit, RangeInv, RangeTypeOK, EchoOK, SumOK, Shortest, Longest
<1>2. RangeInv => DistanceTrue
  <2> SUFFICES ASSUME RangeInv, valid > 0
               PROVE  Distance > width - 2 * MaxDelay /\ Distance < width + 2 * MaxDelay
    BY DEF DistanceTrue
  <2>1. valid \in Nat \ {0} /\ sum \in Int /\ width \in Nat
        /\ Shortest \in Int /\ Longest \in Int
    BY ClockConstants DEF RangeInv, RangeTypeOK, Shortest, Longest
  <2>2. Shortest <= Distance /\ Distance <= Longest
    <3>1. valid * Shortest <= sum /\ sum <= valid * Longest
      BY DEF RangeInv, SumOK
    <3>q. QED
      BY <2>1, <3>1, AverageBetween DEF Distance
  <2>3. Distance \in Int
    BY <2>1 DEF Distance
  <2>q. QED
    BY <2>1, <2>2, <2>3, ClockConstants DEF Shortest, Longest
<1>q. QED
  BY <1>1, <1>2, RangeStep, PTL DEF SensorsSpec
=============================================================================
