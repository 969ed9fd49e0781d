------------------------------ MODULE Thermal ------------------------------
(***************************************************************************)
(* The thermal camera: thermal_sensor_init, thermal_sensor_read and, of    *)
(* the library below them, the decoding of the EEPROM and the reading of a *)
(* frame (MLX90641_GetFrameData), I2C transaction by I2C transaction.      *)
(* The camera measures on its own and writes its two subpages in turn.     *)
(***************************************************************************)
EXTENDS Eeprom, Sequences

CONSTANTS
    Words,        \* EEPROM words that are decoded
    WordData,     \* data they may hold, as sets of bits
    Frames,       \* frames read for one reading (2)
    MaxTries,     \* tries to get one of them (200)
    Blocks,       \* reads of 32 pixels that make up a frame (6)
    Stamps        \* bound: measurements told apart, counted modulo this

ASSUME ThermalAssumption ==
    /\ Words \in Nat \ {0} /\ MaxTries \in Nat \ {0}
    /\ Frames \in Nat /\ Frames >= 2  \* a first frame may be an old one
    /\ Blocks \in Nat \ {0} /\ Stamps \in Nat /\ Stamps >= 3
    /\ WordData \subseteq SUBSET DataBits

VARIABLES
    pc,                        \* where the main thread, then the sensor thread is
    word, worst, status, addr, \* HammingDecode; worst: most bits damaged in a word
    lastPage, ready, page,     \* the camera's status register and RAM
    frameNo, tries, subPage,   \* the loops of a reading
    frame, auxData,            \* g_frame and the local data[48], as this try has filled them
    lapped, reading,           \* history: measurements since the status was read
    auxFresh                   \* history: g_frame's auxiliary words are of this reading

eepromVars == <<word, worst, status, addr>>
camera == <<lastPage, ready, page>>
loops == <<frameNo, tries>>
auxVars == <<auxData, auxFresh>>
thermalVars == <<pc, eepromVars, camera, loops, subPage, frame, lapped, reading, auxVars>>

\* What a measurement leaves in RAM: its stamp, whether its pixels are free
\* of the mark 0x7FFF and, as history, whether it ended during this reading.
Measurement == [stamp : 0..(Stamps - 1), good : BOOLEAN, fresh : BOOLEAN]
Unmeasured == [stamp |-> 0, good |-> FALSE, fresh |-> FALSE]
NoData == [valid |-> FALSE, fresh |-> FALSE]
NoWord == [data |-> {}, bad |-> 0, decoded |-> {}]

ThermalInit ==
    /\ pc = "dump"
    /\ word = NoWord /\ worst = 0 /\ status = 0 /\ addr = 0
    /\ lastPage = 0 /\ ready = FALSE /\ page = [p \in 0..1 |-> Unmeasured]
    /\ frameNo = 1 /\ tries = 0 /\ subPage = 0 /\ frame = <<>>
    /\ lapped = 0 /\ reading = FALSE /\ auxData = NoData /\ auxFresh = FALSE
-----------------------------------------------------------------------------
(***************************************************************************)
(* thermal_sensor_init.  A status other than 0 is a failure, that of a     *)
(* corrected word too, and ends the program.                               *)
(***************************************************************************)
InitOnly == UNCHANGED <<camera, loops, subPage, frame, lapped, reading, auxVars>>

DumpFails ==
    /\ pc = "dump" /\ addr = 0 /\ pc' = "failed"
    /\ UNCHANGED eepromVars /\ InitOnly

\* One word of the EEPROM, with up to two of its bits flipped.
Damages == {{}} \cup {{i, j} : i, j \in WordBits}

DecodeWord ==
    /\ pc = "dump" /\ addr < Words
    /\ addr' = addr + 1 /\ UNCHANGED pc
    /\ \E data \in WordData, flips \in Damages :
        LET stored == Flip(Encoded(data), flips) IN
        /\ word' = [data |-> data, bad |-> Cardinality(flips), decoded |-> Decoded(stored)]
        /\ worst' = IF Cardinality(flips) > worst THEN Cardinality(flips) ELSE worst
        /\ status' = StatusAfter(status, stored)
    /\ InitOnly

DumpEnds ==
    /\ pc = "dump" /\ addr = Words
    /\ pc' = IF status = 0 THEN "extract" ELSE "failed"
    /\ word' = NoWord /\ UNCHANGED <<worst, status, addr>> /\ InitOnly

\* MLX90641_ExtractParameters, then MLX90641_SetRefreshRate.
Configure ==
    /\ \/ pc = "extract" /\ pc' \in {"rate", "failed"}
       \/ pc = "rate" /\ pc' \in {"loop", "failed"}
    /\ UNCHANGED eepromVars /\ InitOnly

InitCamera == DumpFails \/ DecodeWord \/ DumpEnds \/ Configure
-----------------------------------------------------------------------------
\* The camera ends a measurement, of the other subpage than the last.  Those
\* that end while nobody reads it are as ones that end at the loop test.
Elsewhere == pc \in {"dump", "extract", "rate", "failed", "range"}

Measure ==
    /\ ~Elsewhere
    /\ lastPage' = 1 - lastPage /\ ready' = TRUE
    /\ \E good \in BOOLEAN :
        page' = [page EXCEPT ![lastPage'] =
            [stamp |-> (page[lastPage].stamp + 1) % Stamps, good |-> good, fresh |-> reading]]
    /\ lapped' = IF pc \in {"clear", "blocks"} /\ lapped < 2 THEN lapped + 1 ELSE lapped
    /\ UNCHANGED <<pc, eepromVars, loops, subPage, frame, reading, auxVars>>
-----------------------------------------------------------------------------
(***************************************************************************)
(* thermal_sensor_read: two frames, each with its own number of tries.     *)
(***************************************************************************)
ReadBegins ==
    /\ pc = "read" /\ pc' = "poll"
    /\ frameNo' = 1 /\ tries' = 0 /\ reading' = TRUE
    /\ page' = [p \in 0..1 |-> [page[p] EXCEPT !.fresh = FALSE]]
    /\ UNCHANGED <<eepromVars, lastPage, ready, subPage, frame, lapped, auxVars>>

ReadEnds(next) ==
    pc' = next /\ reading' = FALSE /\ frameNo' = 1 /\ tries' = 0

\* A try that gives no frame, whatever the reason: the status was not 0.
TryFailedForEver ==
    pc' = "poll" /\ UNCHANGED <<frameNo, tries, reading>> /\ frame' = <<>> /\ auxData' = NoData
TryFailed ==
    /\ IF tries + 1 < MaxTries
       THEN pc' = "poll" /\ tries' = tries + 1 /\ UNCHANGED <<frameNo, reading>>
       ELSE ReadEnds("range")
    /\ frame' = <<>> /\ auxData' = NoData

\* The auxiliary words outlast a failed try, and matter no more when the
\* reading has ended without a frame.
AuxBecomes(fresh) == auxFresh' = (fresh /\ pc' # "range")

TransferFails ==
    /\ pc \in {"poll", "clear", "blocks", "aux", "control"}
    /\ TryFailed /\ lapped' = 0 /\ AuxBecomes(auxFresh)
    /\ UNCHANGED <<eepromVars, camera, subPage>>

\* The status register is polled without a limit.
Poll ==
    /\ pc = "poll"
    /\ IF ready THEN pc' = "clear" /\ subPage' = lastPage ELSE UNCHANGED <<pc, subPage>>
    /\ lapped' = 0
    /\ UNCHANGED <<eepromVars, camera, loops, frame, reading, auxVars>>

\* The read that verifies the write may fail after the write took effect.
ClearReady ==
    /\ pc = "clear" /\ ready' = FALSE
    /\ \/ pc' = "blocks" /\ UNCHANGED <<loops, frame, reading, auxVars>>
       \/ TryFailed /\ AuxBecomes(auxFresh)
    /\ UNCHANGED <<eepromVars, lastPage, page, subPage, lapped>>

PageOfSlipped(b) == IF b = Blocks THEN 1 ELSE subPage
PageOf(b) == subPage

ReadBlock ==
    /\ pc = "blocks"
    /\ frame' = Append(frame, page[PageOf(Len(frame) + 1)])
    /\ pc' = IF Len(frame') = Blocks THEN "aux" ELSE "blocks"
    /\ UNCHANGED <<eepromVars, camera, loops, subPage, lapped, reading, auxVars>>

\* The auxiliary words (gain, supply voltage, temperature of the chip) are
\* those of the camera's last measurement.  ValidateAuxData refuses them when
\* one holds the mark.
AuxRead == [valid : BOOLEAN, fresh : {page[lastPage].fresh}]

ReadAux ==
    /\ pc = "aux" /\ pc' = "control"
    /\ auxData' \in AuxRead
    /\ UNCHANGED <<eepromVars, camera, loops, subPage, frame, lapped, reading, auxFresh>>

FrameValid == \A b \in DOMAIN frame : frame[b].good

\* GetFrameData returns the subpage: thermal_sensor_read takes 1 for an error.
Accepted == FrameValid /\ subPage = 0

NextFrameHasty == ReadEnds("publish") /\ UNCHANGED <<frame, auxData>>
NextFrame ==
    IF frameNo < Frames
    THEN pc' = "poll" /\ frameNo' = frameNo + 1 /\ tries' = 0 /\ frame' = <<>>
         /\ auxData' = NoData /\ UNCHANGED reading
    ELSE ReadEnds("publish") /\ UNCHANGED <<frame, auxData>>

\* Data that are not valid are left out without a word, and the frame keeps
\* the auxiliary words it has; valid ones are taken over even when the pixels
\* are then refused.
ReadControl ==
    /\ pc = "control"
    /\ IF Accepted THEN NextFrame ELSE TryFailed
    /\ AuxBecomes(IF auxData.valid THEN auxData.fresh ELSE auxFresh)
    /\ UNCHANGED <<eepromVars, camera, subPage, lapped>>

ReadThermal ==
    ReadBegins \/ Poll \/ ClearReady \/ ReadBlock \/ ReadAux \/ ReadControl
-----------------------------------------------------------------------------
ThermalTypeOK ==
    /\ status \in {0, Corrected, Uncorrectable} /\ addr \in 0..Words
    /\ worst \in 0..2 /\ word.decoded \subseteq DataBits
    /\ lastPage \in 0..1 /\ subPage \in 0..1
    /\ ready \in BOOLEAN /\ reading \in BOOLEAN /\ lapped \in 0..2
    /\ page \in [0..1 -> Measurement]
    /\ frameNo \in 1..Frames /\ tries \in 0..(MaxTries - 1)
    /\ \A b \in DOMAIN frame : frame[b] \in Measurement
    /\ Len(frame) <= Blocks
    /\ auxData \in [valid : BOOLEAN, fresh : BOOLEAN] /\ auxFresh \in BOOLEAN

\* HammingDecode restores the data of every word with one damaged bit, and
\* tells undamaged, corrected and lost words apart even when they come mixed.
EepromSound ==
    /\ word.bad <= 1 => word.decoded = word.data
    /\ status = CASE worst = 0 -> 0 [] worst = 1 -> Corrected [] OTHER -> Uncorrectable

\* The pixels thermal_sensor_read makes its temperatures of were measured
\* after it was called (the first of the two frames may have lain in the
\* camera since long before), and so were the gain and the supply voltage it
\* corrects them with, unless the camera marked those of the last frame as
\* not valid: then they may be of any earlier frame, or of none.
PublishedFresh ==
    pc = "publish" =>
        /\ \A b \in DOMAIN frame : frame[b].fresh
        /\ auxFresh \/ ~auxData.valid

\* The blocks of an accepted frame are of one measurement, unless the camera
\* has ended two more while they were being read.
FrameWhole ==
    (pc = "publish" /\ lapped < 2) =>
        \A a, b \in DOMAIN frame : frame[a].stamp = frame[b].stamp
=============================================================================
