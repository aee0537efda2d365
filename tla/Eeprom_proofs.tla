---------------------------- MODULE Eeprom_proofs ----------------------------
(***************************************************************************)
(* Proofs about what eeprom.c keeps in flash.                              *)
(*                                                                         *)
(* The settings: for every number of tasks, changes and losses of power.   *)
(*                                                                         *)
(* The stations: for any number of tasks, of sectors and of stations in a  *)
(* sector, and any saves, what is not in a sector where two saves met or   *)
(* one was cut is what was last saved there.                               *)
(***************************************************************************)
EXTENDS DeviceSettings, Stations, TLAPS

-----------------------------------------------------------------------------
(* The settings.                                                           *)
(* What StationsSurvive excepts has not happened.                          *)
Quiet == past \cap {"erase", "beside"} = {}
NoErase == "erase" \notin past

Complete(part) == Valid(part) /\ part.palette = MARK

Saving  == {"save_erase", "save_write", "save_give"}
Erasing == {"erase", "erase1", "erase2"}
Booting == {"power_on", "restore", "restore_write", "restored", "defaults", "palette"}

MutexInv == \A t \in Processes : pc[t] \in Saving => muxDevice = t

CellInv ==
  \A t \in Processes :
    pc[t] \notin {"save_write", "copy_write", "restore_write"} => cell[t] = 1

(* The tasks run when app_main is done; only app_main starts and restores. *)
BootInv ==
  /\ pc[MAIN] \notin {"off", "volume"}
  /\ pc[MAIN] \notin {"save"} \cup Saving => ret[MAIN] = "idle"
  /\ \A t \in Tasks :
       /\ pc[t] \notin Booting
       /\ ret[t] # "palette"
       /\ pc[MAIN] # "idle" => pc[t] = "off"
       /\ pc[t] = "off" => \A u \in Tasks : pc[u] = "off"
       /\ NoErase => pc[t] \notin Erasing

(* How far a save has come, and what the settings in RAM are good for.     *)
ProgramInv ==
  NoErase =>
  /\ \A t \in Processes : pc[t] = "save_write" =>
       /\ DEVICE.cleared = IF cell[t] = 1 THEN ERASED ELSE g_device.cleared
       /\ cell[t] <= 2 => DEVICE.conf = ERASED
       /\ DEVICE.palette = ERASED
  /\ pc[MAIN] = "restore_write" =>
       DEVICE.cleared = IF cell[MAIN] = 1 THEN ERASED ELSE buf[MAIN].cleared
  /\ pc[MAIN] \in {"idle", "copy"} \cup Copying => Complete(g_device)
  /\ pc[MAIN] \in {"save"} \cup Saving =>
       /\ Valid(g_device)
       /\ ret[MAIN] # "palette" => Complete(g_device)
  /\ pc[MAIN] = "save_write" /\ cell[MAIN] = 3 => DEVICE.conf = g_device.conf
  /\ pc[MAIN] \in {"save_give", "palette"} =>
       /\ Valid(DEVICE) /\ Valid(g_device)
       /\ DEVICE.conf = g_device.conf /\ DEVICE.palette = g_device.palette

(* DEVICE is complete whenever nobody saves, and while a task copies it.   *)
CopyInv ==
  Quiet =>
  /\ \A t \in Processes : pc[t] \in Copying =>
       /\ Complete(DEVICE) /\ Valid(buf[t])
       /\ \A u \in Processes \ {t} : pc[u] \notin Copying \cup {"save_write"}
  /\ \A t \in Processes : pc[t] = "copy_write" =>
       DEVICE1.cleared = IF cell[t] = 1 THEN ERASED ELSE MARK
  /\ /\ pc[MAIN] \in {"idle", "copy"}
     /\ \A t \in Processes : pc[t] # "save_write"
     => Complete(DEVICE)

(* One of the partitions is valid, and DEVICE complete if DEVICE1 is not.  *)
KeptInv ==
  Quiet /\ stations = "saved" =>
  /\ pc[MAIN] \notin {"defaults"} \cup Erasing
  /\ pc[MAIN] \in {"save"} \cup Saving => ret[MAIN] # "palette"
  /\ Valid(DEVICE1) \/ Complete(DEVICE)
  /\ /\ pc[MAIN] \notin {"power_on", "palette", "copy"}
     /\ \A t \in Processes : pc[t] \notin Copying
     => Valid(DEVICE1)
  /\ pc[MAIN] = "restore_write" => Valid(buf[MAIN])
  /\ pc[MAIN] = "restored" => Valid(DEVICE)

(* A valid partition has a version, and so has the RAM.                    *)
ConfInv ==
  Quiet =>
  /\ Valid(DEVICE) => DEVICE.conf # ZERO
  /\ Valid(DEVICE1) => DEVICE1.conf # ZERO
  /\ \A t \in Processes :
       /\ pc[t] \in Copying \cup {"restore_write"} /\ Valid(buf[t])
            => buf[t].conf # ZERO
       /\ pc[t] = "copy_write" /\ cell[t] <= 2 => DEVICE1.conf = ERASED
       /\ pc[t] = "restore_write" /\ cell[t] <= 2 => DEVICE.conf = ERASED
  /\ pc[MAIN] \notin Booting \cup Erasing => g_device.conf # ZERO

(* A change is in the flash, or a task is on its way to put it there.      *)
SavedInv ==
  /\ past \cap {"erase", "dropped"} = {}
  /\ pc[MAIN] \notin Booting \cup Erasing
  => \/ DEVICE.conf = g_device.conf
     \/ \E t \in Processes : \/ pc[t] \in {"save", "save_erase", "volume"}
                             \/ pc[t] = "save_write" /\ cell[t] <= 2

IInv == /\ TypeOK /\ MutexInv /\ CellInv /\ BootInv
        /\ ProgramInv /\ CopyInv /\ KeptInv /\ ConfInv /\ SavedInv
-----------------------------------------------------------------------------
(* The erased, the zeroed and the marked cell differ; programming an erased*)
(* cell stores what is programmed.                                         *)
LEMMA Bits ==
  /\ MARK # ERASED /\ MARK # ZERO /\ ERASED # ZERO
  /\ {MARK, ERASED, ZERO} \subseteq SUBSET Version
  /\ \A bits \in SUBSET Version : ERASED \cap bits = bits
  /\ \A n \in Version : {n} \in SUBSET Version /\ {n} # ZERO
  /\ {0, 1} \subseteq Version
<1>1. 0 \in Version /\ 1 \in Version
  BY SettingsAssumption DEF Version
<1> QED BY <1>1 DEF MARK, ERASED, ZERO

LEMMA Partitions ==
  /\ All(ERASED) \in PartitionType /\ All(ZERO) \in PartitionType
  /\ \A n \in Version : Content(n) \in PartitionType
  BY Bits DEF PartitionType, All, Content

LEMMA Three == DOMAIN Cell = 1..3 /\ Len(Cell) = 3
  BY DEF Cell

(* Programming a cell changes that cell and no other.                      *)
LEMMA ProgrammedCell ==
  ASSUME NEW part \in PartitionType, NEW from \in PartitionType, NEW i \in 1..3
  PROVE  /\ Programmed(part, Cell[i], from) \in PartitionType
         /\ Programmed(part, Cell[i], from) =
              [cleared |-> IF i = 1 THEN part.cleared \cap from.cleared ELSE part.cleared,
               conf |-> IF i = 2 THEN part.conf \cap from.conf ELSE part.conf,
               palette |-> IF i = 3 THEN part.palette \cap from.palette ELSE part.palette]
<1>1. CASE i = 1
  <2>1. Cell[i] = "cleared"
    BY <1>1 DEF Cell
  <2>2. Programmed(part, Cell[i], from)
         = [part EXCEPT !.cleared = part.cleared \cap from.cleared]
    BY <2>1 DEF PartitionType, Programmed
  <2> QED BY <1>1, <2>2 DEF PartitionType
<1>2. CASE i = 2
  <2>1. Cell[i] = "conf"
    BY <1>2 DEF Cell
  <2>2. Programmed(part, Cell[i], from)
         = [part EXCEPT !.conf = part.conf \cap from.conf]
    BY <2>1 DEF PartitionType, Programmed
  <2> QED BY <1>2, <2>2 DEF PartitionType
<1>3. CASE i = 3
  <2>1. Cell[i] = "palette"
    BY <1>3 DEF Cell
  <2>2. Programmed(part, Cell[i], from)
         = [part EXCEPT !.palette = part.palette \cap from.palette]
    BY <2>1 DEF PartitionType, Programmed
  <2> QED BY <1>3, <2>2 DEF PartitionType
<1> QED BY <1>1, <1>2, <1>3

(* The names of sets and of tests are expanded in all that follows.        *)
USE DEF Processes, Goto, Saving, Copying, Erasing, Booting, Quiet, NoErase, Valid,
        Complete

LEMMA InitInv == Init => IInv
<1> SUFFICES ASSUME Init PROVE IInv
  OBVIOUS
<1>1. TypeOK
  <2>1. 1 \in Version /\ 1 \in DOMAIN Cell /\ 0 \in 0..MaxLosses
    BY SettingsAssumption, Three DEF Version
  <2>2. {DEVICE, DEVICE1, g_device} \subseteq PartitionType
    BY <2>1, Partitions DEF Init
  <2> QED BY <2>1, <2>2, Partitions DEF Init, TypeOK
<1>2. MutexInv /\ CellInv /\ BootInv
  BY SettingsAssumption DEF Init, MutexInv, CellInv, BootInv
<1>3. ProgramInv /\ CopyInv /\ KeptInv /\ SavedInv
  BY DEF Init, ProgramInv, CopyInv, KeptInv, SavedInv
<1>4. ConfInv
  <2>1. DEVICE.conf # ZERO /\ DEVICE1.conf # ZERO
    BY Bits DEF Init, All, Content
  <2>2. pc[MAIN] = "power_on" /\ \A t \in Processes : pc[t] \in {"power_on", "off"}
    BY DEF Init
  <2> QED BY <2>1, <2>2 DEF ConfInv
<1> QED BY <1>1, <1>2, <1>3, <1>4 DEF IInv

(* Each action keeps the invariant: the loss of power,                     *)
LEMMA PowerLossInv ==
  ASSUME IInv, PowerLoss
  PROVE  IInv'
<1> USE SettingsAssumption DEF PowerLoss, IInv, TypeOK, flash
<1>1. TypeOK'
  BY Partitions, Three
<1>2. MutexInv' /\ CellInv' /\ BootInv'
  BY DEF MutexInv, CellInv, BootInv
<1>3. ProgramInv' /\ CopyInv' /\ KeptInv' /\ ConfInv' /\ SavedInv'
  BY DEF ProgramInv, CopyInv, KeptInv, ConfInv, SavedInv
<1> QED BY <1>1, <1>2, <1>3

(* a save,                                                                 *)
LEMMA SaveTakeInv ==
  ASSUME IInv, NEW t \in Processes, SaveTake(t)
  PROVE  IInv'
<1> USE SettingsAssumption DEF SaveTake, IInv, TypeOK, flash
<1>1. TypeOK'
  OBVIOUS
<1>2. MutexInv' /\ CellInv' /\ BootInv'
  BY DEF MutexInv, CellInv, BootInv
<1>3. ProgramInv' /\ CopyInv' /\ KeptInv' /\ ConfInv' /\ SavedInv'
  BY DEF ProgramInv, CopyInv, KeptInv, ConfInv, SavedInv
<1> QED BY <1>1, <1>2, <1>3

LEMMA VolumeTakeInv ==
  ASSUME IInv, NEW t \in Processes, VolumeTake(t)
  PROVE  IInv'
<1> USE SettingsAssumption DEF VolumeTake, IInv, TypeOK, flash
<1>1. TypeOK'
  OBVIOUS
<1>2. MutexInv' /\ CellInv' /\ BootInv'
  BY DEF MutexInv, CellInv, BootInv
<1>3. ProgramInv' /\ CopyInv' /\ KeptInv' /\ ConfInv' /\ SavedInv'
  BY DEF BootInv, ProgramInv, CopyInv, KeptInv, ConfInv, SavedInv
<1> QED BY <1>1, <1>2, <1>3

LEMMA SaveEraseInv ==
  ASSUME IInv, NEW t \in Processes, SaveErase(t)
  PROVE  IInv'
<1> USE SettingsAssumption DEF SaveErase, IInv, TypeOK, flash, Beside, All
<1>1. TypeOK'
  BY Partitions
<1>2. MutexInv' /\ CellInv' /\ BootInv'
  BY DEF MutexInv, CellInv, BootInv
<1>3. ProgramInv' /\ CopyInv' /\ KeptInv' /\ ConfInv' /\ SavedInv'
  BY Bits
     DEF MutexInv, CellInv, BootInv, ProgramInv, CopyInv, KeptInv, ConfInv, SavedInv
<1> QED BY <1>1, <1>2, <1>3

LEMMA SaveWriteInv ==
  ASSUME IInv, NEW t \in Processes, SaveWrite(t)
  PROVE  IInv'
<1>a. /\ pc[t] = "save_write"
      /\ DEVICE' \in PartitionType
      /\ cell[t] \in 1..3
      /\ DEVICE'.cleared =
            IF cell[t] = 1 THEN DEVICE.cleared \cap g_device.cleared ELSE DEVICE.cleared
      /\ DEVICE'.conf =
            IF cell[t] = 2 THEN DEVICE.conf \cap g_device.conf ELSE DEVICE.conf
      /\ DEVICE'.palette =
            IF cell[t] = 3 THEN DEVICE.palette \cap g_device.palette ELSE DEVICE.palette
      /\ pc' = IF cell[t] = 3 THEN [pc EXCEPT ![t] = "save_give"] ELSE pc
      /\ cell' = [cell EXCEPT ![t] = IF cell[t] = 3 THEN 1 ELSE cell[t] + 1]
  <2>1. /\ TypeOK /\ t \in Processes /\ DEVICE \in PartitionType /\ g_device \in PartitionType
        /\ cell \in [Processes -> 1..3] /\ cell[t] \in 1..3
        /\ DEVICE' = Programmed(DEVICE, Cell[cell[t]], g_device)
    BY Three DEF SaveWrite, IInv, TypeOK
  <2>2. NextCell(t, "save_write", "save_give")
    BY DEF SaveWrite
  <2>3. /\ pc[t] = "save_write"
        /\ pc' = IF cell[t] = 3 THEN [pc EXCEPT ![t] = "save_give"] ELSE pc
        /\ cell' = [cell EXCEPT ![t] = IF cell[t] = 3 THEN 1 ELSE cell[t] + 1]
    BY <2>1, <2>2, Three DEF NextCell
  <2>4. /\ DEVICE' \in PartitionType
        /\ DEVICE' =
             [cleared |-> IF cell[t] = 1 THEN DEVICE.cleared \cap g_device.cleared
                                           ELSE DEVICE.cleared,
              conf |-> IF cell[t] = 2 THEN DEVICE.conf \cap g_device.conf ELSE DEVICE.conf,
              palette |-> IF cell[t] = 3 THEN DEVICE.palette \cap g_device.palette
                                           ELSE DEVICE.palette]
    BY <2>1, ProgrammedCell
  <2>5. DEVICE'.cleared =
          IF cell[t] = 1 THEN DEVICE.cleared \cap g_device.cleared ELSE DEVICE.cleared
    BY <2>4
  <2>6. DEVICE'.conf =
          IF cell[t] = 2 THEN DEVICE.conf \cap g_device.conf ELSE DEVICE.conf
    BY <2>4
  <2>7. DEVICE'.palette =
          IF cell[t] = 3 THEN DEVICE.palette \cap g_device.palette ELSE DEVICE.palette
    BY <2>4
  <2> QED BY <2>1, <2>3, <2>4, <2>5, <2>6, <2>7
<1>b. UNCHANGED <<DEVICE1, stations, g_device, muxDevice, buf, ret, changes, losses, past>>
  BY DEF SaveWrite
<1>c. /\ ERASED \cap g_device.cleared = g_device.cleared
      /\ ERASED \cap g_device.conf = g_device.conf
      /\ ERASED \cap g_device.palette = g_device.palette
  BY Bits DEF IInv, TypeOK, PartitionType
<1> USE SettingsAssumption DEF IInv, TypeOK, flash
<1>1. TypeOK'
  BY <1>a, <1>b, Three
<1>2. MutexInv' /\ CellInv' /\ BootInv'
  BY <1>a, <1>b DEF MutexInv, CellInv, BootInv
<1>3. ProgramInv'
  <2>1. CASE cell[t] = 1
    BY <1>a, <1>b, <2>1, Bits DEF MutexInv, BootInv, ProgramInv
  <2>2. CASE cell[t] = 2
    BY <1>a, <1>b, <1>c, <2>2 DEF MutexInv, ProgramInv
  <2>3. CASE cell[t] = 3
    BY <1>a, <1>b, <1>c, <2>3 DEF MutexInv, ProgramInv
  <2> QED BY <1>a, <2>1, <2>2, <2>3
<1>4. CopyInv'
  BY <1>a, <1>b, Bits DEF ProgramInv, CopyInv
<1>5. KeptInv'
  BY <1>a, <1>b, Bits DEF ProgramInv, KeptInv
<1>6. ConfInv'
  <2>c. cell[t] = 2 /\ Quiet => DEVICE'.conf # ZERO
    <3>1. pc[MAIN] \notin Booting \cup Erasing
      BY <1>a DEF BootInv
    <3>2. Quiet => NoErase
      OBVIOUS
    <3>3. cell[t] = 2 /\ Quiet => DEVICE.conf = ERASED
      BY <1>a DEF ProgramInv
    <3>4. Quiet => g_device.conf # ZERO
      BY <3>1 DEF ConfInv
    <3> QED BY <1>a, <1>c, <3>3, <3>4
  <2>1. CASE cell[t] = 1
    BY <1>a, <1>b, <2>1, Bits DEF ProgramInv, ConfInv
  <2>2. CASE cell[t] = 2
    BY <1>a, <1>b, <2>2, <2>c DEF BootInv, ConfInv
  <2>3. CASE cell[t] = 3
    BY <1>a, <1>b, <2>3 DEF ConfInv
  <2> QED BY <1>a, <2>1, <2>2, <2>3
<1>7. SavedInv'
  <2>1. CASE cell[t] = 1
    BY <1>a, <2>1 DEF SavedInv
  <2>2. CASE cell[t] = 2
    BY <1>a, <1>b, <1>c, <2>2 DEF ProgramInv, SavedInv
  <2>3. CASE cell[t] = 3
    BY <1>a, <1>b, <2>3 DEF SavedInv
  <2> QED BY <1>a, <2>1, <2>2, <2>3
<1> QED BY <1>1, <1>2, <1>3, <1>4, <1>5, <1>6, <1>7

LEMMA SaveGiveInv ==
  ASSUME IInv, NEW t \in Processes, SaveGive(t)
  PROVE  IInv'
<1> USE SettingsAssumption DEF SaveGive, IInv, TypeOK, flash
<1>1. TypeOK'
  OBVIOUS
<1>2. MutexInv' /\ CellInv' /\ BootInv'
  BY DEF MutexInv, CellInv, BootInv
<1>3. ProgramInv' /\ CopyInv'
  BY DEF BootInv, ProgramInv, CopyInv
<1>4. KeptInv' /\ ConfInv' /\ SavedInv'
  BY DEF KeptInv, ConfInv, SavedInv
<1> QED BY <1>1, <1>2, <1>3, <1>4

(* a copy,                                                                 *)
LEMMA CopyReadInv ==
  ASSUME IInv, NEW t \in Processes, CopyRead(t)
  PROVE  IInv'
<1> USE SettingsAssumption DEF CopyRead, IInv, TypeOK, flash, Beside
<1>1. TypeOK'
  OBVIOUS
<1>2. MutexInv' /\ CellInv' /\ BootInv'
  BY DEF MutexInv, CellInv, BootInv
<1>3. ProgramInv' /\ CopyInv' /\ KeptInv' /\ ConfInv' /\ SavedInv'
  BY DEF BootInv, ProgramInv, CopyInv, KeptInv, ConfInv, SavedInv
<1> QED BY <1>1, <1>2, <1>3

LEMMA CopyEraseInv ==
  ASSUME IInv, NEW t \in Processes, CopyErase(t)
  PROVE  IInv'
<1> USE SettingsAssumption DEF CopyErase, IInv, TypeOK, flash, All
<1>1. TypeOK'
  BY Partitions
<1>2. MutexInv' /\ CellInv' /\ BootInv'
  BY DEF MutexInv, CellInv, BootInv
<1>3. ProgramInv' /\ CopyInv' /\ KeptInv' /\ ConfInv' /\ SavedInv'
  BY Bits DEF CellInv, ProgramInv, CopyInv, KeptInv, ConfInv, SavedInv
<1> QED BY <1>1, <1>2, <1>3

LEMMA CopyWriteInv ==
  ASSUME IInv, NEW t \in Processes, CopyWrite(t)
  PROVE  IInv'
<1>a. /\ pc[t] = "copy_write"
      /\ DEVICE1' \in PartitionType
      /\ cell[t] \in 1..3
      /\ DEVICE1'.cleared =
            IF cell[t] = 1 THEN DEVICE1.cleared \cap buf[t].cleared ELSE DEVICE1.cleared
      /\ DEVICE1'.conf =
            IF cell[t] = 2 THEN DEVICE1.conf \cap buf[t].conf ELSE DEVICE1.conf
      /\ DEVICE1'.palette =
            IF cell[t] = 3 THEN DEVICE1.palette \cap buf[t].palette ELSE DEVICE1.palette
      /\ pc' = IF cell[t] = 3 THEN [pc EXCEPT ![t] = "idle"] ELSE pc
      /\ cell' = [cell EXCEPT ![t] = IF cell[t] = 3 THEN 1 ELSE cell[t] + 1]
  <2>1. /\ TypeOK /\ t \in Processes /\ DEVICE1 \in PartitionType /\ buf[t] \in PartitionType
        /\ cell \in [Processes -> 1..3] /\ cell[t] \in 1..3
        /\ DEVICE1' = Programmed(DEVICE1, Cell[cell[t]], buf[t])
    BY Three DEF CopyWrite, IInv, TypeOK
  <2>2. NextCell(t, "copy_write", "idle")
    BY DEF CopyWrite
  <2>3. /\ pc[t] = "copy_write"
        /\ pc' = IF cell[t] = 3 THEN [pc EXCEPT ![t] = "idle"] ELSE pc
        /\ cell' = [cell EXCEPT ![t] = IF cell[t] = 3 THEN 1 ELSE cell[t] + 1]
    BY <2>1, <2>2, Three DEF NextCell
  <2>4. /\ DEVICE1' \in PartitionType
        /\ DEVICE1' =
             [cleared |-> IF cell[t] = 1 THEN DEVICE1.cleared \cap buf[t].cleared
                                           ELSE DEVICE1.cleared,
              conf |-> IF cell[t] = 2 THEN DEVICE1.conf \cap buf[t].conf ELSE DEVICE1.conf,
              palette |-> IF cell[t] = 3 THEN DEVICE1.palette \cap buf[t].palette
                                           ELSE DEVICE1.palette]
    BY <2>1, ProgrammedCell
  <2>5. DEVICE1'.cleared =
          IF cell[t] = 1 THEN DEVICE1.cleared \cap buf[t].cleared ELSE DEVICE1.cleared
    BY <2>4
  <2>6. DEVICE1'.conf =
          IF cell[t] = 2 THEN DEVICE1.conf \cap buf[t].conf ELSE DEVICE1.conf
    BY <2>4
  <2>7. DEVICE1'.palette =
          IF cell[t] = 3 THEN DEVICE1.palette \cap buf[t].palette ELSE DEVICE1.palette
    BY <2>4
  <2> QED BY <2>1, <2>3, <2>4, <2>5, <2>6, <2>7
<1>b. /\ buf' = IF cell[t] = 3 THEN [buf EXCEPT ![t] = All(ERASED)] ELSE buf
      /\ UNCHANGED <<DEVICE, stations, g_device, muxDevice, ret, changes, losses, past>>
  BY Three DEF CopyWrite
<1>c. /\ ERASED \cap buf[t].cleared = buf[t].cleared
      /\ ERASED \cap buf[t].conf = buf[t].conf
      /\ ERASED \cap buf[t].palette = buf[t].palette
  BY Bits DEF IInv, TypeOK, PartitionType
<1> USE SettingsAssumption DEF IInv, TypeOK, flash
<1>1. TypeOK'
  BY <1>a, <1>b, Partitions, Three
<1>2. MutexInv' /\ CellInv' /\ BootInv'
  BY <1>a, <1>b DEF MutexInv, CellInv, BootInv
<1>3. ProgramInv'
  BY <1>a, <1>b DEF ProgramInv
<1>4. CopyInv'
  <2>1. CASE cell[t] = 1
    BY <1>a, <1>b, <2>1, Bits DEF CopyInv
  <2>2. CASE cell[t] = 2
    BY <1>a, <1>b, <2>2 DEF CopyInv
  <2>3. CASE cell[t] = 3
    BY <1>a, <1>b, <2>3 DEF CopyInv
  <2> QED BY <1>a, <2>1, <2>2, <2>3
<1>5. KeptInv'
  BY <1>a, <1>b DEF CopyInv, KeptInv
<1>6. ConfInv'
  <2>c. cell[t] = 2 /\ Quiet => DEVICE1'.conf # ZERO
    <3>1. cell[t] = 2 /\ Quiet => DEVICE1.conf = ERASED
      BY <1>a DEF ConfInv
    <3>2. Quiet => buf[t].cleared = MARK
      BY <1>a DEF CopyInv
    <3>3. Quiet => buf[t].conf # ZERO
      BY <1>a, <3>2 DEF ConfInv
    <3> QED BY <1>a, <1>c, <3>1, <3>3
  <2>1. CASE cell[t] = 1
    BY <1>a, <1>b, <2>1, Bits DEF ConfInv
  <2>2. CASE cell[t] = 2
    BY <1>a, <1>b, <2>c, Bits DEF CopyInv, ConfInv
  <2>3. CASE cell[t] = 3
    BY <1>a, <1>b, <2>3 DEF ConfInv
  <2> QED BY <1>a, <2>1, <2>2, <2>3
<1>7. SavedInv'
  BY <1>a, <1>b DEF SavedInv
<1> QED BY <1>1, <1>2, <1>3, <1>4, <1>5, <1>6, <1>7

(* the erasure of everything,                                              *)
LEMMA EraseAllDEVICEInv ==
  ASSUME IInv, NEW t \in Processes, EraseAllDEVICE(t)
  PROVE  IInv'
<1> USE SettingsAssumption DEF EraseAllDEVICE, IInv, TypeOK, flash, All
<1>1. TypeOK'
  BY Partitions
<1>2. MutexInv' /\ CellInv' /\ BootInv'
  BY DEF MutexInv, CellInv, BootInv
<1>3. ProgramInv' /\ CopyInv' /\ KeptInv' /\ ConfInv' /\ SavedInv'
  BY Bits DEF BootInv, ProgramInv, CopyInv, KeptInv, ConfInv, SavedInv
<1> QED BY <1>1, <1>2, <1>3

LEMMA EraseAllDEVICE1Inv ==
  ASSUME IInv, NEW t \in Processes, EraseAllDEVICE1(t)
  PROVE  IInv'
<1> USE SettingsAssumption DEF EraseAllDEVICE1, IInv, TypeOK, flash, All
<1>1. TypeOK'
  BY Partitions
<1>2. MutexInv' /\ CellInv' /\ BootInv'
  BY DEF MutexInv, CellInv, BootInv
<1>3. ProgramInv' /\ CopyInv' /\ KeptInv' /\ ConfInv' /\ SavedInv'
  BY Bits DEF BootInv, ProgramInv, CopyInv, KeptInv, ConfInv, SavedInv
<1> QED BY <1>1, <1>2, <1>3

LEMMA EraseAllStationsInv ==
  ASSUME IInv, NEW t \in Processes, EraseAllStations(t)
  PROVE  IInv'
<1> USE SettingsAssumption DEF EraseAllStations, IInv, TypeOK, flash
<1>1. TypeOK'
  OBVIOUS
<1>2. MutexInv' /\ CellInv' /\ BootInv'
  BY DEF MutexInv, CellInv, BootInv
<1>3. ProgramInv' /\ CopyInv' /\ KeptInv' /\ ConfInv' /\ SavedInv'
  BY DEF ProgramInv, CopyInv, KeptInv, ConfInv, SavedInv
<1> QED BY <1>1, <1>2, <1>3

(* the start of the radio,                                                 *)
LEMMA PartitionsInitInv ==
  ASSUME IInv, PartitionsInit
  PROVE  IInv'
<1> USE SettingsAssumption DEF PartitionsInit, IInv, TypeOK, flash
<1>1. TypeOK'
  OBVIOUS
<1>2. MutexInv' /\ CellInv' /\ BootInv'
  BY DEF MutexInv, CellInv, BootInv
<1>3. ProgramInv' /\ CopyInv' /\ KeptInv' /\ ConfInv' /\ SavedInv'
  BY DEF ProgramInv, CopyInv, KeptInv, ConfInv, SavedInv
<1> QED BY <1>1, <1>2, <1>3

LEMMA RestoreEraseInv ==
  ASSUME IInv, RestoreErase
  PROVE  IInv'
<1> USE SettingsAssumption DEF RestoreErase, IInv, TypeOK, flash, All
<1>1. TypeOK'
  BY Partitions
<1>2. MutexInv' /\ CellInv' /\ BootInv'
  BY DEF MutexInv, CellInv, BootInv
<1>3. ProgramInv' /\ CopyInv' /\ KeptInv' /\ ConfInv' /\ SavedInv'
  BY Bits DEF CellInv, BootInv, ProgramInv, CopyInv, KeptInv, ConfInv, SavedInv
<1> QED BY <1>1, <1>2, <1>3

LEMMA RestoreWriteInv ==
  ASSUME IInv, RestoreWrite
  PROVE  IInv'
<1>a. /\ pc[MAIN] = "restore_write"
      /\ DEVICE' \in PartitionType
      /\ cell[MAIN] \in 1..3
      /\ DEVICE'.cleared =
            IF cell[MAIN] = 1 THEN DEVICE.cleared \cap buf[MAIN].cleared ELSE DEVICE.cleared
      /\ DEVICE'.conf =
            IF cell[MAIN] = 2 THEN DEVICE.conf \cap buf[MAIN].conf ELSE DEVICE.conf
      /\ DEVICE'.palette =
            IF cell[MAIN] = 3 THEN DEVICE.palette \cap buf[MAIN].palette ELSE DEVICE.palette
      /\ pc' = IF cell[MAIN] = 3 THEN [pc EXCEPT ![MAIN] = "restored"] ELSE pc
      /\ cell' = [cell EXCEPT ![MAIN] = IF cell[MAIN] = 3 THEN 1 ELSE cell[MAIN] + 1]
  <2>1. /\ TypeOK /\ MAIN \in Processes /\ DEVICE \in PartitionType /\ buf[MAIN] \in PartitionType
        /\ cell \in [Processes -> 1..3] /\ cell[MAIN] \in 1..3
        /\ DEVICE' = Programmed(DEVICE, Cell[cell[MAIN]], buf[MAIN])
    BY Three DEF RestoreWrite, IInv, TypeOK
  <2>2. NextCell(MAIN, "restore_write", "restored")
    BY DEF RestoreWrite
  <2>3. /\ pc[MAIN] = "restore_write"
        /\ pc' = IF cell[MAIN] = 3 THEN [pc EXCEPT ![MAIN] = "restored"] ELSE pc
        /\ cell' = [cell EXCEPT ![MAIN] = IF cell[MAIN] = 3 THEN 1 ELSE cell[MAIN] + 1]
    BY <2>1, <2>2, Three DEF NextCell
  <2>4. /\ DEVICE' \in PartitionType
        /\ DEVICE' =
             [cleared |-> IF cell[MAIN] = 1 THEN DEVICE.cleared \cap buf[MAIN].cleared
                                           ELSE DEVICE.cleared,
              conf |-> IF cell[MAIN] = 2 THEN DEVICE.conf \cap buf[MAIN].conf ELSE DEVICE.conf,
              palette |-> IF cell[MAIN] = 3 THEN DEVICE.palette \cap buf[MAIN].palette
                                           ELSE DEVICE.palette]
    BY <2>1, ProgrammedCell
  <2>5. DEVICE'.cleared =
          IF cell[MAIN] = 1 THEN DEVICE.cleared \cap buf[MAIN].cleared ELSE DEVICE.cleared
    BY <2>4
  <2>6. DEVICE'.conf =
          IF cell[MAIN] = 2 THEN DEVICE.conf \cap buf[MAIN].conf ELSE DEVICE.conf
    BY <2>4
  <2>7. DEVICE'.palette =
          IF cell[MAIN] = 3 THEN DEVICE.palette \cap buf[MAIN].palette ELSE DEVICE.palette
    BY <2>4
  <2> QED BY <2>1, <2>3, <2>4, <2>5, <2>6, <2>7
<1>b. UNCHANGED <<DEVICE1, stations, g_device, muxDevice, buf, ret, changes, losses, past>>
  BY DEF RestoreWrite
<1>c. /\ ERASED \cap buf[MAIN].cleared = buf[MAIN].cleared
      /\ ERASED \cap buf[MAIN].conf = buf[MAIN].conf
      /\ ERASED \cap buf[MAIN].palette = buf[MAIN].palette
  BY Bits DEF IInv, TypeOK, PartitionType
<1> USE SettingsAssumption DEF IInv, TypeOK, flash
<1>1. TypeOK'
  BY <1>a, <1>b, Three
<1>2. MutexInv' /\ CellInv' /\ BootInv'
  BY <1>a, <1>b DEF MutexInv, CellInv, BootInv
<1>3. ProgramInv'
  <2>1. CASE cell[MAIN] = 1
    BY <1>a, <1>b, <1>c, <2>1 DEF BootInv, ProgramInv
  <2>2. CASE cell[MAIN] = 2
    BY <1>a, <1>b, <2>2 DEF BootInv, ProgramInv
  <2>3. CASE cell[MAIN] = 3
    BY <1>a, <2>3 DEF BootInv, ProgramInv
  <2> QED BY <1>a, <2>1, <2>2, <2>3
<1>4. CopyInv'
  BY <1>a DEF BootInv, CopyInv
<1>5. KeptInv'
  <2>1. CASE cell[MAIN] = 1
    BY <1>a, <1>b, <2>1 DEF KeptInv
  <2>2. CASE cell[MAIN] = 2
    BY <1>a, <1>b, <2>2 DEF KeptInv
  <2>3. CASE cell[MAIN] = 3
    BY <1>a, <1>b DEF BootInv, ProgramInv, KeptInv
  <2> QED BY <1>a, <2>1, <2>2, <2>3
<1>6. ConfInv'
  <2>c. ASSUME cell[MAIN] = 2, Quiet, DEVICE'.cleared = MARK
        PROVE  DEVICE'.conf # ZERO
    <3>1. DEVICE.conf = ERASED
      BY <1>a, <2>c DEF ConfInv
    <3>2. DEVICE'.conf = buf[MAIN].conf
      BY <1>a, <1>c, <2>c, <3>1
    <3>3. buf[MAIN].cleared = MARK
      BY <1>a, <2>c DEF ProgramInv
    <3> QED BY <1>a, <2>c, <3>2, <3>3 DEF ConfInv
  <2>1. CASE cell[MAIN] = 1
    BY <1>a, <1>b, <2>1, Bits DEF ConfInv
  <2>2. CASE cell[MAIN] = 2
    BY <1>a, <1>b, <2>c, Bits DEF BootInv, ConfInv
  <2>3. CASE cell[MAIN] = 3
    BY <1>a, <1>b, <2>3 DEF ConfInv
  <2> QED BY <1>a, <2>1, <2>2, <2>3
<1>7. SavedInv'
  BY <1>a DEF SavedInv
<1> QED BY <1>1, <1>2, <1>3, <1>4, <1>5, <1>6, <1>7

LEMMA RestoredInv ==
  ASSUME IInv, Restored
  PROVE  IInv'
<1> USE SettingsAssumption DEF Restored, IInv, TypeOK, flash
<1>1. TypeOK'
  BY Partitions
<1>2. MutexInv' /\ CellInv' /\ BootInv'
  BY DEF MutexInv, CellInv, BootInv
<1>3. ProgramInv' /\ CopyInv' /\ KeptInv' /\ ConfInv' /\ SavedInv'
  BY DEF ProgramInv, CopyInv, KeptInv, ConfInv, SavedInv
<1> QED BY <1>1, <1>2, <1>3

LEMMA DefaultsInv ==
  ASSUME IInv, Defaults
  PROVE  IInv'
<1> USE SettingsAssumption DEF Defaults, IInv, TypeOK, flash, PartitionType
<1>1. TypeOK'
  <2>1. g_device' \in PartitionType
    BY Bits
  <2> QED BY <2>1
<1>2. MutexInv' /\ CellInv' /\ BootInv'
  BY DEF MutexInv, CellInv, BootInv
<1>3. ProgramInv' /\ CopyInv' /\ KeptInv' /\ ConfInv' /\ SavedInv'
  BY Bits DEF BootInv, ProgramInv, CopyInv, KeptInv, ConfInv, SavedInv
<1> QED BY <1>1, <1>2, <1>3

LEMMA PaletteInv ==
  ASSUME IInv, Palette
  PROVE  IInv'
<1> USE SettingsAssumption DEF Palette, IInv, TypeOK, flash, PartitionType
<1>1. TypeOK'
  BY Bits
<1>2. MutexInv' /\ CellInv' /\ BootInv'
  BY DEF MutexInv, CellInv, BootInv
<1>3. ProgramInv' /\ CopyInv' /\ KeptInv' /\ ConfInv' /\ SavedInv'
  BY DEF ProgramInv, CopyInv, KeptInv, ConfInv, SavedInv
<1> QED BY <1>1, <1>2, <1>3

LEMMA TasksStartInv ==
  ASSUME IInv, TasksStart
  PROVE  IInv'
<1> USE SettingsAssumption DEF TasksStart, IInv, TypeOK, flash
<1>1. TypeOK'
  OBVIOUS
<1>2. MutexInv' /\ CellInv' /\ BootInv'
  BY DEF MutexInv, CellInv, BootInv
<1>3. ProgramInv' /\ CopyInv' /\ KeptInv' /\ ConfInv' /\ SavedInv'
  BY DEF BootInv, ProgramInv, CopyInv, KeptInv, ConfInv, SavedInv
<1> QED BY <1>1, <1>2, <1>3

LEMMA CheckInv ==
  ASSUME IInv, Check
  PROVE  IInv'
<1> USE SettingsAssumption DEF Check, IInv, TypeOK, flash, NewVersion, Version, PartitionType
<1>1. TypeOK'
  <2>1. changes' \in Version /\ g_device' \in PartitionType
    OBVIOUS
  <2> QED BY <2>1
<1>2. MutexInv' /\ CellInv' /\ BootInv'
  BY DEF MutexInv, CellInv, BootInv
<1>3. ProgramInv'
  BY DEF BootInv, ProgramInv, Complete, Valid
<1>4. CopyInv'
  BY DEF BootInv, CopyInv, Complete, Valid
<1>5. KeptInv'
  BY DEF BootInv, KeptInv, Complete, Valid
<1>6. SavedInv'
  BY DEF SavedInv
<1>7. ConfInv'
  BY Bits DEF ConfInv
<1> QED BY <1>1, <1>2, <1>3, <1>4, <1>5, <1>6, <1>7

(* and what the users ask for.                                             *)
LEMMA ChangeInv ==
  ASSUME IInv, NEW t \in Tasks, Change(t)
  PROVE  IInv'
<1> USE SettingsAssumption DEF Change, IInv, TypeOK, flash, NewVersion, Version, PartitionType
<1>1. TypeOK'
  <2>1. changes' \in Version /\ g_device' \in PartitionType
    OBVIOUS
  <2> QED BY <2>1
<1>2. MutexInv' /\ CellInv' /\ BootInv'
  BY DEF MutexInv, CellInv, BootInv
<1>3. ProgramInv' /\ CopyInv' /\ KeptInv' /\ SavedInv'
  BY DEF BootInv, ProgramInv, CopyInv, KeptInv, SavedInv
<1>4. ConfInv'
  BY Bits DEF ConfInv
<1> QED BY <1>1, <1>2, <1>3, <1>4

LEMMA BackupInv ==
  ASSUME IInv, NEW t \in Tasks, Backup(t)
  PROVE  IInv'
<1> USE SettingsAssumption DEF Backup, IInv, TypeOK, flash, NewVersion, Version, PartitionType
<1>1. TypeOK'
  <2>1. changes' \in Version /\ g_device' \in PartitionType
    OBVIOUS
  <2> QED BY <2>1
<1>2. MutexInv' /\ CellInv' /\ BootInv'
  BY DEF MutexInv, CellInv, BootInv
<1>3. ProgramInv' /\ CopyInv' /\ KeptInv' /\ SavedInv'
  BY DEF BootInv, ProgramInv, CopyInv, KeptInv, SavedInv
<1>4. ConfInv'
  BY Bits DEF ConfInv
<1> QED BY <1>1, <1>2, <1>3, <1>4

LEMMA SaveVolumeInv ==
  ASSUME IInv, NEW t \in Tasks, SaveVolume(t)
  PROVE  IInv'
<1> USE SettingsAssumption DEF SaveVolume, IInv, TypeOK, flash, NewVersion, Version, PartitionType
<1>1. TypeOK'
  <2>1. changes' \in Version /\ g_device' \in PartitionType
    OBVIOUS
  <2> QED BY <2>1
<1>2. MutexInv' /\ CellInv' /\ BootInv'
  BY DEF MutexInv, CellInv, BootInv
<1>3. ProgramInv' /\ CopyInv' /\ KeptInv' /\ SavedInv'
  BY DEF BootInv, ProgramInv, CopyInv, KeptInv, SavedInv
<1>4. ConfInv'
  BY Bits DEF ConfInv
<1> QED BY <1>1, <1>2, <1>3, <1>4

LEMMA SysEraseInv ==
  ASSUME IInv, NEW t \in Tasks, SysErase(t)
  PROVE  IInv'
<1> USE SettingsAssumption DEF SysErase, IInv, TypeOK, flash, Version, PartitionType
<1>1. TypeOK'
  OBVIOUS
<1>2. MutexInv' /\ CellInv' /\ BootInv'
  BY DEF MutexInv, CellInv, BootInv
<1>3. ProgramInv' /\ CopyInv' /\ KeptInv' /\ ConfInv' /\ SavedInv'
  BY DEF ProgramInv, CopyInv, KeptInv, ConfInv, SavedInv
<1> QED BY <1>1, <1>2, <1>3
-----------------------------------------------------------------------------
(* Every step of the radio keeps the invariant.                            *)
LEMMA NextInv == IInv /\ [Next]_vars => IInv'
<1> SUFFICES ASSUME IInv, [Next]_vars PROVE IInv'
  OBVIOUS
<1>1. CASE PowerLoss
  BY <1>1, PowerLossInv
<1>2. CASE Boot
  BY <1>2, PartitionsInitInv, RestoreEraseInv, RestoreWriteInv, RestoredInv,
     DefaultsInv, PaletteInv, CheckInv, TasksStartInv DEF Boot
<1>3. ASSUME NEW t \in Processes, Running(t) PROVE IInv'
  <2>1. CASE Save(t)
    BY <2>1, SaveTakeInv, SaveEraseInv, SaveWriteInv, SaveGiveInv DEF Save
  <2>2. CASE VolumeTake(t)
    BY <2>2, VolumeTakeInv
  <2>3. CASE Copy(t)
    BY <2>3, CopyReadInv, CopyEraseInv, CopyWriteInv DEF Copy
  <2>4. CASE EraseAll(t)
    BY <2>4, EraseAllDEVICEInv, EraseAllDEVICE1Inv, EraseAllStationsInv DEF EraseAll
  <2> QED BY <1>3, <2>1, <2>2, <2>3, <2>4 DEF Running
<1>4. ASSUME NEW t \in Tasks, Command(t) PROVE IInv'
  BY <1>4, ChangeInv, BackupInv, SaveVolumeInv, SysEraseInv DEF Command
<1>5. CASE UNCHANGED vars
  BY <1>5
     DEF vars, flash, IInv, TypeOK, MutexInv, CellInv, BootInv, ProgramInv, CopyInv,
         KeptInv, ConfInv, SavedInv
<1> QED BY <1>1, <1>2, <1>3, <1>4, <1>5 DEF Next

(* The invariant holds of every state a radio can be in, whatever its       *)
(* users do and however often the power goes.                              *)
THEOREM Invariance == Spec => []IInv
BY InitInv, NextInv, PTL DEF Spec

(* Every variable of the settings and of the tasks that save them stays in *)
(* its domain, for any number of tasks and of losses of power.             *)
THEOREM TypeCorrect == Spec => []TypeOK
<1>1. IInv => TypeOK
  BY DEF IInv
<1> QED BY <1>1, Invariance, PTL

(* However often and whenever the power goes, app_main finds a partition   *)
(* to start from and does not clear the stations, unless it was told to or *)
(* copyDeviceSettings ran beside another task's save or copy.              *)
THEOREM StationsAlwaysSurvive == Spec => StationsSurvive
<1>1. IInv /\ [Next]_vars
        => [stations' # stations => past \cap {"erase", "beside"} # {}]_vars
  <2> SUFFICES ASSUME IInv, Next, stations' # stations
               PROVE  past \cap {"erase", "beside"} # {}
    OBVIOUS
  <2>1. PICK t \in Processes : EraseAllStations(t)
    BY
       DEF Next, PowerLoss, Boot, PartitionsInit, RestoreErase, RestoreWrite,
           Restored, Defaults, Palette, Check, TasksStart, Running, Save, SaveTake,
           SaveErase, SaveWrite, SaveGive, VolumeTake, Copy, CopyRead, CopyErase,
           CopyWrite, EraseAll, EraseAllDEVICE, EraseAllDEVICE1, Command, Change,
           Backup, SaveVolume, SysErase, flash
  <2>2. pc[t] = "erase2" /\ stations = "saved"
    BY <2>1 DEF EraseAllStations, IInv, TypeOK
  <2> QED BY <2>2 DEF IInv, BootInv, KeptInv
<1> QED BY <1>1, Invariance, PTL DEF Spec, StationsSurvive

(* saveDeviceSettings waits for muxDevice, so that no two versions are ever *)
(* programmed over each other, however many tasks save and wherever the    *)
(* power goes.                                                             *)
THEOREM VersionsNeverMixed == Spec => []VersionsNeverMix
<1>1. IInv => VersionsNeverMix
  <2> SUFFICES ASSUME IInv, Started, muxDevice = NOBODY, Quiet
               PROVE  DEVICE.conf # ZERO
    BY DEF VersionsNeverMix
  <2>1. \A t \in Processes : pc[t] # "save_write"
    BY SettingsAssumption DEF IInv, MutexInv
  <2>2. Valid(DEVICE)
    BY <2>1 DEF IInv, CopyInv, Started
  <2> QED BY <2>2 DEF IInv, ConfInv
<1> QED BY <1>1, Invariance, PTL

(* A change of the settings made while another task saves is saved as well,*)
(* unless a save of the volume was dropped beside another save: no other   *)
(* task finds its own save done by one that began too early.               *)
THEOREM ChangesAlwaysSaved == Spec => []ChangesAreSaved
<1>1. IInv => ChangesAreSaved
  <2> SUFFICES ASSUME IInv, \A t \in Processes : pc[t] = "idle",
                      past \cap {"erase", "dropped"} = {}
               PROVE  DEVICE.conf = g_device.conf
    BY DEF ChangesAreSaved
  <2> QED BY DEF IInv, SavedInv
<1> QED BY <1>1, Invariance, PTL

-----------------------------------------------------------------------------
(* The list of stations.                                                   *)
Values == StaStations \cup {StaEmpty, StaErased, StaGarbled}
Bufs == {<<>>} \cup UNION {[SlotsOf(k) -> Values] : k \in Nat}
Ats == {"idle", "clamp", "malloc", "read", "erase", "write"}
SaverRecord == [at : Ats, position : Nat, number : 0..(StaWidth - 1),
                value : StaStations \cup {StaEmpty}, asked : SUBSET StaSlots, buf : Bufs]

-----------------------------------------------------------------------------
(* The arithmetic of sectors.                                              *)
LEMMA Size ==
  /\ NBSTATIONS \in Nat /\ StaWidth \in Nat /\ NBSTATIONS < StaWidth
  /\ StaPer \in Nat /\ StaPer > 0 /\ StaSectors \in Nat
  /\ NBSTATIONS + 1 = StaSectors * StaPer
<1>1. StaSectors * StaPer \in Nat /\ StaSectors * StaPer >= 1 BY StaAssumption
<1>2. QED BY <1>1, StaAssumption DEF NBSTATIONS

LEMMA Sectors ==
  ASSUME NEW p \in Nat
  PROVE  /\ SectorOf(p) \in Nat
         /\ StaPer * SectorOf(p) <= p /\ p < StaPer * SectorOf(p) + StaPer
         /\ p % StaPer = p - StaPer * SectorOf(p)
BY StaAssumption DEF SectorOf

LEMMA Times ==
  ASSUME NEW n \in Nat, NEW i \in Nat, NEW j \in Nat, i <= j PROVE n * i <= n * j
OBVIOUS

LEMMA SectorRange ==
  ASSUME NEW p \in StaSlots PROVE SectorOf(p) \in 0..(StaSectors - 1)
<1>1. p \in Nat /\ p <= NBSTATIONS BY Size DEF StaSlots
<1>2. SectorOf(p) \in Nat /\ StaPer * SectorOf(p) <= p BY <1>1, Sectors
<1>3. ASSUME StaSectors <= SectorOf(p) PROVE FALSE
  <2>1. StaPer * StaSectors <= StaPer * SectorOf(p) BY <1>2, <1>3, Size, Times
  <2>2. StaPer * StaSectors = StaSectors * StaPer BY Size
  <2>3. StaPer * SectorOf(p) \in Int /\ StaSectors * StaPer \in Int BY <1>2, Size
  <2>4. QED BY <1>1, <1>2, <2>1, <2>2, <2>3, Size
<1>4. QED BY <1>2, <1>3, Size

(* Where the next sector begins, and that what is in it or behind it is    *)
(* not before there.                                                       *)
LEMMA NextSector ==
  ASSUME NEW q \in Nat, NEW r, r = q + (StaPer - (q % StaPer))
  PROVE  /\ r \in Nat /\ r > q /\ SectorOf(r) > SectorOf(q)
         /\ \A p \in Nat : SectorOf(p) >= SectorOf(r) => p >= r
<1> DEFINE k == SectorOf(q)
           m == SectorOf(r)
<1>1. /\ k \in Nat /\ StaPer * k <= q /\ q < StaPer * k + StaPer
      /\ q % StaPer = q - StaPer * k
  BY Sectors
<1>2. StaPer * k \in Nat BY <1>1, Size
<1>3. r = StaPer * k + StaPer /\ r \in Nat /\ r > q BY <1>1, <1>2, Size
<1>4. m \in Nat /\ r < StaPer * m + StaPer BY <1>3, Sectors
<1> HIDE DEF k, m
<1>5. k < m
  <2>1. SUFFICES ASSUME m <= k PROVE FALSE BY <1>1, <1>4
  <2>2. StaPer * m <= StaPer * k BY <2>1, <1>1, <1>4, Size, Times
  <2>3. StaPer * m \in Nat BY <1>4, Size
  <2>4. QED BY <1>2, <1>3, <1>4, <2>2, <2>3, Size
<1>6. ASSUME NEW p \in Nat, SectorOf(p) >= m PROVE p >= r
  <2>1. SectorOf(p) \in Nat /\ StaPer * SectorOf(p) <= p BY Sectors
  <2>2. k + 1 <= SectorOf(p) BY <1>1, <1>4, <1>5, <1>6, <2>1
  <2>3. StaPer * (k + 1) <= StaPer * SectorOf(p) BY <1>1, <2>1, <2>2, Size, Times
  <2>4. StaPer * (k + 1) = StaPer * k + StaPer BY <1>1, Size
  <2>5. StaPer * SectorOf(p) \in Nat BY <2>1, Size
  <2>6. QED BY <1>2, <1>3, <2>1, <2>3, <2>4, <2>5, Size
<1>7. QED BY <1>1, <1>3, <1>4, <1>5, <1>6 DEF k, m

(* A uint8_t that is more than 0 is made less by one.                      *)
LEMMA OneLess ==
  ASSUME NEW n \in 0..(StaWidth - 1)
  PROVE  /\ (n - 1) % StaWidth \in 0..(StaWidth - 1)
         /\ n >= 1 => (n - 1) % StaWidth = n - 1
<1>1. StaWidth \in Nat /\ StaWidth > 0 BY Size
<1>2. QED BY <1>1

-----------------------------------------------------------------------------
(* What is left of a run is what is left of what was asked for: all that   *)
(* fits at first, later what is in this sector or behind it.               *)
Clamped(r) ==
  r.at = "clamp" =>
    \A p \in StaSlots :
      p \in r.asked <=> p < NBSTATIONS /\ r.position <= p /\ p < r.position + r.number
Fits(r) ==
  r.at \in {"malloc", "read", "erase", "write"} =>
    /\ r.position + r.number <= NBSTATIONS
    /\ \A p \in StaSlots :
         SectorOf(p) >= SectorOf(r.position) =>
           (p \in r.asked <=> r.position <= p /\ p < r.position + r.number)

(* A task that has read a sector has what was last saved in it, ...        *)
Busy(r) == r.at \in {"erase", "write"}
StaBuffers ==
  \A t \in StaTasks : Busy(staSaver[t]) =>
    LET k == SectorOf(staSaver[t].position)
    IN /\ staSaver[t].buf \in [SlotsOf(k) -> Values]
       /\ k \notin staBroken =>
            \A p \in SlotsOf(k) : /\ staSaver[t].buf[p] = staSaved[p]
                                  /\ staSaver[t].at = "write" => staFlash[p] = StaErased

(* ... and is the only one that has, if the sector is not broken.          *)
StaMet ==
  \A t, u \in StaTasks :
    t # u /\ Busy(staSaver[t]) /\ Busy(staSaver[u])
      /\ SectorOf(staSaver[t].position) = SectorOf(staSaver[u].position)
    => SectorOf(staSaver[t].position) \in staBroken

StaTypes ==
  /\ staFlash \in [StaSlots -> Values]
  /\ staSaver \in [StaTasks -> SaverRecord]
  /\ staScan \in {"none", "next", "prev"} /\ staCurrent \in StaSlots
  /\ staBroken \subseteq 0..(StaSectors - 1)
StaRuns == \A t \in StaTasks : Clamped(staSaver[t]) /\ Fits(staSaver[t])

StaInv == StaTypes /\ StaRuns /\ StaBuffers /\ StaMet /\ StaKept

LEMMA StaInvInit == StaInit => StaInv
<1> SUFFICES ASSUME StaInit PROVE StaInv OBVIOUS
<1> USE DEF StaInit
<1>1. StaIdle \in SaverRecord
  <2>1. 0 \in 0..(StaWidth - 1) BY Size
  <2>2. QED BY <2>1 DEF StaIdle, SaverRecord, Bufs, Ats
<1>2. StaTypes
  <2>1. 0 \in StaSlots BY Size DEF StaSlots
  <2>2. QED BY <1>1, <2>1 DEF StaTypes, Values
<1>3. \A t \in StaTasks : staSaver[t].at = "idle" BY DEF StaIdle
<1>4. StaRuns BY <1>3 DEF StaRuns, Clamped, Fits
<1>5. StaBuffers BY <1>3 DEF StaBuffers, Busy
<1>6. StaMet BY <1>3 DEF StaMet, Busy
<1>7. StaKept BY DEF StaKept
<1>8. QED BY <1>2, <1>4, <1>5, <1>6, <1>7 DEF StaInv

(* What a step does to the task that takes it.                             *)
LEMMA Becomes ==
  ASSUME StaTypes, NEW t \in StaTasks, NEW r \in SaverRecord,
         staSaver' = [staSaver EXCEPT ![t] = r]
  PROVE  /\ staSaver' \in [StaTasks -> SaverRecord] /\ staSaver'[t] = r
         /\ \A u \in StaTasks : u # t => staSaver'[u] = staSaver[u]
<1>1. staSaver \in [StaTasks -> SaverRecord] BY DEF StaTypes
<1>2. QED BY <1>1

LEMMA ItGoes ==
  ASSUME StaTypes, NEW t \in StaTasks, NEW at \in Ats, StaGoes(t, at)
  PROVE  \E r \in SaverRecord :
           /\ staSaver' = [staSaver EXCEPT ![t] = r]
           /\ r.at = at /\ r.position = staSaver[t].position
           /\ r.number = staSaver[t].number /\ r.asked = staSaver[t].asked
           /\ r.buf = staSaver[t].buf
<1>1. staSaver[t] \in SaverRecord BY DEF StaTypes
<1> DEFINE r == [staSaver[t] EXCEPT !.at = at]
<1>2. /\ r \in SaverRecord /\ r.at = at /\ r.position = staSaver[t].position
      /\ r.number = staSaver[t].number /\ r.asked = staSaver[t].asked
      /\ r.buf = staSaver[t].buf
  BY <1>1 DEF SaverRecord
<1>3. staSaver' = [staSaver EXCEPT ![t] = r] BY DEF StaGoes
<1>4. QED BY <1>2, <1>3

(* A task that is neither before nor after in the middle of a sector       *)
(* disturbs none.                                                          *)
LEMMA ElsewhereKeeps ==
  ASSUME StaInv, NEW t \in StaTasks, NEW r \in SaverRecord,
         staSaver' = [staSaver EXCEPT ![t] = r],
         ~Busy(staSaver[t]), ~Busy(r), Clamped(r), Fits(r),
         UNCHANGED <<staFlash, staScan, staCurrent, staSaved, staBroken>>
  PROVE  StaInv'
<1> USE DEF StaInv
<1>1. /\ staSaver' \in [StaTasks -> SaverRecord] /\ staSaver'[t] = r
      /\ \A u \in StaTasks : u # t => staSaver'[u] = staSaver[u]
  BY Becomes
<1>2. StaTypes' BY <1>1 DEF StaTypes
<1>3. StaRuns'
  <2>1. \A u \in StaTasks : Clamped(staSaver'[u]) /\ Fits(staSaver'[u])
    BY <1>1 DEF StaRuns
  <2>2. QED BY <2>1 DEF StaRuns, Clamped, Fits
<1>4. \A u \in StaTasks : Busy(staSaver'[u]) => u # t /\ staSaver'[u] = staSaver[u]
  BY <1>1
<1>5. StaBuffers' BY <1>4 DEF StaBuffers, Busy
<1>6. StaMet' BY <1>4 DEF StaMet, Busy
<1>7. StaKept'
  <2>1. ASSUME NEW p \in StaSlots, NEW u \in StaTasks,
               staSaver[u].at = "write", Within(u, SectorOf(p))
        PROVE  staSaver'[u].at = "write" /\ Within(u, SectorOf(p))'
    <3>1. u # t BY <2>1 DEF Busy
    <3>2. QED BY <1>1, <2>1, <3>1 DEF Within
  <2>2. QED BY <2>1 DEF StaKept
<1>8. QED BY <1>2, <1>3, <1>5, <1>6, <1>7

(* Every step keeps the invariant: a save is asked for, ...                *)
LEMMA SaveKeeps ==
  ASSUME StaInv, NEW t \in StaTasks, StaSave(t) PROVE StaInv'
<1>1. /\ UNCHANGED <<staFlash, staScan, staCurrent, staSaved, staBroken>>
      /\ staSaver[t].at = "idle"
  BY DEF StaSave
<1>2. PICK id \in StaIds, number \in StaNumbers, value \in StaStations :
        staSaver' = [staSaver EXCEPT ![t] = StaAsks(FirstPlace(id), number, value)]
  BY DEF StaSave
<1> DEFINE position == FirstPlace(id)
           asked == {p \in 0..(NBSTATIONS - 1) : position <= p /\ p < position + number}
           r == [at |-> "clamp", position |-> position, number |-> number,
                 value |-> value, buf |-> <<>>, asked |-> asked]
<1>3. position \in Nat /\ number \in 0..(StaWidth - 1)
  BY StaAssumption DEF FirstPlace
<1> HIDE DEF position
<1>4. asked \in SUBSET StaSlots BY Size DEF StaSlots
<1>5. \A p \in StaSlots :
        p \in asked <=> p < NBSTATIONS /\ position <= p /\ p < position + number
  BY <1>3, Size DEF StaSlots
<1> HIDE DEF asked
<1>6. /\ r \in SaverRecord /\ r.at = "clamp" /\ r.position = position
      /\ r.number = number /\ r.asked = asked
  BY <1>3, <1>4 DEF SaverRecord, Bufs, Ats
<1>7. staSaver' = [staSaver EXCEPT ![t] = r] BY <1>2 DEF asked, position, StaAsks
<1> HIDE DEF r
<1>8. Clamped(r) /\ Fits(r) /\ ~Busy(r) /\ ~Busy(staSaver[t])
  BY <1>1, <1>5, <1>6 DEF Clamped, Fits, Busy
<1>9. QED BY <1>1, <1>6, <1>7, <1>8, ElsewhereKeeps

(* ... what does not fit is left out, ...                                  *)
LEMMA ClampKeeps ==
  ASSUME StaInv, NEW t \in StaTasks, StaClamp(t) PROVE StaInv'
<1> DEFINE q == staSaver[t].position
           n == staSaver[t].number
<1>1. /\ UNCHANGED <<staFlash, staScan, staCurrent, staSaved, staBroken>>
      /\ staSaver[t].at = "clamp"
  BY DEF StaClamp
<1>2. staSaver[t] \in SaverRecord BY DEF StaInv, StaTypes
<1>3. q \in Nat /\ n \in 0..(StaWidth - 1) BY <1>2 DEF SaverRecord
<1>4. n \in Nat BY <1>3, Size
<1>5. \A p \in StaSlots :
        p \in staSaver[t].asked <=> p < NBSTATIONS /\ q <= p /\ p < q + n
  BY <1>1 DEF StaInv, StaRuns, Clamped
<1>6. CASE /\ q + n - 1 > NBSTATIONS - 1
           /\ staSaver' = [staSaver EXCEPT ![t].number = (@ - 1) % StaWidth]
  <2> DEFINE m == (n - 1) % StaWidth
             r == [staSaver[t] EXCEPT !.number = m]
  <2>1. m \in 0..(StaWidth - 1) /\ (n >= 1 => m = n - 1) BY <1>3, OneLess
  <2>2. staSaver' = [staSaver EXCEPT ![t] = r] BY <1>6
  <2> HIDE DEF m
  <2>3. /\ r \in SaverRecord /\ r.at = "clamp" /\ r.position = q
        /\ r.number = m /\ r.asked = staSaver[t].asked
    BY <1>1, <1>2, <2>1 DEF SaverRecord
  <2> HIDE DEF r, q, n
  <2>4. \A p \in StaSlots :
          p \in r.asked <=> p < NBSTATIONS /\ q <= p /\ p < q + m
    <3>1. m \in Nat BY <2>1, Size
    <3>2. CASE q <= NBSTATIONS
      <4>1. m = n - 1 BY <1>3, <1>4, <1>6, <2>1, <3>2, Size
      <4>2. QED BY <1>3, <1>4, <1>5, <1>6, <2>3, <4>1, Size DEF StaSlots
    <3>3. CASE q > NBSTATIONS BY <1>3, <1>5, <2>3, <3>1, <3>3, Size DEF StaSlots
    <3>4. QED BY <1>3, <3>2, <3>3, Size
  <2>5. Clamped(r) /\ Fits(r) /\ ~Busy(r) /\ ~Busy(staSaver[t])
    BY <1>1, <2>3, <2>4 DEF Clamped, Fits, Busy
  <2>6. QED BY <1>1, <2>2, <2>3, <2>5, ElsewhereKeeps
<1>7. CASE /\ ~(q + n - 1 > NBSTATIONS - 1)
           /\ StaGoes(t, IF n = 0 THEN "idle" ELSE "malloc")
  <2>1. PICK at \in {"idle", "malloc"} : StaGoes(t, at) BY <1>7
  <2>2. PICK r \in SaverRecord :
          /\ staSaver' = [staSaver EXCEPT ![t] = r]
          /\ r.at = at /\ r.position = q /\ r.number = n /\ r.asked = staSaver[t].asked
    BY <2>1, ItGoes DEF Ats, StaInv
  <2> HIDE DEF q, n
  <2>3. q + n <= NBSTATIONS BY <1>3, <1>4, <1>7, Size
  <2>4. \A p \in StaSlots : p \in r.asked <=> q <= p /\ p < q + n
    BY <1>3, <1>4, <1>5, <2>2, <2>3, Size DEF StaSlots
  <2>5. Clamped(r) /\ Fits(r) /\ ~Busy(r) /\ ~Busy(staSaver[t])
    BY <1>1, <2>2, <2>3, <2>4 DEF Clamped, Fits, Busy
  <2>6. QED BY <1>1, <2>2, <2>5, ElsewhereKeeps
<1>8. QED BY <1>6, <1>7 DEF StaClamp

(* ... there is memory or not, ...                                         *)
LEMMA MallocKeeps ==
  ASSUME StaInv, NEW t \in StaTasks, StaMalloc(t) PROVE StaInv'
<1>1. /\ UNCHANGED <<staFlash, staScan, staCurrent, staSaved, staBroken>>
      /\ staSaver[t].at = "malloc"
  BY DEF StaMalloc
<1>2. PICK at \in {"read", "idle"} : StaGoes(t, at) BY DEF StaMalloc
<1>3. PICK r \in SaverRecord :
        /\ staSaver' = [staSaver EXCEPT ![t] = r]
        /\ r.at = at /\ r.position = staSaver[t].position
        /\ r.number = staSaver[t].number /\ r.asked = staSaver[t].asked
  BY <1>2, ItGoes DEF Ats, StaInv
<1>4. Fits(staSaver[t]) BY DEF StaInv, StaRuns
<1>5. Fits(r) BY <1>1, <1>3, <1>4 DEF Fits
<1>6. Clamped(r) /\ ~Busy(r) /\ ~Busy(staSaver[t]) BY <1>1, <1>3 DEF Clamped, Busy
<1>7. QED BY <1>1, <1>3, <1>5, <1>6, ElsewhereKeeps

(* ... a sector is read, ...                                               *)
LEMMA ReadSectorKeeps ==
  ASSUME StaInv, NEW t \in StaTasks, StaRead(t) PROVE StaInv'
<1> USE DEF StaInv
<1> DEFINE q == staSaver[t].position
           k == SectorOf(q)
           b == [p \in SlotsOf(k) |-> staFlash[p]]
           r == [staSaver[t] EXCEPT !.at = "erase", !.buf = b]
<1>1. /\ UNCHANGED <<staFlash, staScan, staCurrent, staSaved>>
      /\ staSaver[t].at = "read"
      /\ staBroken' = IF Meets(t, k) THEN staBroken \cup {k} ELSE staBroken
      /\ staSaver' = [staSaver EXCEPT ![t].at = "erase", ![t].buf = b]
  BY DEF StaRead
<1>2. staSaver[t] \in SaverRecord BY DEF StaTypes
<1>3. q \in Nat /\ q \in StaSlots
  <2>1. q \in Nat /\ staSaver[t].number \in 0..(StaWidth - 1) BY <1>2 DEF SaverRecord
  <2>2. q + staSaver[t].number <= NBSTATIONS BY <1>1 DEF StaRuns, Fits
  <2>3. QED BY <2>1, <2>2, Size DEF StaSlots
<1>4. k \in Nat /\ k \in 0..(StaSectors - 1) BY <1>3, Sectors, SectorRange
<1>5. /\ b \in [SlotsOf(k) -> Values] /\ \A p \in SlotsOf(k) : b[p] = staFlash[p]
  BY DEF StaTypes, SlotsOf
<1> HIDE DEF b
<1>6. b \in Bufs BY <1>4, <1>5 DEF Bufs
<1>7. /\ r \in SaverRecord /\ r.at = "erase" /\ r.position = q /\ r.buf = b
      /\ r.number = staSaver[t].number /\ r.asked = staSaver[t].asked
  BY <1>2, <1>6 DEF SaverRecord, Ats
<1>8. staSaver' = [staSaver EXCEPT ![t] = r] BY <1>1, <1>2 DEF SaverRecord
<1> HIDE DEF r, k, q
<1>9. /\ staSaver' \in [StaTasks -> SaverRecord] /\ staSaver'[t] = r
      /\ \A u \in StaTasks : u # t => staSaver'[u] = staSaver[u]
  BY <1>7, <1>8, Becomes
<1>10. staBroken \subseteq staBroken' /\ staBroken' \subseteq 0..(StaSectors - 1)
  BY <1>1, <1>4 DEF StaTypes
<1>11. StaTypes' BY <1>1, <1>9, <1>10 DEF StaTypes
<1>12. StaRuns'
  <2>1. Clamped(r) /\ Fits(r) BY <1>1, <1>7 DEF StaRuns, Clamped, Fits, q
  <2>2. \A u \in StaTasks : Clamped(staSaver'[u]) /\ Fits(staSaver'[u])
    BY <1>9, <2>1 DEF StaRuns
  <2>3. QED BY <2>2 DEF StaRuns, Clamped, Fits
<1>13. SectorOf(r.position) = k BY <1>7 DEF k
<1>14. ASSUME NEW u \in StaTasks, u # t, Busy(staSaver[u]),
              SectorOf(staSaver[u].position) = k
       PROVE  k \in staBroken'
  <2>1. Within(u, k) BY <1>14 DEF Within, Busy
  <2>2. Meets(t, k) BY <1>14, <2>1 DEF Meets
  <2>3. QED BY <1>1, <2>2
<1>15. StaMet'
  <2>1. ASSUME NEW u \in StaTasks, NEW v \in StaTasks, u # v,
               Busy(staSaver'[u]), Busy(staSaver'[v]),
               SectorOf(staSaver'[u].position) = SectorOf(staSaver'[v].position)
        PROVE  SectorOf(staSaver'[u].position) \in staBroken'
    <3>1. CASE u = t BY <1>9, <1>13, <1>14, <2>1, <3>1
    <3>2. CASE v = t BY <1>9, <1>13, <1>14, <2>1, <3>2
    <3>3. CASE u # t /\ v # t BY <1>9, <1>10, <2>1, <3>3 DEF StaMet
    <3>4. QED BY <3>1, <3>2, <3>3
  <2>2. QED BY <2>1 DEF StaMet, Busy
<1>16. ASSUME k \notin staBroken', NEW p \in SlotsOf(k) PROVE staFlash[p] = staSaved[p]
  <2>1. p \in StaSlots /\ SectorOf(p) = k BY DEF SlotsOf
  <2>2. k \notin staBroken BY <1>10, <1>16
  <2>3. ASSUME NEW u \in StaTasks, staSaver[u].at = "write", Within(u, k) PROVE FALSE
    <3>1. u # t /\ Busy(staSaver[u]) /\ SectorOf(staSaver[u].position) = k
      BY <1>1, <2>3 DEF Within, Busy
    <3>2. QED BY <1>14, <1>16, <3>1
  <2>4. QED BY <2>1, <2>2, <2>3 DEF StaKept
<1>17. StaBuffers'
  <2>1. ASSUME NEW u \in StaTasks, Busy(staSaver'[u])
        PROVE  LET j == SectorOf(staSaver'[u].position)
               IN /\ staSaver'[u].buf \in [SlotsOf(j) -> Values]
                  /\ j \notin staBroken' =>
                       \A p \in SlotsOf(j) :
                         /\ staSaver'[u].buf[p] = staSaved'[p]
                         /\ staSaver'[u].at = "write" => staFlash'[p] = StaErased
    <3>1. CASE u = t
      <4>1. staSaver'[u].buf = b /\ SectorOf(staSaver'[u].position) = k
        BY <1>7, <1>9, <1>13, <3>1
      <4>2. staSaver'[u].at = "erase" BY <1>7, <1>9, <3>1
      <4>3. \A p \in SlotsOf(k) : k \notin staBroken' => b[p] = staSaved'[p]
        BY <1>1, <1>5, <1>16
      <4>4. QED BY <1>5, <4>1, <4>2, <4>3
    <3>2. CASE u # t BY <1>1, <1>9, <1>10, <2>1, <3>2 DEF StaBuffers
    <3>3. QED BY <3>1, <3>2
  <2>2. QED BY <2>1 DEF StaBuffers, Busy
<1>18. StaKept'
  <2>1. ASSUME NEW p \in StaSlots, NEW u \in StaTasks,
               staSaver[u].at = "write", Within(u, SectorOf(p))
        PROVE  staSaver'[u].at = "write" /\ Within(u, SectorOf(p))'
    <3>1. u # t BY <1>1, <2>1
    <3>2. QED BY <1>9, <2>1, <3>1 DEF Within
  <2>2. QED BY <1>1, <1>10, <2>1 DEF StaKept
<1>19. QED BY <1>11, <1>12, <1>15, <1>17, <1>18

(* ... and erased, ...                                                     *)
LEMMA EraseKeeps ==
  ASSUME StaInv, NEW t \in StaTasks, StaErase(t) PROVE StaInv'
<1> USE DEF StaInv
<1> DEFINE q == staSaver[t].position
           k == SectorOf(q)
<1>1. /\ UNCHANGED <<staScan, staCurrent, staSaved, staBroken>>
      /\ staSaver[t].at = "erase" /\ StaGoes(t, "write")
      /\ staFlash' = [p \in StaSlots |-> IF SectorOf(p) = k THEN StaErased ELSE staFlash[p]]
  BY DEF StaErase
<1>2. PICK r \in SaverRecord :
        /\ staSaver' = [staSaver EXCEPT ![t] = r]
        /\ r.at = "write" /\ r.position = q /\ r.buf = staSaver[t].buf
        /\ r.number = staSaver[t].number /\ r.asked = staSaver[t].asked
  BY <1>1, ItGoes DEF Ats
<1>3. /\ staSaver' \in [StaTasks -> SaverRecord] /\ staSaver'[t] = r
      /\ \A u \in StaTasks : u # t => staSaver'[u] = staSaver[u]
  BY <1>2, Becomes
<1>4. Busy(staSaver[t]) /\ Busy(r) BY <1>1, <1>2 DEF Busy
<1>5. /\ \A p \in SlotsOf(k) : staFlash'[p] = StaErased
      /\ \A p \in StaSlots : SectorOf(p) # k => staFlash'[p] = staFlash[p]
  BY <1>1 DEF SlotsOf
<1>6. staFlash' \in [StaSlots -> Values] BY <1>1 DEF StaTypes, Values
<1> HIDE DEF k, q
<1>7. SectorOf(r.position) = k /\ SectorOf(staSaver[t].position) = k BY <1>2 DEF k, q
<1>8. StaTypes' BY <1>1, <1>3, <1>6 DEF StaTypes
<1>9. StaRuns'
  <2>1. Clamped(r) /\ Fits(r) BY <1>1, <1>2 DEF StaRuns, Clamped, Fits, q
  <2>2. \A u \in StaTasks : Clamped(staSaver'[u]) /\ Fits(staSaver'[u])
    BY <1>3, <2>1 DEF StaRuns
  <2>3. QED BY <2>2 DEF StaRuns, Clamped, Fits
<1>10. ASSUME NEW u \in StaTasks
       PROVE  /\ Busy(staSaver'[u]) <=> Busy(staSaver[u])
              /\ SectorOf(staSaver'[u].position) = SectorOf(staSaver[u].position)
              /\ staSaver'[u].buf = staSaver[u].buf
  BY <1>2, <1>3, <1>4, <1>7
<1>11. StaMet'
  <2>1. ASSUME NEW u \in StaTasks, NEW v \in StaTasks, u # v,
               Busy(staSaver'[u]), Busy(staSaver'[v]),
               SectorOf(staSaver'[u].position) = SectorOf(staSaver'[v].position)
        PROVE  SectorOf(staSaver'[u].position) \in staBroken'
    <3>1. SectorOf(staSaver[u].position) \in staBroken BY <1>10, <2>1 DEF StaMet
    <3>2. QED BY <1>1, <1>10, <3>1
  <2>2. QED BY <2>1 DEF StaMet, Busy
<1>12. StaBuffers'
  <2>1. ASSUME NEW u \in StaTasks, Busy(staSaver'[u])
        PROVE  LET j == SectorOf(staSaver'[u].position)
               IN /\ staSaver'[u].buf \in [SlotsOf(j) -> Values]
                  /\ j \notin staBroken' =>
                       \A p \in SlotsOf(j) :
                         /\ staSaver'[u].buf[p] = staSaved'[p]
                         /\ staSaver'[u].at = "write" => staFlash'[p] = StaErased
    <3> DEFINE j == SectorOf(staSaver'[u].position)
    <3>1. j = SectorOf(staSaver[u].position) /\ Busy(staSaver[u]) BY <1>10, <2>1
    <3>2. staSaver'[u].buf \in [SlotsOf(j) -> Values] BY <1>10, <3>1 DEF StaBuffers
    <3>3. ASSUME j \notin staBroken', NEW p \in SlotsOf(j)
          PROVE  /\ staSaver'[u].buf[p] = staSaved'[p]
                 /\ staSaver'[u].at = "write" => staFlash'[p] = StaErased
      <4>1. /\ staSaver[u].buf[p] = staSaved[p]
            /\ staSaver[u].at = "write" => staFlash[p] = StaErased
        BY <1>1, <3>1, <3>3 DEF StaBuffers
      <4>2. CASE j = k
        BY <1>1, <1>5, <1>10, <3>3, <4>1, <4>2
      <4>3. CASE j # k
        <5>1. u # t BY <1>7, <3>1, <4>3
        <5>2. p \in StaSlots /\ SectorOf(p) # k BY <3>3, <4>3 DEF SlotsOf
        <5>3. QED BY <1>1, <1>3, <1>5, <4>1, <5>1, <5>2
      <4>4. QED BY <4>2, <4>3
    <3>4. QED BY <3>2, <3>3
  <2>2. QED BY <2>1 DEF StaBuffers, Busy
<1>13. StaKept'
  <2>1. ASSUME NEW p \in StaSlots
        PROVE  \/ staFlash'[p] = staSaved'[p]
               \/ SectorOf(p) \in staBroken'
               \/ \E u \in StaTasks : staSaver'[u].at = "write" /\ Within(u, SectorOf(p))'
    <3>1. CASE SectorOf(p) = k
      <4>1. staSaver'[t].at = "write" /\ Within(t, SectorOf(p))'
        BY <1>2, <1>3, <1>7, <3>1 DEF Within
      <4>2. QED BY <4>1
    <3>2. CASE SectorOf(p) # k
      <4>1. ASSUME NEW u \in StaTasks, staSaver[u].at = "write", Within(u, SectorOf(p))
            PROVE  staSaver'[u].at = "write" /\ Within(u, SectorOf(p))'
        <5>1. u # t BY <1>1, <4>1
        <5>2. QED BY <1>3, <4>1, <5>1 DEF Within
      <4>2. QED BY <1>1, <1>5, <3>2, <4>1 DEF StaKept
    <3>3. QED BY <3>1, <3>2
  <2>2. QED BY <2>1 DEF StaKept
<1>14. QED BY <1>8, <1>9, <1>11, <1>12, <1>13

(* ... and written, and the rest of the run begins where the next one      *)
(* does; ...                                                               *)
LEMMA RestFits ==
  ASSUME NEW s \in SaverRecord, s.at = "write", Fits(s)
  PROVE  /\ Rest(s) \in SaverRecord /\ ~Busy(Rest(s))
         /\ Clamped(Rest(s)) /\ Fits(Rest(s))
<1> DEFINE max == StaPer - (s.position % StaPer)
           q == s.position + max
           n == s.number - max
           r == [s EXCEPT !.at = "read", !.position = q, !.number = n, !.buf = <<>>]
<1>1. s.position \in Nat /\ s.number \in 0..(StaWidth - 1) BY DEF SaverRecord
<1>2. CASE max >= s.number
  <2>1. Rest(s) = StaIdle BY <1>2 DEF Rest
  <2>2. 0 \in 0..(StaWidth - 1) BY Size
  <2>3. StaIdle \in SaverRecord BY <2>2 DEF StaIdle, SaverRecord, Bufs, Ats
  <2>4. StaIdle.at = "idle" BY DEF StaIdle
  <2>5. QED BY <2>1, <2>3, <2>4 DEF Busy, Clamped, Fits
<1>3. CASE ~(max >= s.number)
  <2>1. /\ q \in Nat /\ q > s.position /\ SectorOf(q) > SectorOf(s.position)
        /\ \A p \in Nat : SectorOf(p) >= SectorOf(q) => p >= q
    BY <1>1, NextSector
  <2>2. s.position % StaPer \in Nat /\ s.position % StaPer < StaPer
    BY <1>1, Size
  <2>3. n \in 0..(StaWidth - 1) /\ q + n = s.position + s.number
    BY <1>1, <1>3, <2>2, Size
  <2>4. Rest(s) = r BY <1>3 DEF Rest
  <2> HIDE DEF max, q, n
  <2>5. /\ r \in SaverRecord /\ r.at = "read" /\ r.position = q /\ r.number = n
        /\ r.asked = s.asked
    BY <2>1, <2>3 DEF SaverRecord, Bufs, Ats
  <2>6. SectorOf(q) \in Nat /\ SectorOf(s.position) \in Nat BY <1>1, <2>1, Sectors
  <2>7. ASSUME NEW p \in StaSlots, SectorOf(p) >= SectorOf(q)
        PROVE  p \in s.asked <=> q <= p /\ p < q + n
    <3>1. p \in Nat /\ SectorOf(p) \in Nat
      <4>1. p \in Nat BY Size DEF StaSlots
      <4>2. QED BY <4>1, Sectors
    <3>2. SectorOf(p) >= SectorOf(s.position) BY <2>1, <2>6, <2>7, <3>1
    <3>3. p \in s.asked <=> s.position <= p /\ p < s.position + s.number
      BY <3>2 DEF Fits
    <3>4. p >= q BY <2>1, <2>7, <3>1
    <3>5. QED BY <1>1, <2>1, <2>3, <3>1, <3>3, <3>4
  <2>8. q + n <= NBSTATIONS BY <2>3 DEF Fits
  <2> HIDE DEF r
  <2>9. Fits(r) /\ Clamped(r) /\ ~Busy(r)
    BY <2>5, <2>7, <2>8 DEF Fits, Clamped, Busy
  <2>10. QED BY <2>4, <2>5, <2>9
<1>4. QED BY <1>2, <1>3

LEMMA WriteKeeps ==
  ASSUME StaInv, NEW t \in StaTasks, StaWrite(t) PROVE StaInv'
<1> USE DEF StaInv
<1> DEFINE s == staSaver[t]
           k == SectorOf(s.position)
           new == Overwritten(s.position, s.number)
           copy == [p \in DOMAIN s.buf |-> IF p \in new THEN s.value ELSE s.buf[p]]
           r == Rest(s)
<1>1. /\ UNCHANGED <<staScan, staCurrent, staBroken>>
      /\ s.at = "write" /\ staSaver' = [staSaver EXCEPT ![t] = Rest(s)]
      /\ staFlash' = [p \in StaSlots |-> IF p \in DOMAIN copy
                        THEN StaProgrammed(staFlash[p], copy[p]) ELSE staFlash[p]]
      /\ staSaved' = [p \in StaSlots |-> IF p \in DOMAIN copy \cap s.asked THEN s.value
                                         ELSE staSaved[p]]
  BY DEF StaWrite
<1>2. s \in SaverRecord /\ Fits(s) BY DEF StaTypes, StaRuns
<1>3. r \in SaverRecord /\ ~Busy(r) /\ Clamped(r) /\ Fits(r) BY <1>1, <1>2, RestFits
<1>4. /\ staSaver' \in [StaTasks -> SaverRecord] /\ staSaver'[t] = r
      /\ \A u \in StaTasks : u # t => staSaver'[u] = staSaver[u]
  BY <1>1, <1>3, Becomes
<1>5. /\ s.buf \in [SlotsOf(k) -> Values]
      /\ k \notin staBroken =>
           \A p \in SlotsOf(k) : s.buf[p] = staSaved[p] /\ staFlash[p] = StaErased
  BY <1>1 DEF StaBuffers, Busy
<1>6. /\ DOMAIN copy = SlotsOf(k)
      /\ \A p \in SlotsOf(k) : copy[p] = IF p \in new THEN s.value ELSE s.buf[p]
  BY <1>5
<1> HIDE DEF r, copy
<1>7. \A p \in SlotsOf(k) : copy[p] \in Values
  <2>1. s.value \in Values BY <1>2 DEF SaverRecord, Values
  <2>2. QED BY <1>5, <1>6, <2>1
<1>8. staFlash' \in [StaSlots -> Values]
  <2>1. \A p \in StaSlots : staFlash[p] \in Values BY DEF StaTypes
  <2>2. \A p \in SlotsOf(k) : StaProgrammed(staFlash[p], copy[p]) \in Values
    BY <1>7 DEF StaProgrammed, Values
  <2>3. QED BY <1>1, <1>6, <2>1, <2>2
<1>9. \A p \in SlotsOf(k) : p \in StaSlots /\ SectorOf(p) = k BY DEF SlotsOf
<1>10. \A p \in SlotsOf(k) : p \in new <=> p \in s.asked
  <2>1. k \in Nat BY <1>2, Sectors DEF SaverRecord
  <2>2. ASSUME NEW p \in SlotsOf(k) PROVE p \in new <=> p \in s.asked
    <3>1. p \in StaSlots /\ SectorOf(p) >= k BY <1>9, <2>1
    <3>2. p \in s.asked <=> s.position <= p /\ p < s.position + s.number
      BY <1>1, <1>2, <3>1 DEF Fits
    <3>3. p \in new <=> s.position <= p /\ p < s.position + s.number BY DEF Overwritten
    <3>4. QED BY <3>2, <3>3
  <2>3. QED BY <2>2
<1> HIDE DEF new
<1>11. /\ \A p \in SlotsOf(k) : /\ staFlash'[p] = StaProgrammed(staFlash[p], copy[p])
                                /\ staSaved'[p] = IF p \in new THEN s.value ELSE staSaved[p]
       /\ \A p \in StaSlots : SectorOf(p) # k =>
            staFlash'[p] = staFlash[p] /\ staSaved'[p] = staSaved[p]
  BY <1>1, <1>6, <1>9, <1>10
<1> HIDE DEF k
<1>12. StaTypes' BY <1>1, <1>4, <1>8 DEF StaTypes
<1>13. StaRuns'
  <2>1. \A u \in StaTasks : Clamped(staSaver'[u]) /\ Fits(staSaver'[u])
    BY <1>3, <1>4 DEF StaRuns
  <2>2. QED BY <2>1 DEF StaRuns, Clamped, Fits
<1>14. \A u \in StaTasks : Busy(staSaver'[u]) => u # t /\ staSaver'[u] = staSaver[u]
  BY <1>3, <1>4
<1>15. StaMet' BY <1>1, <1>14 DEF StaMet, Busy
<1>16. StaBuffers'
  <2>1. ASSUME NEW u \in StaTasks, Busy(staSaver'[u])
        PROVE  LET j == SectorOf(staSaver'[u].position)
               IN /\ staSaver'[u].buf \in [SlotsOf(j) -> Values]
                  /\ j \notin staBroken' =>
                       \A p \in SlotsOf(j) :
                         /\ staSaver'[u].buf[p] = staSaved'[p]
                         /\ staSaver'[u].at = "write" => staFlash'[p] = StaErased
    <3> DEFINE j == SectorOf(staSaver[u].position)
    <3>1. u # t /\ staSaver'[u] = staSaver[u] /\ Busy(staSaver[u]) BY <1>14, <2>1
    <3>2. staSaver[u].buf \in [SlotsOf(j) -> Values] BY <3>1 DEF StaBuffers
    <3>3. ASSUME j \notin staBroken, NEW p \in SlotsOf(j)
          PROVE  /\ staSaver[u].buf[p] = staSaved'[p]
                 /\ staSaver[u].at = "write" => staFlash'[p] = StaErased
      <4>1. /\ staSaver[u].buf[p] = staSaved[p]
            /\ staSaver[u].at = "write" => staFlash[p] = StaErased
        BY <3>1, <3>3 DEF StaBuffers
      <4>2. j # k BY <1>1, <3>1, <3>3 DEF StaMet, Busy, k
      <4>3. p \in StaSlots /\ SectorOf(p) # k BY <3>3, <4>2 DEF SlotsOf
      <4>4. QED BY <1>11, <4>1, <4>3
    <3>4. QED BY <1>1, <3>1, <3>2, <3>3
  <2>2. QED BY <2>1 DEF StaBuffers, Busy
<1>17. StaKept'
  <2>1. ASSUME NEW p \in StaSlots
        PROVE  \/ staFlash'[p] = staSaved'[p]
               \/ SectorOf(p) \in staBroken'
               \/ \E u \in StaTasks : staSaver'[u].at = "write" /\ Within(u, SectorOf(p))'
    <3>1. CASE SectorOf(p) = k /\ k \notin staBroken
      <4>1. p \in SlotsOf(k) BY <3>1 DEF SlotsOf
      <4>2. s.buf[p] = staSaved[p] /\ staFlash[p] = StaErased BY <1>5, <3>1, <4>1 DEF k
      <4>3. staFlash'[p] = copy[p] BY <1>11, <4>1, <4>2 DEF StaProgrammed
      <4>4. QED BY <1>6, <1>11, <4>1, <4>2, <4>3 DEF k
    <3>2. CASE SectorOf(p) # k
      <4>1. ASSUME NEW u \in StaTasks, staSaver[u].at = "write", Within(u, SectorOf(p))
            PROVE  staSaver'[u].at = "write" /\ Within(u, SectorOf(p))'
        <5>1. u # t BY <3>2, <4>1 DEF Within, k
        <5>2. QED BY <1>4, <4>1, <5>1 DEF Within
      <4>2. QED BY <1>1, <1>11, <3>2, <4>1 DEF StaKept
    <3>3. QED BY <1>1, <3>1, <3>2
  <2>2. QED BY <2>1 DEF StaKept
<1>18. QED BY <1>12, <1>13, <1>15, <1>16, <1>17

(* ... power is lost, ...                                                  *)
LEMMA CrashKeeps ==
  ASSUME StaInv, StaCrash PROVE StaInv'
<1> USE DEF StaInv
<1> DEFINE cut == {SectorOf(staSaver[t].position) :
                     t \in {u \in StaTasks : staSaver[u].at = "write"}}
<1>1. /\ UNCHANGED <<staFlash, staCurrent, staSaved>>
      /\ staSaver' = [t \in StaTasks |-> StaIdle] /\ staScan' = "none"
      /\ staBroken' = staBroken \cup cut
  BY DEF StaCrash
<1>2. StaIdle \in SaverRecord /\ StaIdle.at = "idle"
  <2>1. 0 \in 0..(StaWidth - 1) BY Size
  <2>2. QED BY <2>1 DEF StaIdle, SaverRecord, Bufs, Ats
<1>3. \A t \in StaTasks : staSaver'[t] = StaIdle BY <1>1
<1>4. cut \subseteq 0..(StaSectors - 1)
  <2>1. ASSUME NEW t \in StaTasks, staSaver[t].at = "write"
        PROVE  SectorOf(staSaver[t].position) \in 0..(StaSectors - 1)
    <3>1. /\ staSaver[t].position \in Nat
          /\ staSaver[t].number \in 0..(StaWidth - 1)
      BY DEF StaTypes, SaverRecord
    <3>2. staSaver[t].position + staSaver[t].number <= NBSTATIONS
      BY <2>1 DEF StaRuns, Fits
    <3>3. staSaver[t].position \in StaSlots BY <3>1, <3>2, Size DEF StaSlots
    <3>4. QED BY <3>3, SectorRange
  <2>2. QED BY <2>1
<1> HIDE DEF cut
<1>5. StaTypes' BY <1>1, <1>2, <1>4 DEF StaTypes
<1>6. StaRuns' BY <1>2, <1>3 DEF StaRuns, Clamped, Fits
<1>7. StaBuffers' BY <1>2, <1>3 DEF StaBuffers, Busy
<1>8. StaMet' BY <1>2, <1>3 DEF StaMet, Busy
<1>9. StaKept'
  <2>1. ASSUME NEW p \in StaSlots, NEW u \in StaTasks,
               staSaver[u].at = "write", Within(u, SectorOf(p))
        PROVE  SectorOf(p) \in staBroken'
    <3>1. SectorOf(staSaver[u].position) = SectorOf(p) BY <2>1 DEF Within
    <3>2. SectorOf(staSaver[u].position) \in cut BY <2>1 DEF cut
    <3>3. QED BY <1>1, <3>1, <3>2
  <2>2. QED BY <1>1, <2>1 DEF StaKept
<1>10. QED BY <1>5, <1>6, <1>7, <1>8, <1>9

(* ... and a station is looked for.                                        *)
LEMMA LookKeeps ==
  ASSUME StaInv, StaLook \/ StaScanStep \/ UNCHANGED staVars PROVE StaInv'
<1> USE DEF StaInv
<1>1. UNCHANGED <<staFlash, staSaver, staSaved, staBroken>>
  BY DEF StaLook, StaScanStep, StaScanNext, StaScanPrev, staVars
<1>2. staCurrent \in 0..NBSTATIONS /\ NBSTATIONS \in Nat BY Size DEF StaTypes, StaSlots
<1>3. Follows(staCurrent) \in 0..NBSTATIONS BY <1>2 DEF Follows
<1>4. staCurrent' \in 0..NBSTATIONS /\ staScan' \in {"none", "next", "prev"}
  <2>1. CASE StaLook BY <1>2, <2>1 DEF StaLook
  <2>2. CASE StaScanNext BY <1>3, <2>2 DEF StaScanNext
  <2>3. CASE StaScanPrev BY <1>2, <2>3 DEF StaScanPrev
  <2>4. CASE UNCHANGED staVars BY <1>2, <2>4 DEF staVars, StaTypes
  <2>5. QED BY <2>1, <2>2, <2>3, <2>4 DEF StaScanStep
<1>5. StaTypes' BY <1>1, <1>4 DEF StaTypes, StaSlots
<1>6. StaRuns' BY <1>1 DEF StaRuns, Clamped, Fits
<1>7. StaBuffers' BY <1>1 DEF StaBuffers, Busy
<1>8. StaMet' BY <1>1 DEF StaMet, Busy
<1>9. StaKept' BY <1>1 DEF StaKept, Within
<1>10. QED BY <1>5, <1>6, <1>7, <1>8, <1>9

-----------------------------------------------------------------------------
LEMMA StaInvNext == StaInv /\ [StaNext]_staVars => StaInv'
<1> SUFFICES ASSUME StaInv, [StaNext]_staVars PROVE StaInv' OBVIOUS
<1>1. ASSUME NEW t \in StaTasks, StaSave(t) \/ StaSaverStep(t) PROVE StaInv'
  BY <1>1, SaveKeeps, ClampKeeps, MallocKeeps, ReadSectorKeeps, EraseKeeps, WriteKeeps
  DEF StaSaverStep
<1>2. CASE StaCrash BY <1>2, CrashKeeps
<1>3. CASE StaLook \/ StaScanStep \/ UNCHANGED staVars BY <1>3, LookKeeps
<1>4. QED BY <1>1, <1>2, <1>3 DEF StaNext

(* What is said of the saves and their sectors is so at every moment.      *)
THEOREM StaInvariant == StaSpec => []StaInv
<1>1. QED BY StaInvInit, StaInvNext, PTL DEF StaSpec

LEMMA StaInvTypes == StaInv => StaTypeOK
  BY DEF StaInv, StaTypes, StaTypeOK, SaverRecord, Ats, Values

(* Every variable of the stations keeps its type: the place that is shown  *)
(* is one of the list, and a count never exceeds its width.                *)
THEOREM StaTypesHold == StaSpec => []StaTypeOK
<1>1. QED BY StaInvTypes, StaInvariant, PTL

(* The list of stations is what was last saved, also across the sectors a  *)
(* run spans and whatever is saved at the same time, but for the sectors   *)
(* in which two saves met or one was cut, or which are being written.      *)
THEOREM StaKeptHolds == StaSpec => []StaKept
<1>1. StaInv => StaKept BY DEF StaInv
<1>2. QED BY <1>1, StaInvariant, PTL
==============================================================================
