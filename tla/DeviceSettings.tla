---------------------------- MODULE DeviceSettings ----------------------------
(***************************************************************************)
(* The settings of the radio in flash (eeprom.c): the partition DEVICE the *)
(* settings are saved to, the partition DEVICE1 that keeps a safe copy,    *)
(* the tasks that change g_device and save it, and what app_main does with *)
(* both partitions when the power comes back.                              *)
(*                                                                         *)
(* A partition is three cells, programmed in the order of struct           *)
(* device_settings: cleared, the marker; conf, every setting after it; and *)
(* palette, the marker of the colours at the end.  The flash is NOR flash: *)
(* erasing sets all bits, programming only clears bits, so that a cell     *)
(* programmed twice holds the conjunction of the two.  The power may go    *)
(* between any two steps.                                                  *)
(***************************************************************************)
EXTENDS Naturals, Sequences

CONSTANTS
  Tasks,      \* the tasks with a user: web server, telnet, console, display
  MAIN,       \* the task that runs app_main
  NOBODY,     \* the holder of a free mutex
  Ops,        \* what the tasks do: "change", "backup", "volume", "erase"
  MaxChanges, \* bound: changes of the settings
  MaxLosses   \* bound: losses of power

ASSUME SettingsAssumption ==
  /\ MAIN \notin Tasks /\ NOBODY \notin Tasks \cup {MAIN}
  /\ Ops \subseteq {"change", "backup", "volume", "erase"}
  /\ MaxChanges \in Nat \ {0} /\ MaxLosses \in Nat

VARIABLES
  DEVICE, DEVICE1, \* the two partitions
  stations,        \* the partition of the stations: "saved" or "none"
  g_device,        \* the settings in RAM
  muxDevice,       \* who holds the mutex
  pc, cell, buf,   \* where a task is, the cell it programs next, its buffer
  ret,             \* where it goes on after a save
  changes, losses, \* how many there have been
  past             \* what has happened: the user has asked to erase all
                   \*   ("erase"), a copy has been made beside another task at
                   \*   work ("beside"), a save of the volume dropped ("dropped")

flash == <<DEVICE, DEVICE1, stations>>
vars == <<flash, g_device, muxDevice, pc, cell, buf, ret, changes, losses, past>>

Processes == Tasks \cup {MAIN}

(* A cell is the set of its bits that are set.  A version of the settings  *)
(* (0 the defaults) has a bit of its own, so that two versions programmed  *)
(* over each other leave none; the markers are always the same bit.        *)
Version == 0..(MaxChanges + 1)
ERASED == Version
ZERO == {}
MARK == {0}
Cell == <<"cleared", "conf", "palette">>
All(value) == [cleared |-> value, conf |-> value, palette |-> value]
Content(version) == [cleared |-> MARK, conf |-> {version}, palette |-> MARK]

(* The test of app_main: cleared is 0xAABB.                                *)
Valid(part) == part.cleared = MARK

-----------------------------------------------------------------------------
(* A radio fresh from the factory, or one that has been used.              *)
Init ==
  /\ \E part \in {All(ERASED), Content(1)} :
       DEVICE = part /\ DEVICE1 = part
  /\ stations = IF Valid(DEVICE) THEN "saved" ELSE "none"
  /\ g_device = All(ZERO)
  /\ muxDevice = NOBODY
  /\ pc = [t \in Processes |-> IF t = MAIN THEN "power_on" ELSE "off"]
  /\ cell = [t \in Processes |-> 1]
  /\ buf = [t \in Processes |-> All(ERASED)]
  /\ ret = [t \in Processes |-> "idle"]
  /\ changes = 1 /\ losses = 0 /\ past = {}

Goto(t, here, there) == pc[t] = here /\ pc' = [pc EXCEPT ![t] = there]

(* Everything in RAM is gone.                                              *)
PowerLoss ==
  /\ losses < MaxLosses /\ losses' = losses + 1
  /\ g_device' = All(ZERO)
  /\ muxDevice' = NOBODY
  /\ pc' = [t \in Processes |-> IF t = MAIN THEN "power_on" ELSE "off"]
  /\ cell' = [t \in Processes |-> 1]
  /\ buf' = [t \in Processes |-> All(ERASED)]
  /\ ret' = [t \in Processes |-> "idle"]
  /\ UNCHANGED <<flash, changes, past>>

-----------------------------------------------------------------------------
(* A task begins to save, or to copy, while another is in the middle of    *)
(* what it must not run beside.                                            *)
Beside(t, others) ==
  past' = past \cup (IF \E u \in Processes \ {t} : pc[u] \in others THEN {"beside"} ELSE {})
Copying == {"copy_erase", "copy_write"}

(* Mutants: saveDeviceSettings does not wait for the mutex, or gives up    *)
(* when another task saves.                                                *)
SaveTakeAnyway(t) ==
  /\ Goto(t, "save", "save_erase")
  /\ muxDevice' = t
  /\ UNCHANGED <<flash, g_device, cell, buf, ret, changes, losses, past>>

SaveTakeOrGiveUp(t) ==
  /\ IF muxDevice = NOBODY
       THEN Goto(t, "save", "save_erase") /\ muxDevice' = t
       ELSE Goto(t, "save", "idle") /\ UNCHANGED muxDevice
  /\ UNCHANGED <<flash, g_device, cell, buf, ret, changes, losses, past>>

(* saveDeviceSettings and saveDeviceSettingsVolume: the first waits for    *)
(* the mutex, the second gives up if it is taken.                          *)
SaveTake(t) ==
  /\ Goto(t, "save", "save_erase")
  /\ muxDevice = NOBODY /\ muxDevice' = t
  /\ UNCHANGED <<flash, g_device, cell, buf, ret, changes, losses, past>>

VolumeTake(t) ==
  /\ IF muxDevice = NOBODY
       THEN Goto(t, "volume", "save_erase") /\ muxDevice' = t /\ UNCHANGED past
       ELSE /\ Goto(t, "volume", "idle") /\ UNCHANGED muxDevice
            /\ past' = past \cup {"dropped"}
  /\ UNCHANGED <<flash, g_device, cell, buf, ret, changes, losses>>

(* saveDeviceSettingsInt: erase, program from g_device, give the mutex.    *)
SaveErase(t) ==
  /\ Beside(t, Copying)
  /\ Goto(t, "save_erase", "save_write")
  /\ DEVICE' = All(ERASED)
  /\ UNCHANGED <<DEVICE1, stations, g_device, muxDevice, cell, buf, ret,
                 changes, losses>>

(* Mutant: one cell too many. *)
NextCellOneMore(t, here, done) ==
  IF cell[t] <= Len(Cell)
    THEN pc[t] = here /\ cell' = [cell EXCEPT ![t] = @ + 1] /\ UNCHANGED pc
    ELSE Goto(t, here, done) /\ cell' = [cell EXCEPT ![t] = 1]

(* One cell more; after the last one the task goes on to `done'.           *)
NextCell(t, here, done) ==
  IF cell[t] < Len(Cell)
    THEN pc[t] = here /\ cell' = [cell EXCEPT ![t] = @ + 1] /\ UNCHANGED pc
    ELSE Goto(t, here, done) /\ cell' = [cell EXCEPT ![t] = 1]

Programmed(part, c, from) == [part EXCEPT ![c] = @ \cap from[c]]

SaveWrite(t) ==
  /\ NextCell(t, "save_write", "save_give")
  /\ DEVICE' = Programmed(DEVICE, Cell[cell[t]], g_device)
  /\ UNCHANGED <<DEVICE1, stations, g_device, muxDevice, buf, ret, changes,
                 losses, past>>

SaveGive(t) ==
  /\ Goto(t, "save_give", ret[t])
  /\ muxDevice' = NOBODY
  /\ ret' = [ret EXCEPT ![t] = "idle"]
  /\ UNCHANGED <<flash, g_device, cell, buf, changes, losses, past>>

(* copyDeviceSettings, without the mutex.                                  *)
CopyRead(t) ==
  /\ Beside(t, Copying \cup {"save_write"})
  /\ Goto(t, "copy", "copy_erase")
  /\ buf' = [buf EXCEPT ![t] = DEVICE]
  /\ UNCHANGED <<flash, g_device, muxDevice, cell, ret, changes, losses>>

CopyErase(t) ==
  /\ Goto(t, "copy_erase", "copy_write")
  /\ DEVICE1' = All(ERASED)
  /\ UNCHANGED <<DEVICE, stations, g_device, muxDevice, cell, buf, ret, changes,
                 losses, past>>

CopyWrite(t) ==
  /\ NextCell(t, "copy_write", "idle")
  /\ DEVICE1' = Programmed(DEVICE1, Cell[cell[t]], buf[t])
  /\ buf' = IF cell[t] = Len(Cell) THEN [buf EXCEPT ![t] = All(ERASED)] ELSE buf
  /\ UNCHANGED <<DEVICE, stations, g_device, muxDevice, ret, changes, losses, past>>

(* eeEraseAll: zeroes over both partitions and over the stations.  app_main *)
(* goes on with default settings.                                          *)
EraseAllDEVICE(t) ==
  /\ Goto(t, "erase", "erase1")
  /\ DEVICE' = All(ZERO)
  /\ UNCHANGED <<DEVICE1, stations, g_device, muxDevice, cell, buf, ret, changes,
                 losses, past>>

EraseAllDEVICE1(t) ==
  /\ Goto(t, "erase1", "erase2")
  /\ DEVICE1' = All(ZERO)
  /\ UNCHANGED <<DEVICE, stations, g_device, muxDevice, cell, buf, ret, changes,
                 losses, past>>

EraseAllStations(t) ==
  /\ Goto(t, "erase2", IF t = MAIN THEN "defaults" ELSE "idle")
  /\ stations' = "none"
  /\ UNCHANGED <<DEVICE, DEVICE1, g_device, muxDevice, cell, buf, ret, changes,
                 losses, past>>

-----------------------------------------------------------------------------
(* Mutant: app_main makes the safe copy before it looks at the marker. *)
PartitionsInitCopies ==
  /\ g_device' = DEVICE
  /\ DEVICE1' = DEVICE
  /\ Goto(MAIN, "power_on", IF Valid(DEVICE) THEN "palette" ELSE "restore")
  /\ UNCHANGED <<DEVICE, stations, muxDevice, cell, buf, ret, changes, losses, past>>

(* app_main, until the tasks are created.                                  *)
PartitionsInit ==
  /\ g_device' = DEVICE
  /\ Goto(MAIN, "power_on", IF Valid(DEVICE) THEN "palette" ELSE "restore")
  /\ UNCHANGED <<flash, muxDevice, cell, buf, ret, changes, losses, past>>

(* restoreDeviceSettings.                                                  *)
RestoreErase ==
  /\ Goto(MAIN, "restore", "restore_write")
  /\ buf' = [buf EXCEPT ![MAIN] = DEVICE1]
  /\ DEVICE' = All(ERASED)
  /\ UNCHANGED <<DEVICE1, stations, g_device, muxDevice, cell, ret, changes,
                 losses, past>>

RestoreWrite ==
  /\ NextCell(MAIN, "restore_write", "restored")
  /\ DEVICE' = Programmed(DEVICE, Cell[cell[MAIN]], buf[MAIN])
  /\ UNCHANGED <<DEVICE1, stations, g_device, muxDevice, buf, ret, changes,
                 losses, past>>

Restored ==
  /\ g_device' = DEVICE
  /\ Goto(MAIN, "restored", IF Valid(DEVICE) THEN "palette" ELSE "erase")
  /\ buf' = [buf EXCEPT ![MAIN] = All(ERASED)]
  /\ UNCHANGED <<flash, muxDevice, cell, ret, changes, losses, past>>

Defaults ==
  /\ Goto(MAIN, "defaults", "save")
  /\ g_device' = [DEVICE EXCEPT !.cleared = MARK, !.conf = {0}]
  /\ ret' = [ret EXCEPT ![MAIN] = "palette"]
  /\ UNCHANGED <<flash, muxDevice, cell, buf, changes, losses, past>>

(* initDeviceDisplayPalette.                                               *)
Palette ==
  /\ \/ /\ g_device.palette = MARK
        /\ Goto(MAIN, "palette", "copy")
        /\ UNCHANGED <<g_device, ret>>
     \/ /\ g_device.palette # MARK
        /\ Goto(MAIN, "palette", "save")
        /\ g_device' = [g_device EXCEPT !.palette = MARK]
        /\ ret' = [ret EXCEPT ![MAIN] = "copy"]
  /\ UNCHANGED <<flash, muxDevice, cell, buf, changes, losses, past>>

NewVersion ==
  /\ changes < MaxChanges + 1 /\ changes' = changes + 1
  /\ g_device' = [g_device EXCEPT !.conf = {changes + 1}]

(* Settings that make no sense get their defaults, each with a save: the   *)
(* brightness of the LED, the speed of the UART, the names of Bluetooth.   *)
Check ==
  /\ \E t \in Tasks : pc[t] = "off"
  /\ Goto(MAIN, "idle", "save")
  /\ NewVersion
  /\ UNCHANGED <<flash, muxDevice, cell, buf, ret, losses, past>>

TasksStart ==
  /\ pc[MAIN] = "idle" /\ \E t \in Tasks : pc[t] = "off"
  /\ pc' = [t \in Processes |-> "idle"]
  /\ UNCHANGED <<flash, g_device, muxDevice, cell, buf, ret, changes, losses, past>>

-----------------------------------------------------------------------------
(* A task changes a setting and saves, for the backup also copies; stops   *)
(* the player after the volume was changed; erases all.                    *)
Change(t) ==
  /\ "change" \in Ops
  /\ Goto(t, "idle", "save")
  /\ NewVersion
  /\ UNCHANGED <<flash, muxDevice, cell, buf, ret, losses, past>>

Backup(t) ==
  /\ "backup" \in Ops
  /\ Goto(t, "idle", "save")
  /\ NewVersion
  /\ ret' = [ret EXCEPT ![t] = "copy"]
  /\ UNCHANGED <<flash, muxDevice, cell, buf, losses, past>>

SaveVolume(t) ==
  /\ "volume" \in Ops
  /\ Goto(t, "idle", "volume")
  /\ NewVersion
  /\ UNCHANGED <<flash, muxDevice, cell, buf, ret, losses, past>>

SysErase(t) ==
  /\ "erase" \in Ops
  /\ Goto(t, "idle", "erase")
  /\ changes < MaxChanges + 1 /\ changes' = changes + 1
  /\ past' = past \cup {"erase"}
  /\ UNCHANGED <<flash, g_device, muxDevice, cell, buf, ret, losses>>

Save(t) == SaveTake(t) \/ SaveErase(t) \/ SaveWrite(t) \/ SaveGive(t)
Copy(t) == CopyRead(t) \/ CopyErase(t) \/ CopyWrite(t)
EraseAll(t) == EraseAllDEVICE(t) \/ EraseAllDEVICE1(t) \/ EraseAllStations(t)
Boot == PartitionsInit \/ RestoreErase \/ RestoreWrite \/ Restored \/ Defaults
        \/ Palette \/ Check \/ TasksStart
Command(t) == Change(t) \/ Backup(t) \/ SaveVolume(t) \/ SysErase(t)
Running(t) == Save(t) \/ VolumeTake(t) \/ Copy(t) \/ EraseAll(t)

Next ==
  \/ PowerLoss
  \/ Boot
  \/ \E t \in Processes : Running(t)
  \/ \E t \in Tasks : Command(t)

Spec == Init /\ [][Next]_vars

-----------------------------------------------------------------------------
PartitionType == [cleared : SUBSET Version, conf : SUBSET Version, palette : SUBSET Version]

(* Every variable stays in its domain: no cell holds bits that are not in  *)
(* it, and the mutex has at most one holder.                               *)
TypeOK ==
  /\ {DEVICE, DEVICE1, g_device} \subseteq PartitionType
  /\ stations \in {"saved", "none"}
  /\ muxDevice \in Processes \cup {NOBODY}
  /\ pc \in [Processes -> {"off", "power_on", "restore", "restore_write", "restored",
                          "defaults", "palette", "idle", "save", "volume", "save_erase",
                          "save_write", "save_give", "copy", "copy_erase", "copy_write",
                          "erase", "erase1", "erase2"}]
  /\ cell \in [Processes -> DOMAIN Cell]
  /\ buf \in [Processes -> PartitionType]
  /\ ret \in [Processes -> {"idle", "copy", "palette"}]
  /\ changes \in Version /\ losses \in 0..MaxLosses
  /\ past \subseteq {"erase", "beside", "dropped"}

Started == pc[MAIN] = "idle"

(* The power may go at any moment, again and again: the stations are not   *)
(* cleared unless the user asks for it (app_main clears them only when     *)
(* neither partition is valid), or has backed up beside another task.      *)
StationsSurvive ==
  [][stations' # stations => past \cap {"erase", "beside"} # {}]_vars

(* "try to restore the config from the saved one" (app_main.c): also a     *)
(* backup at any moment leaves one to restore.                             *)
BackupIsSafe == [][stations' # stations => "erase" \in past]_vars

(* When no task is at work, the flash holds the settings of the RAM, unless *)
(* a save of the volume was dropped: a change made while another task      *)
(* saves is saved too.                                                     *)
ChangesAreSaved ==
  (\A t \in Processes : pc[t] = "idle") /\ past \cap {"erase", "dropped"} = {}
    => DEVICE.conf = g_device.conf

(* Tasks that save at the same time never program a version over another:  *)
(* no bit is lost that was not cleared by a command.                       *)
VersionsNeverMix ==
  Started /\ muxDevice = NOBODY /\ past \cap {"erase", "beside"} = {}
    => DEVICE.conf # ZERO

(* cleared is "0xAABB if initialized" (eeprom.h): the settings of a radio  *)
(* that has started are settings, not erased flash.                        *)
SettingsInitialized == Started => g_device.conf # ERASED

=============================================================================
