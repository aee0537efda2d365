-------------------------------- MODULE Stations --------------------------------
(***************************************************************************)
(* The list of stations in flash (eeprom.c): saveMultiStation writes a run *)
(* of stations, sector by sector; a sector is read, erased 10 ms later,    *)
(* and written back with the new stations in it, without a lock; the radio *)
(* may lose power at any moment.  And wsStationNext and wsStationPrev      *)
(* (webclient.c), which look for the next station that is not empty.       *)
(*                                                                         *)
(* Tasks save, one station is one value, a sector StaPer of them.  What is *)
(* written to flash that is not erased leaves neither the old nor the new. *)
(***************************************************************************)
EXTENDS Integers

CONSTANTS
  StaTasks,     \* the tasks that save: the web server's workers, the command interface
  StaSectors,   \* 16
  StaPer,       \* 16 stations in a sector
  StaStations,  \* the stations that are saved
  StaEmpty, StaErased, StaGarbled, \* no station; flash that is erased; nonsense
  StaIds,       \* numbers of a first station that the web page sends
  StaNumbers,   \* how many are saved
  StaWidth,     \* 256, number is an uint8_t
  StaSaves      \* bound: saves and looks for a station

NBSTATIONS == StaSectors * StaPer - 1
StaSlots == 0..NBSTATIONS

ASSUME StaAssumption ==
  /\ StaSectors \in Nat \ {0} /\ StaPer \in Nat \ {0} /\ StaSaves \in Nat
  /\ StaIds \subseteq Nat /\ StaNumbers \subseteq 0..(StaWidth - 1)
  /\ StaWidth \in Nat /\ StaWidth > NBSTATIONS

VARIABLES
  staFlash, \* the partition
  staSaver, \* of each task: where it is, and its locals
  staScan,  \* wsStationNext and wsStationPrev: "none", or which is looking
  staCurrent,
  staSaved, \* what was last to be saved at each place, sector by sector
  staBroken,\* sectors where two saves met, or one was cut by a crash
  staCount

staVars == <<staFlash, staSaver, staScan, staCurrent, staSaved, staBroken, staCount>>

(* asked is the places the whole run is to be saved at.                    *)
StaIdle == [at |-> "idle", position |-> 0, number |-> 0, value |-> StaEmpty,
            asked |-> {}, buf |-> <<>>]

StaInit ==
  /\ staFlash = [p \in StaSlots |-> StaEmpty] /\ staSaved = staFlash
  /\ staSaver = [t \in StaTasks |-> StaIdle]
  /\ staScan = "none" /\ staCurrent = 0
  /\ staBroken = {} /\ staCount = 0

-----------------------------------------------------------------------------
SectorOf(position) == position \div StaPer
SlotsOf(sector) == {p \in StaSlots : SectorOf(p) = sector}
StaGoes(t, at) == staSaver' = [staSaver EXCEPT ![t].at = at]

(* A task is between the reading of a sector and its writing. *)
Within(t, sector) ==
  staSaver[t].at \in {"erase", "write"} /\ SectorOf(staSaver[t].position) = sector
Meets(t, sector) == \E u \in StaTasks \ {t} : Within(u, sector)

(* Mutant: any number is taken for the place of a station. *)
FirstPlaceAny(id) == id

(* /setStation: the number of the first one is taken if it is one of a     *)
(* station; uid stays 0 otherwise.                                         *)
FirstPlace(id) == IF id < NBSTATIONS THEN id ELSE 0

StaAsks(position, number, value) ==
  [at |-> "clamp", position |-> position, number |-> number, value |-> value,
   buf |-> <<>>,
   asked |-> {p \in 0..(NBSTATIONS - 1) : position <= p /\ p < position + number}]
StaSave(t) ==
  /\ staSaver[t].at = "idle"
  /\ staCount < StaSaves
  /\ \E id \in StaIds, number \in StaNumbers, value \in StaStations :
       staSaver' = [staSaver EXCEPT ![t] = StaAsks(FirstPlace(id), number, value)]
  /\ staCount' = staCount + 1
  /\ UNCHANGED <<staFlash, staScan, staCurrent, staSaved, staBroken>>

(* saveMultiStation: what does not fit is left out, one by one.  It would  *)
(* have no end behind the last place: the count wraps.                     *)
StaClamp(t) ==
  /\ staSaver[t].at = "clamp"
  /\ LET last == staSaver[t].position + staSaver[t].number - 1
     IN IF last > NBSTATIONS - 1
        THEN staSaver' = [staSaver EXCEPT ![t].number = (@ - 1) % StaWidth]
        ELSE StaGoes(t, IF staSaver[t].number = 0 THEN "idle" ELSE "malloc")
  /\ UNCHANGED <<staFlash, staScan, staCurrent, staSaved, staBroken, staCount>>

(* eeSetData: there is memory for a sector, or, ten times, there is not.   *)
StaMalloc(t) ==
  /\ staSaver[t].at = "malloc"
  /\ \E at \in {"read", "idle"} : StaGoes(t, at)
  /\ UNCHANGED <<staFlash, staScan, staCurrent, staSaved, staBroken, staCount>>

StaRead(t) ==
  /\ staSaver[t].at = "read"
  /\ LET sector == SectorOf(staSaver[t].position)
     IN /\ staSaver' = [staSaver EXCEPT ![t].at = "erase",
                          ![t].buf = [p \in SlotsOf(sector) |-> staFlash[p]]]
        /\ staBroken' = IF Meets(t, sector) THEN staBroken \cup {sector} ELSE staBroken
  /\ UNCHANGED <<staFlash, staScan, staCurrent, staSaved, staCount>>

StaErase(t) ==
  /\ staSaver[t].at = "erase"
  /\ LET sector == SectorOf(staSaver[t].position)
     IN staFlash' = [p \in StaSlots |-> IF SectorOf(p) = sector THEN StaErased
                                        ELSE staFlash[p]]
  /\ StaGoes(t, "write")
  /\ UNCHANGED <<staScan, staCurrent, staSaved, staBroken, staCount>>

(* Mutant: what was saved already is counted as still to be saved. *)
RestUncounted(saver) ==
  LET max == StaPer - (saver.position % StaPer)
  IN IF max >= saver.number THEN StaIdle
     ELSE [saver EXCEPT !.at = "read", !.position = @ + max, !.buf = <<>>]

(* The stations of this save that are in the sector; the rest of the run   *)
(* begins where the next sector does.                                      *)
Overwritten(position, number) ==
  {p \in SlotsOf(SectorOf(position)) : position <= p /\ p < position + number}
Rest(saver) ==
  LET max == StaPer - (saver.position % StaPer)
  IN IF max >= saver.number THEN StaIdle
     ELSE [saver EXCEPT !.at = "read", !.position = @ + max, !.number = @ - max,
                        !.buf = <<>>]

StaProgrammed(old, new) == IF old \in {StaErased, new} THEN new ELSE StaGarbled
StaWrite(t) ==
  /\ staSaver[t].at = "write"
  /\ LET new == Overwritten(staSaver[t].position, staSaver[t].number)
         buf == [p \in DOMAIN staSaver[t].buf |->
                   IF p \in new THEN staSaver[t].value ELSE staSaver[t].buf[p]]
     IN /\ staFlash' = [p \in StaSlots |-> IF p \in DOMAIN buf
                                           THEN StaProgrammed(staFlash[p], buf[p])
                                           ELSE staFlash[p]]
        /\ staSaved' = [p \in StaSlots |->
             IF p \in DOMAIN buf \cap staSaver[t].asked THEN staSaver[t].value
             ELSE staSaved[p]]
  /\ staSaver' = [staSaver EXCEPT ![t] = Rest(@)]
  /\ UNCHANGED <<staScan, staCurrent, staBroken, staCount>>

(* Power is lost. *)
StaCrash ==
  /\ staSaver' = [t \in StaTasks |-> StaIdle] /\ staSaver' # staSaver
  /\ staScan' = "none"
  /\ staBroken' = staBroken \cup
       {SectorOf(staSaver[t].position) : t \in {u \in StaTasks : staSaver[u].at = "write"}}
  /\ UNCHANGED <<staFlash, staCurrent, staSaved, staCount>>

-----------------------------------------------------------------------------
StaLook ==
  /\ staScan = "none"
  /\ staCount < StaSaves
  /\ staScan' \in {"next", "prev"}
  /\ staCount' = staCount + 1
  /\ UNCHANGED <<staFlash, staSaver, staCurrent, staSaved, staBroken>>

(* wsStationNext: getStation of the next position, of the first behind the *)
(* last one, is tried. *)
Follows(current) == IF current + 1 >= NBSTATIONS THEN 0 ELSE current + 1

StaScanNext ==
  /\ staScan = "next"
  /\ staCurrent' = Follows(staCurrent)
  /\ staScan' = IF staFlash[staCurrent'] = StaEmpty THEN "next" ELSE "none"
  /\ UNCHANGED <<staFlash, staSaver, staSaved, staBroken, staCount>>

StaScanPrev ==
  /\ staScan = "prev"
  /\ IF staCurrent = 0
     THEN staScan' = "none" /\ UNCHANGED staCurrent
     ELSE /\ staCurrent' = staCurrent - 1
          /\ staScan' = IF staFlash[staCurrent'] = StaEmpty THEN "prev" ELSE "none"
  /\ UNCHANGED <<staFlash, staSaver, staSaved, staBroken, staCount>>

StaSaverStep(t) ==
  StaClamp(t) \/ StaMalloc(t) \/ StaRead(t) \/ StaErase(t) \/ StaWrite(t)
StaScanStep == StaScanNext \/ StaScanPrev
StaNext ==
  \/ \E t \in StaTasks : StaSave(t) \/ StaSaverStep(t)
  \/ StaCrash \/ StaLook \/ StaScanStep
StaFairness == WF_staVars(StaScanStep) /\ \A t \in StaTasks : WF_staVars(StaSaverStep(t))
StaSpec == StaInit /\ [][StaNext]_staVars /\ StaFairness

-----------------------------------------------------------------------------
(* Every variable stays in its domain. *)
StaTypeOK ==
  /\ staFlash \in [StaSlots -> StaStations \cup {StaEmpty, StaErased, StaGarbled}]
  /\ \A t \in StaTasks :
       /\ staSaver[t].at \in {"idle", "clamp", "malloc", "read", "erase", "write"}
       /\ staSaver[t].number \in 0..(StaWidth - 1)
  /\ staScan \in {"none", "next", "prev"} /\ staCurrent \in StaSlots
  /\ staBroken \subseteq 0..(StaSectors - 1)

(* Every station is what was last saved at its place, across saves of runs *)
(* that begin and end anywhere, and whatever is saved in other sectors at  *)
(* the same time; but for the sectors in which two saves met or a save was *)
(* cut, and those that are just being written.                             *)
StaKept ==
  \A p \in StaSlots :
    \/ staFlash[p] = staSaved[p]
    \/ SectorOf(p) \in staBroken
    \/ \E t \in StaTasks : staSaver[t].at = "write" /\ Within(t, SectorOf(p))

(* A save comes to its end, whatever number the web page sends and however *)
(* much of its run does not fit, since /setStation lets no place pass from *)
(* which the count of saveMultiStation would wrap; and so does a look for a*)
(* station, but among empty ones only, which goes on for ever.             *)
StaAtRest ==
  /\ \A t \in StaTasks : staSaver[t].at = "idle"
  /\ staScan = "none" \/ \A p \in StaSlots : staFlash[p] = StaEmpty
StaReturns == ~StaAtRest ~> StaAtRest
=============================================================================
