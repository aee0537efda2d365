------------------------------ MODULE Hls_proofs ------------------------------
(***************************************************************************)
(* Proofs about HTTP live streaming (hls.c).                               *)
(*                                                                         *)
(* The play lists of hls_play: for lists, windows and lags of every        *)
(* length, all sections and discontinuities, and any number of fetches     *)
(* that fail.                                                              *)
(*                                                                         *)
(* The requests of http_get and the bodies it gives away: for any answers, *)
(* chunks and extensions, cut and dropped anywhere.                        *)
(* The lemmas about sequences come from Receive_proofs.                    *)
(***************************************************************************)
EXTENDS HlsPlay, HlsHttp, Receive_proofs, TLAPS

-----------------------------------------------------------------------------
(* The play lists.                                                         *)
Fetching == {"init", "media"}
InList == {"segments"} \cup Fetching

HlsResults == {"none", "ENDED", "STOPPED", "ERROR"}
HlsRecord ==
  [at : {"refresh", "done", "segments", "init", "media"}, last : Nat, seq : Nat,
   join : Nat, ends : BOOLEAN, errors : 0..5, fetched : Nat,
   result : HlsResults]

HlsTypes ==
  /\ newest \in 1..HlsLast /\ last_seq \in 0..newest /\ tried \in 0..HlsLast
  /\ ended \in BOOLEAN /\ have_last \in BOOLEAN /\ big \in BOOLEAN
  /\ gap \in BOOLEAN /\ stale \in BOOLEAN /\ hlsStop \in BOOLEAN
  /\ hls \in HlsRecord
  /\ maps \in HlsMaps /\ timeline \in HlsTimelines
  /\ fails \in 0..HlsFails

(* Where hls_play is in its list, and what it knows of the last segment.   *)
PlaceInv ==
  /\ hls.last <= newest
  /\ hls.at \in InList => hls.last >= 1 /\ hls.seq >= 1
  /\ hls.at \in Fetching => hls.join <= hls.seq /\ hls.seq <= hls.last /\ tried = hls.seq
  /\ have_last => last_seq >= 1
  /\ ~stale => (have_last <=> last_seq > 0)

(* The next segment follows the last one heard, or begins the list.        *)
OrderInv ==
  ~stale /\ last_seq > 0 /\ hls.at \in InList =>
    /\ hls.join <= last_seq + 1
    /\ \/ hls.seq <= hls.join /\ hls.join = last_seq + 1
       \/ hls.seq = last_seq + 1
       \/ hls.seq > last_seq /\ hls.seq = FirstOf(hls.last)

(* last_map is the map of the section, if it is that of the segment that   *)
(* was tried last; and that is the last one heard or the next.             *)
SectionInv ==
  /\ section = NoSection => last_map = "none" /\ ~have_last
  /\ hls.at = "media" => last_map = maps[hls.seq]
  /\ hls.at = "init" => last_map # maps[hls.seq]
  /\ ~gap /\ ~stale =>
       /\ have_last => tried = last_seq \/ tried = last_seq + 1
       /\ have_last /\ tried = last_seq => last_map = "none" \/ last_map = maps[tried]
       /\ tried > 0 /\ last_map # "none" /\ last_map = maps[tried]
            => section = SectionOf(tried)

(* As long as nothing of a list has been fetched, what has been passed in  *)
(* it was heard before.                                                    *)
EndedInv ==
  /\ hls.ends => ended /\ hls.last = newest
  /\ hls.at \in InList /\ hls.fetched = 0 =>
       /\ hls.seq = FirstOf(hls.last) \/ hls.seq <= hls.join
       /\ hls.join <= hls.last \/ hls.join = last_seq + 1
  /\ hls.result = "ENDED" => hls.at = "done" /\ ended /\ last_seq = newest

HlsInv == HlsTypes /\ PlaceInv /\ OrderInv /\ SectionInv /\ EndedInv
-----------------------------------------------------------------------------
(* One action at a time: the types.                                        *)
LEMMA Bounds == HlsLast \in Nat /\ HlsLast >= 1 /\ HlsWindow \in Nat /\ HlsWindow >= 1
                /\ HlsLag \in Nat /\ HlsBack \in Nat /\ HlsBack >= 2 /\ HlsFails \in Nat
  BY HlsAssumption

LEMMA TypesInit == HlsInit => HlsTypes
<1> SUFFICES ASSUME HlsInit PROVE HlsTypes OBVIOUS
<1>1. hls \in HlsRecord BY DEF HlsInit, HlsStarts, HlsRecord, HlsResults
<1>2. newest \in 1..HlsLast /\ last_seq \in 0..newest /\ tried \in 0..HlsLast
  BY Bounds DEF HlsInit, HlsStarts
<1>3. maps \in HlsMaps /\ timeline \in HlsTimelines BY Zenon DEF HlsInit, HlsStarts
<1>4. fails \in 0..HlsFails BY Bounds DEF HlsInit, HlsStarts
<1>5. QED BY <1>1, <1>2, <1>3, <1>4 DEF HlsInit, HlsStarts, HlsTypes

(* What the steps of hls_play do to its locals.                            *)
LEMMA EndFields ==
  ASSUME hls \in HlsRecord, NEW result \in HlsResults, HlsEnd(result)
  PROVE  /\ hls' \in HlsRecord
         /\ hls'.at = "done" /\ hls'.result = result /\ hls'.last = hls.last
         /\ hls'.seq = hls.seq /\ hls'.join = hls.join /\ hls'.ends = hls.ends
         /\ hls'.fetched = hls.fetched
  BY DEF HlsRecord, HlsEnd

LEMMA AgainFields ==
  ASSUME hls \in HlsRecord, NEW errors \in 0..5,
         hls' = [hls EXCEPT !.at = "refresh", !.errors = errors]
  PROVE  /\ hls' \in HlsRecord
         /\ hls'.at = "refresh" /\ hls'.result = hls.result /\ hls'.last = hls.last
         /\ hls'.seq = hls.seq /\ hls'.join = hls.join /\ hls'.ends = hls.ends
         /\ hls'.fetched = hls.fetched
  BY DEF HlsRecord

LEMMA FailedFields ==
  ASSUME hls \in HlsRecord, NEW limit \in 1..6, HlsFailed(limit)
  PROVE  /\ hls' \in HlsRecord
         /\ hls'.at \in {"done", "refresh"} /\ hls'.result \in {hls.result, "ERROR"}
         /\ hls'.last = hls.last
         /\ hls'.seq = hls.seq /\ hls'.join = hls.join /\ hls'.ends = hls.ends
         /\ hls'.fetched = hls.fetched
<1>1. CASE hls.errors + 1 >= limit BY <1>1, EndFields DEF HlsFailed, HlsResults
<1>2. CASE ~(hls.errors + 1 >= limit)
  <2>1. hls.errors + 1 \in 0..5 BY <1>2 DEF HlsRecord
  <2>2. hls' = [hls EXCEPT !.at = "refresh", !.errors = hls.errors + 1] BY <1>2 DEF HlsFailed
  <2>3. QED BY <2>1, <2>2, AgainFields
<1>3. QED BY <1>1, <1>2

Reads(last, seq, join, ends) ==
  hls' = [hls EXCEPT !.at = "segments", !.last = last, !.seq = seq,
                     !.join = join, !.ends = ends, !.fetched = 0]

LEMMA ListFields ==
  ASSUME hls \in HlsRecord, NEW last \in Nat, NEW seq \in Nat, NEW join \in Nat,
         NEW ends \in BOOLEAN, Reads(last, seq, join, ends)
  PROVE  /\ hls' \in HlsRecord
         /\ hls'.at = "segments" /\ hls'.result = hls.result /\ hls'.last = last
         /\ hls'.seq = seq /\ hls'.join = join /\ hls'.ends = ends
         /\ hls'.fetched = 0
  BY DEF HlsRecord, Reads

LEMMA AtFields ==
  ASSUME hls \in HlsRecord, NEW at \in {"init", "media"}, hls' = [hls EXCEPT !.at = at]
  PROVE  /\ hls' \in HlsRecord
         /\ hls'.at = at /\ hls'.result = hls.result /\ hls'.last = hls.last
         /\ hls'.seq = hls.seq /\ hls'.join = hls.join /\ hls'.ends = hls.ends
         /\ hls'.fetched = hls.fetched
  BY DEF HlsRecord

LEMMA HeardFields ==
  ASSUME hls \in HlsRecord, hls' = [hls EXCEPT !.seq = @ + 1]
  PROVE  /\ hls' \in HlsRecord
         /\ hls'.at = hls.at /\ hls'.result = hls.result /\ hls'.last = hls.last
         /\ hls'.seq = hls.seq + 1 /\ hls'.join = hls.join /\ hls'.ends = hls.ends
         /\ hls'.fetched = hls.fetched
  BY DEF HlsRecord

LEMMA PlayedFields ==
  ASSUME hls \in HlsRecord,
         hls' = [hls EXCEPT !.at = "segments", !.seq = @ + 1, !.fetched = @ + 1]
  PROVE  /\ hls' \in HlsRecord
         /\ hls'.at = "segments" /\ hls'.result = hls.result /\ hls'.last = hls.last
         /\ hls'.seq = hls.seq + 1 /\ hls'.join = hls.join /\ hls'.ends = hls.ends
         /\ hls'.fetched = hls.fetched + 1
<1>1. hls.seq + 1 \in Nat /\ hls.fetched + 1 \in Nat BY DEF HlsRecord
<1>2. hls' = [hls EXCEPT !.at = "segments", !.seq = hls.seq + 1, !.fetched = hls.fetched + 1]
  OBVIOUS
<1>3. QED BY <1>1, <1>2 DEF HlsRecord

-----------------------------------------------------------------------------
(* The play list that is fetched: where it is joined.                      *)
LEMMA FirstNat ==
  ASSUME NEW b \in Nat, b >= 1
  PROVE  FirstOf(b) \in Nat /\ 1 <= FirstOf(b) /\ FirstOf(b) <= b
  BY Bounds DEF FirstOf

LEMMA JoinNat ==
  ASSUME HlsTypes, NEW b \in Nat, b >= 1, NEW e \in BOOLEAN, big' \in BOOLEAN
  PROVE  /\ JoinAt(FirstOf(b), b, e) \in Nat
         /\ have_last /\ ~Restarted(b) => JoinAt(FirstOf(b), b, e) = last_seq + 1
         /\ ~(have_last /\ ~Restarted(b)) => JoinAt(FirstOf(b), b, e) <= b
<1> DEFINE a == FirstOf(b)
<1>1. a \in Nat /\ 1 <= a /\ a <= b BY FirstNat
<1>2. last_seq \in Nat BY Bounds DEF HlsTypes
<1> HIDE DEF a
<1>3. /\ JoinAt(a, b, e) \in Nat
      /\ have_last /\ ~Restarted(b) => JoinAt(a, b, e) = last_seq + 1
      /\ ~(have_last /\ ~Restarted(b)) => JoinAt(a, b, e) <= b
  BY <1>1, <1>2, Bounds DEF JoinAt
<1>4. QED BY <1>3 DEF a

LEMMA ListsNat ==
  ASSUME HlsTypes, NEW b \in Lists
  PROVE  b \in Nat /\ 1 <= b /\ b <= newest /\ newest \in Nat
  BY Bounds DEF HlsTypes, Lists

LEMMA RefreshFields ==
  ASSUME HlsTypes, HlsRefresh
  PROVE  \E b \in Lists :
           LET e == ended /\ b = newest
           IN /\ hls' \in HlsRecord
              /\ hls'.at = "segments" /\ hls'.result = hls.result /\ hls'.last = b
              /\ hls'.seq = FirstOf(b) /\ hls'.join = JoinAt(FirstOf(b), b, e)
              /\ hls'.ends = e /\ hls'.fetched = 0
              /\ have_last' = (have_last /\ ~Restarted(b))
              /\ stale' = (stale \/ b < newest)
<1>1. PICK b \in Lists :
        /\ stale' = (stale \/ b < newest)
        /\ hls' = [hls EXCEPT !.at = "segments", !.last = b, !.seq = FirstOf(b),
                     !.join = JoinAt(FirstOf(b), b, ended /\ b = newest),
                     !.ends = ended /\ b = newest, !.fetched = 0]
        /\ have_last' = (have_last /\ ~Restarted(b))
  BY Zenon DEF HlsRefresh
<1> DEFINE e == ended /\ b = newest
           f == FirstOf(b)
           j == JoinAt(f, b, e)
<1>2. b \in Nat /\ b >= 1 BY ListsNat
<1>3. f \in Nat BY <1>2, FirstNat
<1>4. e \in BOOLEAN OBVIOUS
<1>5. big' \in BOOLEAN BY DEF HlsRefresh
<1> HIDE DEF e
<1>6. j \in Nat BY <1>2, <1>4, <1>5, JoinNat
<1> HIDE DEF f, j
<1>7. Reads(b, f, j, e) BY <1>1, Zenon DEF Reads, f, j, e
<1>8. hls \in HlsRecord BY DEF HlsTypes
<1>9. /\ hls' \in HlsRecord
      /\ hls'.at = "segments" /\ hls'.result = hls.result /\ hls'.last = b
      /\ hls'.seq = f /\ hls'.join = j /\ hls'.ends = e
      /\ hls'.fetched = 0
  BY <1>2, <1>3, <1>4, <1>6, <1>7, <1>8, ListFields, Zenon
<1>10. QED BY <1>1, <1>9, Zenon DEF f, j, e

LEMMA TailFields ==
  ASSUME HlsTypes, HlsRefreshTail
  PROVE  \E b \in Lists :
           /\ hls' \in HlsRecord
           /\ hls'.at = "segments" /\ hls'.result = hls.result /\ hls'.last = b
           /\ hls'.seq = last_seq + 1 /\ hls'.join = last_seq + 1
           /\ hls'.ends = (ended /\ b = newest) /\ hls'.fetched = 0
           /\ last_seq \in FirstOf(b)..b
           /\ stale' = (stale \/ b < newest)
<1>1. PICK b \in Lists :
        /\ last_seq \in FirstOf(b)..b
        /\ stale' = (stale \/ b < newest)
        /\ hls' = [hls EXCEPT !.at = "segments", !.last = b, !.seq = last_seq + 1,
                     !.join = last_seq + 1, !.ends = ended /\ b = newest, !.fetched = 0]
  BY Zenon DEF HlsRefreshTail
<1> DEFINE e == ended /\ b = newest
           n == last_seq + 1
<1>2. b \in Nat BY ListsNat
<1>3. n \in Nat BY Bounds DEF HlsTypes
<1>4. e \in BOOLEAN OBVIOUS
<1>5. hls \in HlsRecord BY DEF HlsTypes
<1> HIDE DEF e, n
<1>6. Reads(b, n, n, e) BY <1>1, Zenon DEF Reads, e, n
<1>7. /\ hls' \in HlsRecord
      /\ hls'.at = "segments" /\ hls'.result = hls.result /\ hls'.last = b
      /\ hls'.seq = n /\ hls'.join = n /\ hls'.ends = e
      /\ hls'.fetched = 0
  BY <1>2, <1>3, <1>4, <1>5, <1>6, ListFields, Zenon
<1>8. QED BY <1>1, <1>7, Zenon DEF e, n

-----------------------------------------------------------------------------
(* Every step keeps the types.                                             *)
LEMMA TypesNext == HlsTypes /\ PlaceInv /\ [HlsNext]_hlsVars => HlsTypes'
<1> SUFFICES ASSUME HlsTypes, PlaceInv, [HlsNext]_hlsVars PROVE HlsTypes' OBVIOUS
<1>0. hls \in HlsRecord /\ hls.seq \in Nat /\ hls.last \in Nat BY DEF HlsTypes, HlsRecord
<1>1. CASE HlsRefreshStopped
  <2>1. hls' \in HlsRecord
    BY <1>0, <1>1, EndFields DEF HlsRefreshStopped, HlsResults
  <2>2. /\ newest' \in 1..HlsLast /\ last_seq' \in 0..newest' /\ tried' \in 0..HlsLast
        /\ fails' \in 0..HlsFails
    BY <1>0, <1>1, Bounds DEF HlsRefreshStopped, HlsTypes, hlsServer, hlsContext, hlsHistory
  <2>3. QED BY <1>1, <2>1, <2>2 DEF HlsRefreshStopped, HlsTypes, hlsServer, hlsContext, hlsHistory
<1>2. CASE HlsRefreshFails
  <2>1. hls' \in HlsRecord
    BY <1>0, <1>2, FailedFields DEF HlsRefreshFails
  <2>2. /\ newest' \in 1..HlsLast /\ last_seq' \in 0..newest' /\ tried' \in 0..HlsLast
        /\ fails' \in 0..HlsFails
    BY <1>0, <1>2, Bounds DEF HlsRefreshFails, HlsTypes, hlsServer, hlsContext, hlsHistory
  <2>3. QED BY <1>2, <2>1, <2>2 DEF HlsRefreshFails, HlsTypes, hlsServer, hlsContext, hlsHistory
<1>3. CASE HlsMaster
  <2>1. hls' \in HlsRecord
    BY <1>0, <1>3, FailedFields DEF HlsMaster
  <2>2. /\ newest' \in 1..HlsLast /\ last_seq' \in 0..newest' /\ tried' \in 0..HlsLast
        /\ fails' \in 0..HlsFails
    BY <1>0, <1>3, Bounds DEF HlsMaster, HlsTypes, hlsServer, hlsContext, hlsHistory
  <2>3. QED BY <1>3, <2>1, <2>2 DEF HlsMaster, HlsTypes, hlsServer, hlsContext, hlsHistory
<1>4. CASE HlsRefresh
  <2>1. hls' \in HlsRecord
    BY <1>0, <1>4, RefreshFields DEF HlsRefresh
  <2>2. /\ newest' \in 1..HlsLast /\ last_seq' \in 0..newest' /\ tried' \in 0..HlsLast
        /\ fails' \in 0..HlsFails
    BY <1>0, <1>4, Bounds DEF HlsRefresh, HlsTypes, hlsServer, hlsContext, hlsHistory
  <2>3. QED BY <1>4, <2>1, <2>2 DEF HlsRefresh, HlsTypes, hlsServer, hlsContext, hlsHistory
<1>5. CASE HlsRefreshTail
  <2>1. hls' \in HlsRecord
    BY <1>0, <1>5, TailFields DEF HlsRefreshTail
  <2>2. /\ newest' \in 1..HlsLast /\ last_seq' \in 0..newest' /\ tried' \in 0..HlsLast
        /\ fails' \in 0..HlsFails
    BY <1>0, <1>5, Bounds DEF HlsRefreshTail, HlsTypes, hlsServer, hlsContext, hlsHistory
  <2>3. QED BY <1>5, <2>1, <2>2 DEF HlsRefreshTail, HlsTypes, hlsServer, hlsContext, hlsHistory
<1>6. CASE HlsListEnds
  <2>1. hls' \in HlsRecord
    BY <1>0, <1>6, EndFields, AgainFields DEF HlsListEnds, HlsResults
  <2>2. /\ newest' \in 1..HlsLast /\ last_seq' \in 0..newest' /\ tried' \in 0..HlsLast
        /\ fails' \in 0..HlsFails
    BY <1>0, <1>6, Bounds DEF HlsListEnds, HlsTypes, hlsServer, hlsContext, hlsHistory
  <2>3. QED BY <1>6, <2>1, <2>2 DEF HlsListEnds, HlsTypes, hlsServer, hlsContext, hlsHistory
<1>7. CASE HlsSegmentHeard
  <2>1. hls' \in HlsRecord
    BY <1>0, <1>7, HeardFields DEF HlsSegmentHeard
  <2>2. /\ newest' \in 1..HlsLast /\ last_seq' \in 0..newest' /\ tried' \in 0..HlsLast
        /\ fails' \in 0..HlsFails
    BY <1>0, <1>7, Bounds DEF HlsSegmentHeard, HlsTypes, hlsServer, hlsContext, hlsHistory
  <2>3. QED BY <1>7, <2>1, <2>2 DEF HlsSegmentHeard, HlsTypes, hlsServer, hlsContext, hlsHistory
<1>8. CASE HlsSegmentStopped
  <2>1. hls' \in HlsRecord
    BY <1>0, <1>8, EndFields DEF HlsSegmentStopped, HlsResults
  <2>2. /\ newest' \in 1..HlsLast /\ last_seq' \in 0..newest' /\ tried' \in 0..HlsLast
        /\ fails' \in 0..HlsFails
    BY <1>0, <1>8, Bounds DEF HlsSegmentStopped, HlsTypes, hlsServer, hlsContext, hlsHistory
  <2>3. QED BY <1>8, <2>1, <2>2 DEF HlsSegmentStopped, HlsTypes, hlsServer, hlsContext, hlsHistory
<1>9. CASE HlsSegment
  <2>1. hls' \in HlsRecord
    BY <1>0, <1>9, AtFields DEF HlsSegment
  <2>2. /\ newest' \in 1..HlsLast /\ last_seq' \in 0..newest' /\ tried' \in 0..HlsLast
        /\ fails' \in 0..HlsFails
    BY <1>0, <1>9, Bounds DEF HlsSegment, ListEnds, PlaceInv, HlsTypes, hlsServer, hlsContext, hlsHistory
  <2>3. QED BY <1>9, <2>1, <2>2 DEF HlsSegment, HlsTypes, hlsServer, hlsContext, hlsHistory
<1>10. CASE HlsFetchInit
  <2>1. hls' \in HlsRecord
    BY <1>0, <1>10, EndFields, FailedFields, AtFields DEF HlsFetchInit, HlsResults
  <2>2. /\ newest' \in 1..HlsLast /\ last_seq' \in 0..newest' /\ tried' \in 0..HlsLast
        /\ fails' \in 0..HlsFails
    BY <1>0, <1>10, Bounds DEF HlsFetchInit, HlsTypes, hlsServer, hlsContext, hlsHistory
  <2>3. QED BY <1>10, <2>1, <2>2 DEF HlsFetchInit, HlsTypes, hlsServer, hlsContext, hlsHistory
<1>11. CASE HlsFetchMedia
  <2>1. hls' \in HlsRecord
    BY <1>0, <1>11, EndFields, FailedFields, PlayedFields DEF HlsFetchMedia, HlsResults
  <2>2. /\ newest' \in 1..HlsLast /\ last_seq' \in 0..newest' /\ tried' \in 0..HlsLast
        /\ fails' \in 0..HlsFails
    BY <1>0, <1>11, Bounds DEF HlsFetchMedia, PlaceInv, Fetching, HlsTypes, hlsServer, hlsContext, hlsHistory
  <2>3. QED BY <1>11, <2>1, <2>2 DEF HlsFetchMedia, HlsTypes, hlsServer, hlsContext, hlsHistory
<1>12. CASE HlsServer
  <2>1. hls' \in HlsRecord
    BY <1>0, <1>12 DEF HlsServer
  <2>2. /\ newest' \in 1..HlsLast /\ last_seq' \in 0..newest' /\ tried' \in 0..HlsLast
        /\ fails' \in 0..HlsFails
    BY <1>0, <1>12, Bounds DEF HlsServer, HlsTypes, hlsServer, hlsContext, hlsHistory
  <2>3. QED BY <1>12, <2>1, <2>2 DEF HlsServer, HlsTypes, hlsServer, hlsContext, hlsHistory
<1>13. CASE HlsStop
  <2>1. hls' \in HlsRecord
    BY <1>0, <1>13 DEF HlsStop
  <2>2. /\ newest' \in 1..HlsLast /\ last_seq' \in 0..newest' /\ tried' \in 0..HlsLast
        /\ fails' \in 0..HlsFails
    BY <1>0, <1>13, Bounds DEF HlsStop, HlsTypes, hlsServer, hlsContext, hlsHistory
  <2>3. QED BY <1>13, <2>1, <2>2 DEF HlsStop, HlsTypes, hlsServer, hlsContext, hlsHistory
<1>14. CASE UNCHANGED hlsVars
  BY <1>14 DEF hlsVars, HlsTypes, hlsServer, hlsContext, hlsHistory
<1>15. QED
  BY <1>1, <1>2, <1>3, <1>4, <1>5, <1>6, <1>7, <1>8, <1>9, <1>10, <1>11, <1>12, <1>13, <1>14
  DEF HlsNext, HlsStep
-----------------------------------------------------------------------------
(* Every step keeps the rest: the steps that leave a list.                 *)
LEMMA Numbers ==
  HlsTypes => /\ newest \in Nat /\ last_seq \in Nat /\ tried \in Nat /\ last_seq <= newest
              /\ newest <= HlsLast
              /\ hls \in HlsRecord /\ hls.seq \in Nat /\ hls.last \in Nat
              /\ hls.join \in Nat /\ hls.fetched \in Nat
              /\ have_last \in BOOLEAN /\ stale \in BOOLEAN /\ gap \in BOOLEAN
  BY Bounds DEF HlsTypes, HlsRecord

LEMMA HasMap ==
  ASSUME HlsTypes, NEW s \in 1..HlsLast
  PROVE  maps[s] # "none" /\ SectionOf(s) # NoSection
  BY HlsAssumption DEF HlsTypes, SectionOf, NoSection

LEMMA Leaves ==
  ASSUME HlsInv, hls'.at \in {"refresh", "done"}, hls'.last = hls.last,
         hls'.ends = hls.ends, hls'.result # "ENDED",
         UNCHANGED <<hlsServer, have_last, last_seq, last_map, tried, gap, stale>>,
         section' = section \/ (hls.at = "init" /\ section' = SectionOf(hls.seq))
  PROVE  PlaceInv' /\ OrderInv' /\ SectionInv' /\ EndedInv'
<1> USE Numbers DEF HlsInv, hlsServer
<1>1. PlaceInv' BY DEF PlaceInv, InList, Fetching
<1>2. OrderInv' BY DEF OrderInv, InList, Fetching
<1>3. EndedInv' BY DEF EndedInv, InList, Fetching
<1>4. CASE section' = section BY <1>1, <1>2, <1>3, <1>4 DEF SectionInv, SectionOf
<1>5. CASE hls.at = "init" /\ section' = SectionOf(hls.seq)
  <2>1. tried = hls.seq /\ hls.seq \in 1..HlsLast BY <1>5, Bounds DEF PlaceInv, InList, Fetching
  <2>2. section' # NoSection BY <2>1, <1>5, HasMap
  <2>3. last_map # maps[tried] BY <2>1, <1>5 DEF SectionInv
  <2>4. SectionInv' BY <2>2, <2>3 DEF SectionInv
  <2>5. QED BY <2>4, <1>1, <1>2, <1>3
<1>6. QED BY <1>4, <1>5

(* ... and those that read one.                                            *)
LEMMA RefreshKeeps ==
  ASSUME HlsInv, HlsRefresh PROVE PlaceInv' /\ OrderInv' /\ SectionInv' /\ EndedInv'
<1> USE Numbers DEF HlsInv, hlsServer
<1>1. PICK b \in Lists :
        /\ hls'.at = "segments" /\ hls'.result = hls.result /\ hls'.last = b
        /\ hls'.seq = FirstOf(b)
        /\ hls'.join = JoinAt(FirstOf(b), b, ended /\ b = newest)
        /\ hls'.ends = (ended /\ b = newest) /\ hls'.fetched = 0
        /\ have_last' = (have_last /\ ~Restarted(b))
        /\ stale' = (stale \/ b < newest)
  BY RefreshFields, Zenon
<1>2. UNCHANGED <<hlsServer, last_seq, last_map, section, tried, gap>> /\ hls.at = "refresh"
  BY DEF HlsRefresh
<1>3. b \in Nat /\ 1 <= b /\ b <= newest BY ListsNat
<1>4. 1 <= FirstOf(b) /\ FirstOf(b) \in Nat BY <1>3, FirstNat
<1>5. big' \in BOOLEAN BY DEF HlsRefresh
<1>6. /\ hls'.join \in Nat
      /\ have_last /\ ~Restarted(b) => hls'.join = last_seq + 1
      /\ ~(have_last /\ ~Restarted(b)) => hls'.join <= b
  BY <1>1, <1>3, <1>5, JoinNat
<1>7. PlaceInv' BY <1>1, <1>2, <1>3, <1>4 DEF PlaceInv, InList, Fetching, Restarted
<1>8. OrderInv'
  <2>1. ~stale' /\ last_seq > 0 => have_last /\ ~Restarted(b)
    BY <1>1, <1>3 DEF PlaceInv, Restarted
  <2>2. FirstOf(hls.last)' = FirstOf(b) BY <1>1 DEF FirstOf
  <2>3. QED BY <1>1, <1>2, <1>4, <1>6, <2>1, <2>2 DEF OrderInv
<1>9. SectionInv' BY <1>1, <1>2 DEF SectionInv, SectionOf
<1>10. EndedInv'
  <2>1. FirstOf(hls.last)' = FirstOf(b) BY <1>1 DEF FirstOf
  <2>2. QED BY <1>1, <1>2, <1>6, <2>1 DEF EndedInv
<1>11. QED BY <1>7, <1>8, <1>9, <1>10

LEMMA TailKeeps ==
  ASSUME HlsInv, HlsRefreshTail PROVE PlaceInv' /\ OrderInv' /\ SectionInv' /\ EndedInv'
<1> USE Numbers DEF HlsInv, hlsServer
<1>1. PICK b \in Lists :
        /\ hls'.at = "segments" /\ hls'.result = hls.result /\ hls'.last = b
        /\ hls'.seq = last_seq + 1 /\ hls'.join = last_seq + 1
        /\ hls'.ends = (ended /\ b = newest) /\ hls'.fetched = 0
        /\ last_seq \in FirstOf(b)..b
        /\ stale' = (stale \/ b < newest)
  BY TailFields, Zenon
<1>2. /\ UNCHANGED <<hlsServer, have_last, last_seq, last_map, section, tried, gap>>
      /\ hls.at = "refresh"
  BY DEF HlsRefreshTail, hlsContext
<1>3. b \in Nat /\ 1 <= b /\ b <= newest BY ListsNat
<1>4. PlaceInv' BY <1>1, <1>2, <1>3 DEF PlaceInv, InList, Fetching
<1>5. OrderInv' BY <1>1, <1>2 DEF OrderInv
<1>6. SectionInv' BY <1>1, <1>2 DEF SectionInv, SectionOf
<1>7. EndedInv'
  <2>1. FirstOf(hls.last)' = FirstOf(b) BY <1>1 DEF FirstOf
  <2>2. hls'.ends => ended' /\ hls'.last = newest' BY <1>1, <1>2
  <2>3. hls'.result # "ENDED" BY <1>1, <1>2 DEF EndedInv
  <2>4. QED BY <1>1, <1>2, <2>1, <2>2, <2>3 DEF EndedInv
<1>8. QED BY <1>4, <1>5, <1>6, <1>7

(* At the end of a list of which nothing was fetched, all was heard.       *)
LEMMA ListEndsKeeps ==
  ASSUME HlsInv, HlsListEnds PROVE PlaceInv' /\ OrderInv' /\ SectionInv' /\ EndedInv'
<1> USE Numbers DEF HlsInv
<1>1. /\ UNCHANGED <<hlsServer, have_last, last_seq, last_map, section, tried, gap, stale>>
      /\ hls.at = "segments" /\ hls.seq > hls.last
  BY DEF HlsListEnds, ListEnds, hlsContext, hlsHistory
<1>2. CASE hls.ends /\ hls.fetched = 0
  <2>1. /\ hls'.at = "done" /\ hls'.result = "ENDED" /\ hls'.last = hls.last
        /\ hls'.seq = hls.seq /\ hls'.join = hls.join /\ hls'.ends = hls.ends
    BY <1>2, EndFields DEF HlsListEnds, HlsResults
  <2>2. FirstOf(hls.last) <= hls.last BY <1>1, FirstNat DEF PlaceInv, InList
  <2>3. hls.seq <= hls.join BY <1>1, <1>2, <2>2 DEF EndedInv, InList
  <2>4. ended /\ hls.last = newest /\ hls.join = last_seq + 1
    BY <1>1, <1>2, <2>3 DEF EndedInv, InList
  <2>5. last_seq = newest BY <1>1, <2>3, <2>4
  <2>6. PlaceInv' BY <1>1, <2>1 DEF PlaceInv, InList, Fetching, hlsServer
  <2>7. OrderInv' BY <2>1 DEF OrderInv, InList, Fetching
  <2>8. SectionInv' BY <1>1, <2>1 DEF SectionInv, SectionOf, hlsServer
  <2>9. EndedInv' BY <1>1, <2>1, <2>4, <2>5 DEF EndedInv, InList, Fetching, hlsServer
  <2>10. QED BY <2>6, <2>7, <2>8, <2>9
<1>3. CASE ~(hls.ends /\ hls.fetched = 0)
  <2>1. /\ hls'.at = "refresh" /\ hls'.result = hls.result /\ hls'.last = hls.last
        /\ hls'.ends = hls.ends
    BY <1>3, AgainFields DEF HlsListEnds
  <2>2. hls'.result # "ENDED" BY <1>1, <2>1 DEF EndedInv
  <2>3. QED BY <1>1, <2>1, <2>2, Leaves
<1>4. QED BY <1>2, <1>3

LEMMA HeardKeeps ==
  ASSUME HlsInv, HlsSegmentHeard PROVE PlaceInv' /\ OrderInv' /\ SectionInv' /\ EndedInv'
<1> USE Numbers DEF HlsInv, hlsServer
<1>1. /\ UNCHANGED <<hlsServer, have_last, last_seq, last_map, section, tried, gap, stale>>
      /\ hls.at = "segments" /\ hls.seq < hls.join /\ hls.seq <= hls.last
  BY DEF HlsSegmentHeard, ListEnds, hlsContext, hlsHistory
<1>2. /\ hls'.at = hls.at /\ hls'.result = hls.result /\ hls'.last = hls.last
      /\ hls'.seq = hls.seq + 1 /\ hls'.join = hls.join /\ hls'.ends = hls.ends
      /\ hls'.fetched = hls.fetched
  BY HeardFields DEF HlsSegmentHeard
<1>3. PlaceInv' BY <1>1, <1>2 DEF PlaceInv, InList, Fetching
<1>4. FirstOf(hls.last)' = FirstOf(hls.last) BY <1>2 DEF FirstOf
<1>5. OrderInv' BY <1>1, <1>2, <1>4 DEF OrderInv
<1>6. SectionInv' BY <1>1, <1>2 DEF SectionInv, SectionOf
<1>7. EndedInv' BY <1>1, <1>2, <1>4 DEF EndedInv, InList
<1>8. QED BY <1>3, <1>5, <1>6, <1>7

(* A segment is tried: the section fits it, or is fetched first.           *)
LEMMA SegmentKeeps ==
  ASSUME HlsInv, HlsSegment PROVE PlaceInv' /\ OrderInv' /\ SectionInv' /\ EndedInv'
<1> USE Numbers DEF HlsInv, hlsServer
<1> DEFINE s == hls.seq
<1>1. /\ UNCHANGED <<hlsServer, have_last, last_seq, section, stale>>
      /\ hls.at = "segments" /\ s <= hls.last /\ s >= hls.join
      /\ last_map' = LastMap(s) /\ tried' = s
      /\ gap' = (gap \/ (section # NoSection /\ ~Succeeds(s)))
  BY DEF HlsSegment, ListEnds
<1>2. /\ hls'.at = IF last_map' # maps[s] THEN "init" ELSE "media"
      /\ hls'.result = hls.result /\ hls'.last = hls.last
      /\ hls'.seq = s /\ hls'.join = hls.join /\ hls'.ends = hls.ends
      /\ hls'.fetched = hls.fetched
  BY AtFields DEF HlsSegment
<1>3. PlaceInv' BY <1>1, <1>2 DEF PlaceInv, InList, Fetching
<1>4. FirstOf(hls.last)' = FirstOf(hls.last) BY <1>2 DEF FirstOf
<1>5. OrderInv' BY <1>1, <1>2, <1>4 DEF OrderInv, InList
<1>6. EndedInv' BY <1>1, <1>2, <1>4 DEF EndedInv, InList, Fetching
<1>7. last_map' \in {"none", last_map} BY <1>1 DEF LastMap
<1>8. ASSUME ~gap', ~stale PROVE have_last => s = last_seq + 1
  <2>1. have_last => section # NoSection /\ last_seq > 0 BY DEF SectionInv, PlaceInv
  <2>2. have_last => s # last_seq BY <1>1, <1>8, <2>1 DEF OrderInv, InList
  <2>3. have_last => s = tried \/ s = last_seq + 1 BY <1>1, <1>8, <2>1 DEF Succeeds
  <2>4. ~gap BY <1>1, <1>8
  <2>5. QED BY <1>8, <2>2, <2>3, <2>4 DEF SectionInv
<1>9. ASSUME ~gap', ~stale, last_map' # "none", last_map' = maps[s]
      PROVE  section = SectionOf(s)
  <2>1. ~gap /\ last_map = last_map' BY <1>1, <1>7, <1>9
  <2>2. section # NoSection BY <1>9, <2>1 DEF SectionInv
  <2>3. Succeeds(s) BY <1>1, <1>9, <2>2
  <2>4. s > 0 BY <1>1 DEF PlaceInv, InList
  <2>5. CASE s = tried
    BY <1>9, <2>1, <2>4, <2>5 DEF SectionInv
  <2>6. CASE s # tried
    <3>1. have_last /\ s = last_seq + 1 /\ last_seq >= 1 BY <2>3, <2>6 DEF Succeeds, PlaceInv
    <3>2. tried = last_seq /\ last_map = maps[tried]
      BY <1>9, <2>1, <2>6, <3>1 DEF SectionInv
    <3>3. section = SectionOf(tried) BY <1>9, <2>1, <3>1, <3>2 DEF SectionInv
    <3>4. ~Discontinuity(s) BY <1>1, <1>9, <3>1 DEF LastMap
    <3>5. s > 1 /\ s - 1 = tried BY <3>1, <3>2
    <3>6. timeline[s] = timeline[tried] BY <3>4, <3>5 DEF Discontinuity
    <3>7. maps[s] = maps[tried] BY <1>9, <2>1, <3>2
    <3>8. QED BY <3>3, <3>6, <3>7 DEF SectionOf
  <2>7. QED BY <2>5, <2>6
<1>10. SectionInv'
  <2>1. section' = NoSection => last_map' = "none" /\ ~have_last'
    BY <1>1, <1>7 DEF SectionInv
  <2>2. hls'.at = "media" => last_map' = maps'[hls'.seq] BY <1>1, <1>2
  <2>3. hls'.at = "init" => last_map' # maps'[hls'.seq] BY <1>1, <1>2
  <2>4. SectionOf(tried)' = SectionOf(s) BY <1>1 DEF SectionOf
  <2>5. ASSUME ~gap', ~stale'
        PROVE  /\ have_last' => tried' = last_seq' + 1
               /\ tried' > 0 /\ last_map' # "none" /\ last_map' = maps'[tried']
                    => section' = SectionOf(tried)'
    BY <1>1, <1>8, <1>9, <2>4, <2>5
  <2>6. QED BY <1>1, <2>1, <2>2, <2>3, <2>5 DEF SectionInv
<1>11. QED BY <1>3, <1>5, <1>6, <1>10

LEMMA FetchInitKeeps ==
  ASSUME HlsInv, HlsFetchInit PROVE PlaceInv' /\ OrderInv' /\ SectionInv' /\ EndedInv'
<1> USE Numbers DEF HlsInv
<1> DEFINE s == hls.seq
<1>1. /\ UNCHANGED <<hlsServer, have_last, last_seq, tried, gap, stale>>
      /\ hls.at = "init"
  BY DEF HlsFetchInit, hlsHistory
<1>2. hls.result # "ENDED" BY <1>1 DEF EndedInv
<1>3. CASE /\ last_map' = last_map /\ section' \in {section, SectionOf(s)}
           /\ HlsEnd("STOPPED") \/ HlsFailed(4)
  <2>1. /\ hls'.at \in {"refresh", "done"} /\ hls'.last = hls.last
        /\ hls'.ends = hls.ends /\ hls'.result # "ENDED"
    BY <1>2, <1>3, EndFields, FailedFields DEF HlsResults
  <2>2. QED BY <1>1, <1>3, <2>1, Leaves
<1>4. CASE /\ last_map' = maps[s] /\ section' = SectionOf(s)
           /\ hls' = [hls EXCEPT !.at = "media"]
  <2>1. /\ hls'.at = "media" /\ hls'.result = hls.result /\ hls'.last = hls.last
        /\ hls'.seq = s /\ hls'.join = hls.join /\ hls'.ends = hls.ends
        /\ hls'.fetched = hls.fetched
    BY <1>4, AtFields
  <2>2. tried = s /\ s \in 1..HlsLast BY <1>1, Bounds DEF PlaceInv, InList, Fetching
  <2>3. SectionOf(s) # NoSection BY <2>2, HasMap
  <2>4. UNCHANGED <<newest, ended, maps, timeline>> BY <1>1 DEF hlsServer
  <2>5. PlaceInv' BY <1>1, <2>1, <2>4 DEF PlaceInv, InList, Fetching
  <2>6. FirstOf(hls.last)' = FirstOf(hls.last) BY <2>1 DEF FirstOf
  <2>7. OrderInv' BY <1>1, <2>1, <2>6 DEF OrderInv, InList, Fetching
  <2>8. EndedInv' BY <1>1, <2>1, <2>4, <2>6 DEF EndedInv, InList, Fetching
  <2>9. SectionOf(tried)' = SectionOf(s) BY <1>1, <2>2, <2>4 DEF SectionOf
  <2>10. SectionInv' BY <1>1, <1>4, <2>1, <2>2, <2>3, <2>4, <2>9 DEF SectionInv
  <2>11. QED BY <2>5, <2>7, <2>8, <2>10
<1>5. QED BY <1>1, <1>3, <1>4 DEF HlsFetchInit

LEMMA FetchMediaKeeps ==
  ASSUME HlsInv, HlsFetchMedia PROVE PlaceInv' /\ OrderInv' /\ SectionInv' /\ EndedInv'
<1> USE Numbers DEF HlsInv
<1> DEFINE s == hls.seq
<1>1. /\ UNCHANGED <<hlsServer, last_map, section, tried, gap, stale>>
      /\ hls.at = "media"
  BY DEF HlsFetchMedia
<1>2. hls.result # "ENDED" BY <1>1 DEF EndedInv
<1>3. CASE UNCHANGED <<have_last, last_seq>> /\ (HlsEnd("STOPPED") \/ HlsFailed(4))
  <2>1. /\ hls'.at \in {"refresh", "done"} /\ hls'.last = hls.last
        /\ hls'.ends = hls.ends /\ hls'.result # "ENDED"
    BY <1>2, <1>3, EndFields, FailedFields DEF HlsResults
  <2>2. QED BY <1>1, <1>3, <2>1, Leaves
<1>4. CASE /\ hls' = [hls EXCEPT !.at = "segments", !.seq = @ + 1, !.fetched = @ + 1]
           /\ have_last' = TRUE /\ last_seq' = s
  <2>1. /\ hls'.at = "segments" /\ hls'.result = hls.result /\ hls'.last = hls.last
        /\ hls'.seq = s + 1 /\ hls'.join = hls.join /\ hls'.ends = hls.ends
        /\ hls'.fetched = hls.fetched + 1
    BY <1>4, PlayedFields
  <2>2. tried = s /\ s \in 1..HlsLast /\ hls.join <= s
    BY <1>1, Bounds DEF PlaceInv, InList, Fetching
  <2>3. maps[s] # "none" /\ last_map = maps[s] BY <1>1, <2>2, HasMap DEF SectionInv
  <2>4. UNCHANGED <<newest, ended, maps, timeline>> BY <1>1 DEF hlsServer
  <2>5. PlaceInv' BY <1>1, <1>4, <2>1, <2>2, <2>4 DEF PlaceInv, InList, Fetching
  <2>6. OrderInv' BY <1>4, <2>1, <2>2 DEF OrderInv
  <2>7. EndedInv' BY <1>1, <2>1, <2>4 DEF EndedInv, InList, Fetching
  <2>8. SectionOf(tried)' = SectionOf(tried) BY <1>1, <2>4 DEF SectionOf
  <2>9. SectionInv' BY <1>1, <1>4, <2>1, <2>2, <2>3, <2>4, <2>8 DEF SectionInv
  <2>10. QED BY <2>5, <2>6, <2>7, <2>9
<1>5. QED BY <1>1, <1>3, <1>4 DEF HlsFetchMedia

LEMMA ServerKeeps ==
  ASSUME HlsInv, HlsServer PROVE PlaceInv' /\ OrderInv' /\ SectionInv' /\ EndedInv'
<1> USE Numbers DEF HlsInv, HlsServer, hlsContext, hlsHistory
<1>1. PlaceInv' BY DEF PlaceInv, InList, Fetching
<1>2. OrderInv' BY DEF OrderInv, FirstOf
<1>3. SectionInv' BY DEF SectionInv, SectionOf
<1>4. EndedInv' BY DEF EndedInv, FirstOf
<1>5. QED BY <1>1, <1>2, <1>3, <1>4

LEMMA StutterKeeps ==
  ASSUME HlsInv, UNCHANGED <<hlsServer, hls, hlsContext, section, hlsHistory>>
  PROVE  PlaceInv' /\ OrderInv' /\ SectionInv' /\ EndedInv'
  BY DEF HlsInv, hlsServer, hlsContext, hlsHistory, PlaceInv, OrderInv, SectionInv,
         EndedInv, FirstOf, SectionOf

LEMMA InvInit == HlsInit => HlsInv
<1> SUFFICES ASSUME HlsInit PROVE HlsInv OBVIOUS
<1>1. /\ hls.at = "refresh" /\ hls.last = 0 /\ hls.ends = FALSE /\ hls.result = "none"
  BY DEF HlsInit, HlsStarts
<1>2. /\ have_last = FALSE /\ last_seq = 0 /\ last_map = "none" /\ tried = 0
  BY DEF HlsInit, HlsStarts
<1>3. HlsTypes BY TypesInit
<1>4. PlaceInv BY <1>1, <1>2, <1>3, Numbers DEF PlaceInv, InList, Fetching
<1>5. OrderInv /\ SectionInv /\ EndedInv
  BY <1>1, <1>2 DEF OrderInv, SectionInv, EndedInv, InList, Fetching
<1>6. QED BY <1>3, <1>4, <1>5 DEF HlsInv

-----------------------------------------------------------------------------
LEMMA RestNext ==
  ASSUME HlsInv, [HlsNext]_hlsVars
  PROVE  PlaceInv' /\ OrderInv' /\ SectionInv' /\ EndedInv'
<1>1. hls.result # "ENDED" \/ hls.at = "done" BY DEF HlsInv, EndedInv
<1>2. hls \in HlsRecord BY DEF HlsInv, HlsTypes
<1>3. CASE HlsRefreshStopped \/ HlsSegmentStopped \/ HlsRefreshFails \/ HlsMaster
  <2>1. /\ UNCHANGED <<hlsServer, have_last, last_seq, last_map, tried, gap, stale, section>>
        /\ hls.at # "done" /\ (HlsEnd("STOPPED") \/ HlsFailed(6) \/ HlsFailed(5))
    BY <1>3 DEF HlsRefreshStopped, HlsSegmentStopped, HlsRefreshFails, HlsMaster,
                hlsContext, hlsHistory
  <2>2. /\ hls'.at \in {"refresh", "done"} /\ hls'.last = hls.last
        /\ hls'.ends = hls.ends /\ hls'.result # "ENDED"
    BY <1>1, <1>2, <2>1, EndFields, FailedFields DEF HlsResults
  <2>3. QED BY <2>1, <2>2, Leaves
<1>4. CASE HlsRefresh BY <1>4, RefreshKeeps
<1>5. CASE HlsRefreshTail BY <1>5, TailKeeps
<1>6. CASE HlsListEnds BY <1>6, ListEndsKeeps
<1>7. CASE HlsSegmentHeard BY <1>7, HeardKeeps
<1>8. CASE HlsSegment BY <1>8, SegmentKeeps
<1>9. CASE HlsFetchInit BY <1>9, FetchInitKeeps
<1>10. CASE HlsFetchMedia BY <1>10, FetchMediaKeeps
<1>11. CASE HlsServer BY <1>11, ServerKeeps
<1>12. CASE HlsStop BY <1>12, StutterKeeps DEF HlsStop
<1>13. CASE UNCHANGED hlsVars BY <1>13, StutterKeeps DEF hlsVars
<1>14. QED
  BY <1>3, <1>4, <1>5, <1>6, <1>7, <1>8, <1>9, <1>10, <1>11, <1>12, <1>13 DEF HlsNext, HlsStep

LEMMA InvNext == HlsInv /\ [HlsNext]_hlsVars => HlsInv'
  BY TypesNext, RestNext DEF HlsInv

(* The invariant holds for ever.                                           *)
THEOREM HlsInvariant == HlsSpec => []HlsInv
  BY InvInit, InvNext, PTL DEF HlsSpec

(* Every variable stays in its domain, the count of errors below its limit *)
(* in particular.                                                          *)
THEOREM HlsTypeCorrect == HlsSpec => []HlsTypeOK
<1>1. HlsInv => HlsTypeOK
  BY Bounds DEF HlsInv, HlsTypes, HlsTypeOK, HlsRecord
<1>2. QED BY <1>1, HlsInvariant, PTL

(* Only HlsFetchMedia counts a segment as fetched, and it has followed the *)
(* last one, or begun a list that no longer had that.                      *)
LEMMA OrderStep ==
  ASSUME HlsInv, [HlsNext]_hlsVars, hls'.fetched > hls.fetched, last_seq > 0, ~stale
  PROVE  hls.seq > last_seq /\ (hls.seq > last_seq + 1 => FirstOf(hls.last) >= hls.seq)
<1> USE Numbers DEF HlsInv
<1>1. CASE HlsFetchMedia
  <2>1. hls.at = "media" BY <1>1 DEF HlsFetchMedia
  <2>2. hls.join <= hls.seq BY <2>1 DEF PlaceInv, Fetching
  <2>3. QED BY <2>1, <2>2 DEF OrderInv, InList, Fetching
<1>2. CASE HlsRefresh
  <2>1. hls'.fetched = 0 BY <1>2, RefreshFields, Zenon
  <2>2. QED BY <2>1
<1>3. CASE HlsRefreshTail
  <2>1. hls'.fetched = 0 BY <1>3, TailFields, Zenon
  <2>2. QED BY <2>1
<1>4. CASE ~(HlsFetchMedia \/ HlsRefresh \/ HlsRefreshTail)
  <2>1. hls'.fetched = hls.fetched
    <3>1. CASE HlsRefreshStopped \/ HlsSegmentStopped \/ HlsRefreshFails \/ HlsMaster
      BY <3>1, EndFields, FailedFields
      DEF HlsRefreshStopped, HlsSegmentStopped, HlsRefreshFails, HlsMaster, HlsResults
    <3>2. CASE HlsListEnds BY <3>2, EndFields, AgainFields DEF HlsListEnds, HlsResults
    <3>3. CASE HlsSegmentHeard BY <3>3, HeardFields DEF HlsSegmentHeard
    <3>4. CASE HlsSegment BY <3>4, AtFields DEF HlsSegment
    <3>5. CASE HlsFetchInit
      BY <3>5, EndFields, FailedFields, AtFields DEF HlsFetchInit, HlsResults
    <3>6. CASE HlsServer \/ HlsStop BY <3>6 DEF HlsServer, HlsStop
    <3>7. CASE UNCHANGED hlsVars BY <3>7 DEF hlsVars
    <3>8. QED BY <1>4, <3>1, <3>2, <3>3, <3>4, <3>5, <3>6, <3>7 DEF HlsNext, HlsStep
  <2>2. QED BY <2>1
<1>5. QED BY <1>1, <1>2, <1>3, <1>4

(* Segments are heard in order, and one is left out only when the list had *)
(* dropped it, whatever fails and is fetched again, unless a list was      *)
(* older than the one before (process_segments).                           *)
THEOREM HlsInOrderHolds == HlsSpec => HlsInOrder
<1>1. HlsInv /\ [HlsNext]_hlsVars
        => [hls'.fetched > hls.fetched /\ last_seq > 0 /\ ~stale
            => /\ hls.seq > last_seq
               /\ hls.seq > last_seq + 1 => FirstOf(hls.last) >= hls.seq]_hlsVars
  BY OrderStep
<1>2. QED BY <1>1, HlsInvariant, PTL DEF HlsSpec, HlsInOrder

(* A segment is fed to a demultiplexer with the section of its timeline,   *)
(* as long as the segments that are tried follow one another.              *)
THEOREM HlsSectionHolds == HlsSpec => []HlsSectionRight
<1>1. HlsInv => HlsSectionRight
  <2> SUFFICES ASSUME HlsInv, hls.at = "media", ~gap, ~stale PROVE section = SectionOf(hls.seq)
    BY DEF HlsSectionRight
  <2>1. tried = hls.seq /\ hls.seq \in 1..HlsLast
    BY Bounds, Numbers DEF HlsInv, PlaceInv, InList, Fetching
  <2>2. last_map = maps[hls.seq] /\ last_map # "none"
    BY <2>1, HasMap DEF HlsInv, SectionInv
  <2>3. QED BY <2>1, <2>2, Numbers DEF HlsInv, SectionInv
<1>2. QED BY <1>1, HlsInvariant, PTL

(* Playing ends by itself only after the last segment of an ended list.    *)
THEOREM HlsEndedHolds == HlsSpec => []HlsEndedIsHeard
<1>1. HlsInv => HlsEndedIsHeard BY DEF HlsInv, EndedInv, HlsEndedIsHeard
<1>2. QED BY <1>1, HlsInvariant, PTL

-----------------------------------------------------------------------------
(* The requests of a call of http_get.                                     *)
HttpFields == {"at", "calls", "kvalid", "reused", "allowed", "redir", "hdr", "rb", "body",
               "done", "result"}
HttpAts == {"idle", "open", "write", "head", "status", "feed"}

(* A kept connection is there at the first request of a call only, and the *)
(* request that is repeated is the first one: where a call stands tells    *)
(* how many it has written.                                                *)
AskedSoFar ==
  CASE http.at = "open" -> IF http.kvalid THEN asked = 0 /\ http.redir = 0
                           ELSE asked <= http.redir + 1
    [] http.at = "write" -> IF http.reused THEN asked = 0 /\ http.redir = 0
                            ELSE asked <= http.redir + 1
    [] http.at \in {"head", "status", "feed"} ->
         IF http.reused THEN asked = 1 /\ http.redir = 0 ELSE asked <= http.redir + 2
    [] OTHER -> asked <= http.redir + 2

HttpAskInv ==
  /\ DOMAIN http = HttpFields
  /\ http.at \in HttpAts /\ http.redir \in 0..3
  /\ http.kvalid \in BOOLEAN /\ http.reused \in BOOLEAN
  /\ http.at \in HttpAts \ {"idle", "open"} => ~http.kvalid
  /\ asked \in Nat
  /\ AskedSoFar

LEMMA AskInit == HttpInit => HttpAskInv
  BY DEF HttpInit, HttpAskInv, AskedSoFar, HttpFields, HttpAts

(* A step that writes no request, on the way or at the end of a call.      *)
LEMMA AskGoesOn ==
  ASSUME HttpAskInv, UNCHANGED asked, DOMAIN http' = HttpFields,
         http'.redir = http.redir, http'.reused = http.reused,
         http'.kvalid = http.kvalid,
         http'.at = http.at \/ {http.at, http'.at} \subseteq {"head", "status", "feed"}
  PROVE  HttpAskInv'
  BY DEF HttpAskInv, AskedSoFar, HttpFields, HttpAts

LEMMA AskReturns ==
  ASSUME HttpAskInv, UNCHANGED asked, DOMAIN http' = HttpFields,
         http'.redir = http.redir, http'.reused = http.reused,
         http'.kvalid \in BOOLEAN, http'.at = "idle"
  PROVE  HttpAskInv'
  BY DEF HttpAskInv, AskedSoFar, HttpFields, HttpAts

LEMMA AskNext == HttpAskInv /\ [HttpNext]_httpVars => HttpAskInv'
<1> SUFFICES ASSUME HttpAskInv, [HttpNext]_httpVars PROVE HttpAskInv' OBVIOUS
<1> USE DEF HttpAt
<1>1. DOMAIN http = HttpFields BY DEF HttpAskInv
<1>2. CASE UNCHANGED http /\ UNCHANGED asked
  BY <1>1, <1>2, AskGoesOn
<1>3. CASE HttpCall
  BY <1>1, <1>3 DEF HttpCall, HttpAskInv, AskedSoFar, HttpFields, HttpAts
<1>4. CASE TakeKept
  BY <1>1, <1>4 DEF TakeKept, HttpAskInv, AskedSoFar, HttpFields, HttpAts
<1>5. CASE OpenNew
  BY <1>1, <1>5 DEF OpenNew, HttpAskInv, AskedSoFar, HttpFields, HttpAts
<1>6. CASE OpenFails
  BY <1>1, <1>6 DEF OpenFails, HttpAskInv, AskedSoFar, HttpFields, HttpAts
<1>7. CASE WriteRequest
  BY <1>1, <1>7 DEF WriteRequest, HttpAskInv, AskedSoFar, HttpFields, HttpAts
<1>8. CASE WriteFails \/ HeadClosed
  <2>1. /\ UNCHANGED asked /\ http.at \in {"write", "head"}
        /\ (http.reused /\ Retry) \/ HttpReturn(-1)
    BY <1>8 DEF WriteFails, HeadClosed
  <2>2. CASE http.reused /\ Retry
    <3>1. /\ DOMAIN http' = HttpFields /\ http'.at = "open"
          /\ http'.redir = http.redir /\ http'.reused = http.reused
          /\ http'.kvalid = http.kvalid
      BY <1>1, <2>2 DEF Retry, HttpFields
    <3>2. ~http.kvalid /\ asked <= 1 /\ http.redir = 0
      BY <2>1, <2>2 DEF HttpAskInv, AskedSoFar, HttpAts
    <3>3. QED BY <2>1, <3>1, <3>2 DEF HttpAskInv, AskedSoFar, HttpAts
  <2>3. CASE HttpReturn(-1)
    BY <1>1, <2>1, <2>3, AskReturns DEF HttpReturn, HttpAskInv, HttpFields
  <2>4. QED BY <2>1, <2>2, <2>3
<1>9. CASE StatusRedirect
  <2>1. UNCHANGED asked /\ http.at = "status" BY <1>9 DEF StatusRedirect
  <2>2. CASE /\ http.redir < 3
             /\ http' = [http EXCEPT !.at = "open", !.redir = @ + 1, !.allowed = TRUE]
    <3>1. http' = [http EXCEPT !.at = "open", !.redir = @ + 1, !.allowed = TRUE]
      BY <2>2
    <3>2. /\ DOMAIN http' = HttpFields /\ http'.at = "open"
          /\ http'.redir = http.redir + 1 /\ http'.reused = http.reused
          /\ http'.kvalid = http.kvalid
      BY <1>1, <3>1 DEF HttpFields
    <3>3. ~http.kvalid /\ asked <= http.redir + 2 /\ http.redir + 1 \in 0..3
      BY <2>1, <2>2 DEF HttpAskInv, AskedSoFar, HttpAts
    <3>4. QED BY <2>1, <3>2, <3>3 DEF HttpAskInv, AskedSoFar, HttpAts
  <2>3. CASE HttpReturn(-1)
    BY <1>1, <2>1, <2>3, AskReturns DEF HttpReturn, HttpAskInv, HttpFields
  <2>4. QED BY <1>9, <2>2, <2>3 DEF StatusRedirect
<1>10. CASE HeadStopped \/ HeadTimeout \/ StatusError \/ BodyStopped \/ BodyTimeout
            \/ BodyClosed \/ EndClose
  <2>1. UNCHANGED asked /\ \E c : HttpReturn(c)
    BY <1>10
    DEF HeadStopped, HeadTimeout, StatusError, BodyStopped, BodyTimeout, BodyClosed,
        EndClose, CloseReturn
  <2>2. QED BY <1>1, <2>1, AskReturns DEF HttpReturn, HttpAskInv, HttpFields
<1>11. CASE KeepConnection
  BY <1>1, <1>11, AskReturns DEF KeepConnection, HttpFields
<1>12. CASE HeadReceive
  <2>1. UNCHANGED asked /\ http.at = "head" BY <1>12 DEF HeadReceive
  <2>2. PICK n \in 1..HttpReceive :
          LET h == http.hdr \o HttpReceived(n) IN
          http' = IF EndsHead(h)
                  THEN [http EXCEPT !.at = "status", !.hdr = SubSeq(h, 1, PlaceOfEnd(h)),
                                    !.rb = SubSeq(h, PlaceOfEnd(h) + 1, Len(h))]
                  ELSE [http EXCEPT !.hdr = h]
    BY <1>12 DEF HeadReceive
  <2>3. /\ DOMAIN http' = HttpFields /\ http'.at \in {"head", "status"}
        /\ http'.redir = http.redir /\ http'.reused = http.reused
        /\ http'.kvalid = http.kvalid
    BY <1>1, <2>1, <2>2 DEF HttpFields
  <2>4. QED BY <2>1, <2>3, AskGoesOn
<1>13. CASE StatusOk
  <2>1. /\ DOMAIN http' = HttpFields /\ http'.at = "feed" /\ http.at = "status"
        /\ http'.redir = http.redir /\ http'.reused = http.reused
        /\ http'.kvalid = http.kvalid /\ UNCHANGED asked
    BY <1>1, <1>13 DEF StatusOk, HttpFields
  <2>2. QED BY <2>1, AskGoesOn
<1>14. CASE FeedIdentity \/ FeedSize \/ FeedData \/ FeedCrlf \/ FeedLast
  <2>1. UNCHANGED asked
        /\ \E b, c : Given(b, c) \/ Skipped(b, c)
    BY <1>14 DEF FeedIdentity, FeedSize, FeedData, FeedCrlf, FeedLast
  <2>2. PICK b, c : Given(b, c) \/ Skipped(b, c) BY <2>1
  <2>3. /\ DOMAIN http' = HttpFields /\ http'.at = http.at
        /\ http'.redir = http.redir /\ http'.reused = http.reused
        /\ http'.kvalid = http.kvalid
    BY <1>1, <2>2 DEF Given, Skipped, HttpFields
  <2>4. QED BY <2>1, <2>3, AskGoesOn
<1>15. CASE BodyReceive
  <2>1. /\ DOMAIN http' = HttpFields /\ http'.at = http.at
        /\ http'.redir = http.redir /\ http'.reused = http.reused
        /\ http'.kvalid = http.kvalid /\ UNCHANGED asked
    BY <1>1, <1>15 DEF BodyReceive, HttpFields
  <2>2. QED BY <2>1, AskGoesOn
<1>16. QED
  BY <1>2, <1>3, <1>4, <1>5, <1>6, <1>7, <1>8, <1>9, <1>10, <1>11, <1>12, <1>13, <1>14,
     <1>15
  DEF HttpNext, HttpStep, HttpStop, HttpDrop, httpVars

(* However the server answers, and whenever it drops a connection: a call  *)
(* of http_get (hls.c) writes at most five requests, one, one more for     *)
(* each of three redirections, and one when a kept connection is gone.     *)
THEOREM HttpAsksAtMostHolds == HttpSpec => []HttpAsksAtMost
<1>1. HttpAskInv => HttpAsksAtMost BY DEF HttpAskInv, AskedSoFar, HttpAsksAtMost, HttpAts
<1>2. QED BY <1>1, AskInit, AskNext, PTL DEF HttpSpec

-----------------------------------------------------------------------------
(* What http_get gives away.                                               *)
(* A size, digit by digit.                                                 *)
Sized(ds, n, u) == u = [k \in 0..n |-> IF k = 0 THEN 0 ELSE u[k - 1] * HttpBase + ds[k]]
SizeUpTo(ds) == CHOOSE u : Sized(ds, Len(ds), u)

LEMMA SizedExists ==
  ASSUME NEW n \in Nat, NEW ds PROVE \E u : Sized(ds, n, u)
<1> DEFINE T == {m \in Nat : \E u : Sized(ds, m, u)}
<1>1. 0 \in T
  <2>1. Sized(ds, 0, [k \in 0..0 |-> 0]) BY DEF Sized
  <2>2. QED BY <2>1
<1>2. ASSUME NEW m \in Nat, m \in T PROVE m + 1 \in T
  <2>1. PICK u : Sized(ds, m, u) BY <1>2
  <2> DEFINE next == u[m] * HttpBase + ds[m + 1]
             g == [k \in 0..(m + 1) |-> IF k = m + 1 THEN next ELSE u[k]]
             h == [k \in 0..(m + 1) |-> IF k = 0 THEN 0 ELSE g[k - 1] * HttpBase + ds[k]]
  <2>2. ASSUME NEW k \in 0..(m + 1) PROVE g[k] = h[k]
    <3>1. CASE k = m + 1
      <4>1. k # 0 /\ k - 1 = m /\ m \in 0..(m + 1) /\ m # m + 1 BY <3>1
      <4>2. g[m] = u[m] /\ g[k] = u[m] * HttpBase + ds[k] BY <3>1, <4>1
      <4>3. h[k] = g[k - 1] * HttpBase + ds[k] BY <4>1
      <4> HIDE DEF g, h
      <4>4. QED BY <4>1, <4>2, <4>3
    <3>2. CASE k # m + 1
      <4>1. k \in 0..m BY <3>2
      <4>2. u[k] = IF k = 0 THEN 0 ELSE u[k - 1] * HttpBase + ds[k]
        BY <2>1, <4>1 DEF Sized
      <4>3. k # 0 => k - 1 \in 0..(m + 1) /\ k - 1 # m + 1 BY <4>1
      <4>4. k # 0 => g[k - 1] = u[k - 1] BY <4>3
      <4>5. g[k] = u[k] BY <3>2
      <4>6. h[k] = IF k = 0 THEN 0 ELSE g[k - 1] * HttpBase + ds[k] OBVIOUS
      <4> HIDE DEF g, h
      <4>7. QED BY <4>2, <4>4, <4>5, <4>6
    <3>3. QED BY <3>1, <3>2
  <2>3. g = h
    <3>1. g = [k \in 0..(m + 1) |-> g[k]] /\ h = [k \in 0..(m + 1) |-> h[k]] OBVIOUS
    <3> HIDE DEF g, h
    <3>2. QED BY <2>2, <3>1
  <2>4. Sized(ds, m + 1, g) BY <2>3 DEF Sized
  <2> HIDE DEF g
  <2>5. QED BY <2>4
<1> HIDE DEF T
<1>3. n \in T BY <1>1, <1>2, AllOf
<1>4. QED BY <1>3 DEF T

LEMMA SizeSteps ==
  ASSUME NEW ds \in SizeDigits
  PROVE  /\ Size(ds) = SizeUpTo(ds)[Len(ds)] /\ Size(ds) \in Nat
         /\ SizeUpTo(ds)[0] = 0
         /\ \A k \in 1..Len(ds) :
              SizeUpTo(ds)[k] = SizeUpTo(ds)[k - 1] * HttpBase + ds[k]
         /\ \A k \in 0..Len(ds) : SizeUpTo(ds)[k] \in Nat
<1>1. PICK n \in Nat : n = Len(ds) BY DEF SizeDigits
<1>2. PICK u : u = SizeUpTo(ds) OBVIOUS
<1>3. Sized(ds, n, u) BY <1>1, <1>2, SizedExists DEF SizeUpTo
<1>4. u[0] = 0 /\ \A k \in 1..n : u[k] = u[k - 1] * HttpBase + ds[k]
  <2>1. \A k \in 0..n : u[k] = IF k = 0 THEN 0 ELSE u[k - 1] * HttpBase + ds[k]
    BY <1>3 DEF Sized
  <2>2. QED BY <2>1
<1>5. HttpBase \in Nat BY HttpAssumption DEF HttpAssumption
<1>6. \A k \in 1..n : ds[k] \in Nat BY <1>1, <1>5 DEF SizeDigits
<1> DEFINE T == {m \in Nat : m \in 0..n => u[m] \in Nat}
<1>7. 0 \in T BY <1>4
<1>8. ASSUME NEW m \in Nat, m \in T PROVE m + 1 \in T
  <2> SUFFICES ASSUME m + 1 \in 0..n PROVE u[m + 1] \in Nat OBVIOUS
  <2>1. PICK k \in 1..n : k = m + 1 /\ k - 1 = m OBVIOUS
  <2>2. PICK w \in Nat : w = u[k - 1] BY <1>8, <2>1
  <2>3. PICK d \in Nat : d = ds[k] BY <1>6
  <2>4. u[k] = w * HttpBase + d BY <1>4, <2>2, <2>3
  <2>5. w * HttpBase \in Nat BY <1>5, TimesNat
  <2>6. QED BY <2>1, <2>4, <2>5
<1> HIDE DEF T
<1>9. Nat \subseteq T BY <1>7, <1>8, AllOf
<1>10. \A k \in 0..n : u[k] \in Nat BY <1>9 DEF T
<1>11. Size(ds) = u[n]
  <2>1. Size(ds) = SizeUpTo(ds)[Len(ds)] BY DEF Size, SizeUpTo, Sized
  <2>2. QED BY <1>1, <1>2, <2>1
<1>12. QED BY <1>1, <1>2, <1>4, <1>10, <1>11

(* The bytes of answers, and a chunk of z bytes: d digits, then something  *)
(* that is none, and the end of the line at its byte h.                    *)
HttpBytes ==
  [kind : {"head", "headend", "data", "lf", "cr", "digit", "semicolon", "trailer"},
   value : Nat, of : Answers \cup {NoAnswer}, old : BOOLEAN]
BodyKinds == {"data", "lf", "cr", "digit", "semicolon", "trailer"}
OfBody(s) == s \in Seq(HttpBytes) /\ \A i \in 1..Len(s) : s[i].kind \in BodyKinds

SizeLineOf(s, ds, h) ==
  /\ Len(ds) + 2 <= h
  /\ \A k \in 1..Len(ds) : s[k].kind = "digit" /\ s[k].value = ds[k]
  /\ \/ s[Len(ds) + 1].kind = "semicolon"
     \/ s[Len(ds) + 1].kind = "cr" /\ h = Len(ds) + 2
  /\ \A k \in (Len(ds) + 1)..(h - 1) : s[k].kind # "lf"
  /\ s[h].kind = "lf"
ChunkBody(s, h, z) ==
  /\ OfBody(s) /\ Len(s) = (h + z) + 2
  /\ \A t \in 1..z : s[h + t] = HttpByte("data", t)
  /\ s[(h + z) + 1].kind = "cr" /\ s[(h + z) + 2].kind = "lf"

LEMMA ByteOf ==
  ASSUME NEW kind \in BodyKinds, NEW v \in Nat
  PROVE  HttpByte(kind, v) \in HttpBytes /\ HttpByte(kind, v).kind = kind
         /\ HttpByte(kind, v).value = v
<1>1. NoAnswer \in Answers \cup {NoAnswer} OBVIOUS
<1>2. QED BY <1>1 DEF HttpByte, HttpBytes, BodyKinds

LEMMA DataOf ==
  ASSUME NEW z \in Nat
  PROVE  /\ DataBytes(z) \in Seq(HttpBytes) /\ OfBody(DataBytes(z)) /\ Len(DataBytes(z)) = z
         /\ \A t \in 1..z : DataBytes(z)[t] = HttpByte("data", t)
<1>1. \A t \in 1..z : HttpByte("data", t) \in HttpBytes /\ HttpByte("data", t).kind = "data"
  BY ByteOf DEF BodyKinds
<1>2. DataBytes(z) \in [1..z -> HttpBytes] BY <1>1 DEF DataBytes
<1>3. \A t \in 1..z : DataBytes(z)[t] = HttpByte("data", t) BY DEF DataBytes
<1>4. DataBytes(z) \in Seq(HttpBytes) /\ Len(DataBytes(z)) = z BY <1>2
<1>5. QED BY <1>1, <1>3, <1>4 DEF OfBody, BodyKinds

LEMMA LineEndOf ==
  /\ OfBody(<<CR, LF>>) /\ Len(<<CR, LF>>) = 2
  /\ <<CR, LF>>[1].kind = "cr" /\ <<CR, LF>>[2].kind = "lf"
<1>1. CR \in HttpBytes /\ LF \in HttpBytes /\ CR.kind = "cr" /\ LF.kind = "lf"
  BY ByteOf DEF CR, LF, BodyKinds
<1>2. QED BY <1>1 DEF OfBody, BodyKinds

LEMMA Joint ==
  ASSUME NEW s, NEW t, OfBody(s), OfBody(t)
  PROVE  /\ OfBody(s \o t) /\ Len(s) \in Nat /\ Len(t) \in Nat
         /\ Len(s \o t) = Len(s) + Len(t)
         /\ \A k \in 1..Len(s) : (s \o t)[k] = s[k]
         /\ \A k \in 1..Len(t) : (s \o t)[Len(s) + k] = t[k]
<1>1. s \in Seq(HttpBytes) /\ t \in Seq(HttpBytes) BY DEF OfBody
<1>2. /\ s \o t \in Seq(HttpBytes) /\ Len(s \o t) = Len(s) + Len(t)
      /\ \A k \in 1..Len(s) : (s \o t)[k] = s[k]
      /\ \A k \in 1..Len(t) : (s \o t)[Len(s) + k] = t[k]
  BY <1>1, Concat
<1>3. PICK a \in Nat : a = Len(s) BY <1>1
<1>4. PICK b \in Nat : b = Len(t) BY <1>1
<1>5. PICK c : c = s \o t OBVIOUS
<1>6. ASSUME NEW k \in 1..(a + b) PROVE c[k].kind \in BodyKinds
  <2>1. CASE k <= a
    <3>1. k \in 1..a BY <2>1
    <3>2. c[k] = s[k] BY <1>2, <1>3, <1>5, <3>1
    <3>3. QED BY <1>3, <3>1, <3>2 DEF OfBody
  <2>2. CASE ~(k <= a)
    <3>1. PICK j \in 1..b : k = a + j
      <4>1. k - a \in 1..b /\ k = a + (k - a) BY <2>2
      <4>2. QED BY <4>1
    <3>2. c[k] = t[j] BY <1>2, <1>3, <1>4, <1>5, <3>1
    <3>3. QED BY <1>4, <3>2 DEF OfBody
  <2>3. QED BY <2>1, <2>2
<1>7. QED BY <1>2, <1>3, <1>4, <1>5, <1>6 DEF OfBody

LEMMA ChunkIs ==
  ASSUME NEW c \in [size : SizeDigits, extension : BOOLEAN]
  PROVE  \E h \in Nat : SizeLineOf(ChunkOf(c), c.size, h) /\ ChunkBody(ChunkOf(c), h, Size(c.size))
<1>1. PICK ds \in SizeDigits : ds = c.size OBVIOUS
<1>2. PICK d \in Nat : d = Len(ds) BY DEF SizeDigits
<1>3. PICK z \in Nat : z = Size(ds) BY SizeSteps
<1>4. PICK a : a = Digits(ds) OBVIOUS
<1>5. /\ OfBody(a) /\ Len(a) = d
      /\ \A k \in 1..d : a[k].kind = "digit" /\ a[k].value = ds[k]
  <2>1. \A k \in 1..d : ds[k] \in Nat BY <1>2, HttpAssumption DEF SizeDigits, HttpAssumption
  <2>2. \A k \in 1..d : /\ HttpByte("digit", ds[k]) \in HttpBytes
                        /\ HttpByte("digit", ds[k]).kind = "digit"
                        /\ HttpByte("digit", ds[k]).value = ds[k]
    BY <2>1, ByteOf DEF BodyKinds
  <2>3. a \in [1..d -> HttpBytes] /\ \A k \in 1..d : a[k] = HttpByte("digit", ds[k])
    BY <1>2, <1>4, <2>2 DEF Digits
  <2>4. a \in Seq(HttpBytes) /\ Len(a) = d BY <2>3
  <2>5. QED BY <2>2, <2>3, <2>4 DEF OfBody, BodyKinds
<1>6. PICK x : x = IF c.extension THEN Extension ELSE <<>> OBVIOUS
<1>7. PICK e \in Nat : e = Len(x) /\ OfBody(x) /\ e \in {0, 2}
                       /\ (e = 2 => x[1].kind = "semicolon" /\ x[2].kind = "digit")
  <2>1. /\ HttpByte("semicolon", 0) \in HttpBytes /\ HttpByte("digit", 1) \in HttpBytes
        /\ HttpByte("semicolon", 0).kind = "semicolon" /\ HttpByte("digit", 1).kind = "digit"
    BY ByteOf DEF BodyKinds
  <2>2. CASE c.extension
    <3>1. x = Extension BY <1>6, <2>2
    <3>2. Len(x) = 2 /\ OfBody(x) /\ x[1].kind = "semicolon" /\ x[2].kind = "digit"
      BY <2>1, <3>1 DEF Extension, OfBody, BodyKinds
    <3>3. QED BY <3>2
  <2>3. CASE ~c.extension
    <3>1. x = <<>> BY <1>6, <2>3
    <3>2. Len(x) = 0 /\ OfBody(x) BY <3>1 DEF OfBody
    <3>3. QED BY <3>2
  <2>4. QED BY <2>2, <2>3
<1>8. PICK l : l = <<CR, LF>> OBVIOUS
<1>9. OfBody(l) /\ Len(l) = 2 /\ l[1].kind = "cr" /\ l[2].kind = "lf" BY <1>8, LineEndOf
<1>10. PICK b : b = DataBytes(z) OBVIOUS
<1>11. OfBody(b) /\ Len(b) = z /\ \A t \in 1..z : b[t] = HttpByte("data", t)
  BY <1>10, DataOf
<1>12. ChunkOf(c) = (((a \o x) \o l) \o b) \o l
  BY <1>1, <1>3, <1>4, <1>6, <1>8, <1>10 DEF ChunkOf
<1>13. PICK s1 : s1 = a \o x OBVIOUS
<1>14. /\ OfBody(s1) /\ Len(s1) = d + e
       /\ \A k \in 1..d : s1[k] = a[k]
       /\ \A k \in 1..e : s1[d + k] = x[k]
  <2>1. OfBody(a) /\ OfBody(x) BY <1>5, <1>7
  <2>2. /\ OfBody(a \o x) /\ Len(a \o x) = Len(a) + Len(x)
        /\ \A k \in 1..Len(a) : (a \o x)[k] = a[k]
        /\ \A k \in 1..Len(x) : (a \o x)[Len(a) + k] = x[k]
    BY <2>1, Joint
  <2>3. Len(a) = d /\ Len(x) = e BY <1>5, <1>7
  <2>4. QED BY <1>13, <2>2, <2>3
<1>15. PICK s2 : s2 = s1 \o l OBVIOUS
<1>16. /\ OfBody(s2) /\ Len(s2) = (d + e) + 2
       /\ \A k \in 1..(d + e) : s2[k] = s1[k]
       /\ \A k \in 1..2 : s2[(d + e) + k] = l[k]
  <2>1. OfBody(s1) /\ OfBody(l) BY <1>9, <1>14
  <2>2. /\ OfBody(s1 \o l) /\ Len(s1 \o l) = Len(s1) + Len(l)
        /\ \A k \in 1..Len(s1) : (s1 \o l)[k] = s1[k]
        /\ \A k \in 1..Len(l) : (s1 \o l)[Len(s1) + k] = l[k]
    BY <2>1, Joint
  <2>3. Len(s1) = (d + e) /\ Len(l) = 2 BY <1>9, <1>14
  <2>4. QED BY <1>15, <2>2, <2>3
<1>17. PICK h \in Nat : h = (d + e) + 2 OBVIOUS
<1>18. PICK s3 : s3 = s2 \o b OBVIOUS
<1>19. /\ OfBody(s3) /\ Len(s3) = h + z
       /\ \A k \in 1..h : s3[k] = s2[k]
       /\ \A k \in 1..z : s3[h + k] = b[k]
  <2>1. OfBody(s2) /\ OfBody(b) BY <1>11, <1>16, <1>17
  <2>2. /\ OfBody(s2 \o b) /\ Len(s2 \o b) = Len(s2) + Len(b)
        /\ \A k \in 1..Len(s2) : (s2 \o b)[k] = s2[k]
        /\ \A k \in 1..Len(b) : (s2 \o b)[Len(s2) + k] = b[k]
    BY <2>1, Joint
  <2>3. Len(s2) = h /\ Len(b) = z BY <1>11, <1>16, <1>17
  <2>4. QED BY <1>18, <2>2, <2>3
<1>20. PICK s4 : s4 = s3 \o l OBVIOUS
<1>21. /\ OfBody(s4) /\ Len(s4) = (h + z) + 2
       /\ \A k \in 1..(h + z) : s4[k] = s3[k]
       /\ \A k \in 1..2 : s4[(h + z) + k] = l[k]
  <2>1. OfBody(s3) /\ OfBody(l) BY <1>9, <1>19
  <2>2. /\ OfBody(s3 \o l) /\ Len(s3 \o l) = Len(s3) + Len(l)
        /\ \A k \in 1..Len(s3) : (s3 \o l)[k] = s3[k]
        /\ \A k \in 1..Len(l) : (s3 \o l)[Len(s3) + k] = l[k]
    BY <2>1, Joint
  <2>3. Len(s3) = (h + z) /\ Len(l) = 2 BY <1>9, <1>19
  <2>4. QED BY <1>20, <2>2, <2>3
<1>22. ChunkOf(c) = s4 BY <1>12, <1>13, <1>15, <1>18, <1>20
<1>23. ChunkBody(s4, h, z)
  <2>1. \A t \in 1..z : s4[h + t] = HttpByte("data", t)
    <3>1. \A t \in 1..z : h + t \in 1..(h + z) OBVIOUS
    <3>2. QED BY <1>11, <1>19, <1>21, <3>1
  <2>2. QED BY <1>9, <1>21, <2>1 DEF ChunkBody
<1>24. \A k \in 1..h : s4[k] = s2[k]
  <2>1. \A k \in 1..h : k \in 1..(h + z) OBVIOUS
  <2>2. QED BY <1>19, <1>21, <2>1
<1>25. s4[h].kind = "lf"
  <2>1. h \in 1..h /\ h = (d + e) + 2 BY <1>17
  <2>2. QED BY <1>9, <1>16, <1>24, <2>1
<1>26. \A k \in 1..(d + e) : s4[k] = s1[k]
  <2>1. \A k \in 1..(d + e) : k \in 1..h BY <1>17
  <2>2. QED BY <1>16, <1>24, <2>1
<1>27. s4[(d + e) + 1].kind = "cr"
  <2>1. (d + e) + 1 \in 1..h BY <1>17
  <2>2. QED BY <1>9, <1>16, <1>24, <2>1
<1>28. \A k \in 1..d : s4[k].kind = "digit" /\ s4[k].value = ds[k]
  <2>1. \A k \in 1..d : k \in 1..(d + e) OBVIOUS
  <2>2. QED BY <1>5, <1>14, <1>26, <2>1
<1>29. \A k \in 1..e : s4[d + k] = x[k]
  <2>1. \A k \in 1..e : d + k \in 1..(d + e) OBVIOUS
  <2>2. QED BY <1>14, <1>26, <2>1
<1>30. SizeLineOf(s4, ds, h)
  <2>1. CASE e = 0
    <3>1. h = d + 2 /\ s4[d + 1].kind = "cr" BY <1>17, <1>27, <2>1
    <3>2. \A k \in (d + 1)..(h - 1) : k = d + 1 BY <3>1
    <3>3. QED BY <1>2, <1>25, <1>28, <3>1, <3>2 DEF SizeLineOf
  <2>2. CASE e = 2
    <3>1. s4[d + 1].kind = "semicolon" /\ s4[d + 2].kind = "digit" /\ s4[d + 3].kind = "cr"
      BY <1>7, <1>27, <1>29, <2>2
    <3>2. h = d + 4 BY <1>17, <2>2
    <3>3. \A k \in (d + 1)..(h - 1) : k = d + 1 \/ k = d + 2 \/ k = d + 3 BY <3>2
    <3>4. QED BY <1>2, <1>25, <1>28, <3>1, <3>2, <3>3 DEF SizeLineOf
  <2>3. QED BY <1>7, <2>1, <2>2
<1>31. QED BY <1>1, <1>3, <1>22, <1>23, <1>30

(* The body of an answer in chunks: where each chunk begins, in the body   *)
(* and in the payload, and how it ends.                                    *)
SizeOfChunk(b, i) == Size(b.chunks[i].size)
BodyParts(b, n, at) ==
  /\ at \in [0..n -> Nat] /\ at[0] = 0
  /\ \A i \in 1..n : at[i] = at[i - 1] + Len(ChunkOf(b.chunks[i]))
  /\ \A i \in 1..n : \A k \in 1..Len(ChunkOf(b.chunks[i])) :
       BodyBytes(b)[at[i - 1] + k] = ChunkOf(b.chunks[i])[k]
DataParts(b, n, pt) ==
  /\ pt \in [0..n -> Nat] /\ pt[0] = 0 /\ Len(Payload(b)) = pt[n]
  /\ \A i \in 1..n : pt[i] = pt[i - 1] + SizeOfChunk(b, i) /\ pt[i] <= pt[n]
  /\ \A i \in 1..n : \A t \in 1..SizeOfChunk(b, i) :
       Payload(b)[pt[i - 1] + t] = HttpByte("data", t)
BodyEnds(b, e) ==
  /\ e + 5 <= Len(BodyBytes(b)) /\ (~b.trailer => Len(BodyBytes(b)) = e + 5)
  /\ BodyBytes(b)[e + 1].kind = "digit" /\ BodyBytes(b)[e + 1].value = 0
  /\ BodyBytes(b)[e + 2].kind = "cr" /\ BodyBytes(b)[e + 3].kind = "lf"
  /\ BodyBytes(b)[e + 4].kind # "lf" /\ BodyBytes(b)[e + 5].kind = "lf"
BodyLayout(b, n, at, pt) ==
  /\ b.framing = "chunked" /\ n = Len(b.chunks) /\ n \in Nat
  /\ OfBody(BodyBytes(b)) /\ Payload(b) \in Seq(HttpBytes)
  /\ BodyParts(b, n, at) /\ DataParts(b, n, pt) /\ BodyEnds(b, at[n])

LEMMA BodyFlat ==
  ASSUME NEW n \in Nat, NEW seqs \in [1..n -> Seq(HttpBytes)], \A i \in 1..n : OfBody(seqs[i])
  PROVE  /\ OfBody(FlattenSeq(seqs))
         /\ \E at : Layout(FlattenSeq(seqs), seqs, n, at)
<1>1. PICK f : f = FlattenSeq(seqs) OBVIOUS
<1>2. f \in Seq(HttpBytes) BY <1>1, FlattenLayout
<1>3. PICK at : Layout(f, seqs, n, at) BY <1>1, FlattenLayout
<1>4. \A i \in 1..n : Len(seqs[i]) \in Nat
  <2>1. \A i \in 1..n : seqs[i] \in Seq(HttpBytes) OBVIOUS
  <2>2. QED BY <2>1
<1>5. Covered(f, seqs, n, at) BY <1>3, <1>4, LayoutCovers
<1>6. ASSUME NEW q \in 1..Len(f) PROVE f[q].kind \in BodyKinds
  <2>1. PICK i \in 1..n : \E k \in 1..Len(seqs[i]) : q = at[i - 1] + k BY <1>5 DEF Covered
  <2>2. PICK k \in 1..Len(seqs[i]) : q = at[i - 1] + k BY <2>1
  <2>3. f[at[i - 1] + k] = seqs[i][k] BY <1>3 DEF Layout
  <2>4. seqs[i][k].kind \in BodyKinds BY DEF OfBody
  <2>5. QED BY <2>2, <2>3, <2>4
<1>7. QED BY <1>1, <1>2, <1>3, <1>6 DEF OfBody

(* What ends a body: the chunk of no bytes, a trailer or none, a line end. *)
LastChunk(trailer) ==
  <<HttpByte("digit", 0), CR, LF>>
  \o (IF trailer THEN <<HttpByte("trailer", 0), LF>> ELSE <<>>) \o <<CR, LF>>
LEMMA LastChunkIs ==
  ASSUME NEW trailer \in BOOLEAN, NEW t, t = LastChunk(trailer)
  PROVE  /\ OfBody(t) /\ 5 <= Len(t) /\ (~trailer => Len(t) = 5)
         /\ t[1].kind = "digit" /\ t[1].value = 0 /\ t[2].kind = "cr" /\ t[3].kind = "lf"
         /\ t[4].kind # "lf" /\ t[5].kind = "lf"
<1>1. PICK d \in HttpBytes : d = HttpByte("digit", 0) /\ d.kind = "digit" /\ d.value = 0
  BY ByteOf DEF BodyKinds
<1>2. PICK r \in HttpBytes : r = HttpByte("trailer", 0) /\ r.kind = "trailer"
  BY ByteOf DEF BodyKinds
<1>3. PICK c \in HttpBytes : c = CR /\ c.kind = "cr" BY ByteOf DEF CR, BodyKinds
<1>4. PICK l \in HttpBytes : l = LF /\ l.kind = "lf" BY ByteOf DEF LF, BodyKinds
<1>5. PICK u : u = <<d, c, l>> OBVIOUS
<1>6. PICK v : v = IF trailer THEN <<r, l>> ELSE <<>> OBVIOUS
<1>7. PICK w : w = <<c, l>> OBVIOUS
<1>8. t = (u \o v) \o w BY <1>1, <1>2, <1>3, <1>4, <1>5, <1>6, <1>7 DEF LastChunk
<1>9. /\ OfBody(u) /\ Len(u) = 3 /\ u[1] = d /\ u[2] = c /\ u[3] = l
  BY <1>1, <1>3, <1>4, <1>5 DEF OfBody, BodyKinds
<1>10. /\ OfBody(w) /\ Len(w) = 2 /\ w[1] = c /\ w[2] = l
  BY <1>3, <1>4, <1>7 DEF OfBody, BodyKinds
<1>11. PICK x : x = u \o v OBVIOUS
<1>12. CASE trailer
  <2>1. OfBody(v) /\ Len(v) = 2 /\ v[1] = r /\ v[2] = l
    BY <1>2, <1>4, <1>6, <1>12 DEF OfBody, BodyKinds
  <2>2. /\ OfBody(x) /\ Len(x) = 5
        /\ \A k \in 1..3 : x[k] = u[k]
        /\ \A k \in 1..2 : x[3 + k] = v[k]
    <3>1. OfBody(u) /\ OfBody(v) BY <1>9, <2>1
    <3>2. /\ OfBody(u \o v) /\ Len(u \o v) = Len(u) + Len(v)
          /\ \A k \in 1..Len(u) : (u \o v)[k] = u[k]
          /\ \A k \in 1..Len(v) : (u \o v)[Len(u) + k] = v[k]
      BY <3>1, Joint
    <3>3. Len(u) = 3 /\ Len(v) = 2 BY <1>9, <2>1
    <3>4. QED BY <1>11, <3>2, <3>3
  <2>3. /\ OfBody(t) /\ Len(t) = 7
        /\ \A k \in 1..5 : t[k] = x[k]
    <3>1. OfBody(x) /\ OfBody(w) BY <1>10, <2>2
    <3>2. /\ OfBody(x \o w) /\ Len(x \o w) = Len(x) + Len(w)
          /\ \A k \in 1..Len(x) : (x \o w)[k] = x[k]
      BY <3>1, Joint
    <3>3. Len(x) = 5 /\ Len(w) = 2 /\ t = x \o w BY <1>8, <1>10, <1>11, <2>2
    <3>4. QED BY <3>2, <3>3
  <2>4. t[1] = d /\ t[2] = c /\ t[3] = l /\ t[4] = r /\ t[5] = l
    <3>1. x[1] = u[1] /\ x[2] = u[2] /\ x[3] = u[3] /\ x[4] = v[1] /\ x[5] = v[2]
      <4>1. x[3 + 1] = v[1] /\ x[3 + 2] = v[2] BY <2>2
      <4>2. QED BY <2>2, <4>1
    <3>2. QED BY <1>9, <2>1, <2>3, <3>1
  <2>5. t[1].kind = "digit" /\ t[1].value = 0 /\ t[2].kind = "cr" /\ t[3].kind = "lf"
        /\ t[4].kind = "trailer" /\ t[5].kind = "lf"
    BY <1>1, <1>2, <1>3, <1>4, <2>4
  <2>6. OfBody(t) /\ Len(t) = 7 BY <2>3
  <2>7. t[4].kind # "lf" BY <2>5
  <2>8. 5 <= Len(t) BY <2>6
  <2>9. QED BY <1>12, <2>5, <2>6, <2>7, <2>8
<1>13. CASE ~trailer
  <2>1. OfBody(v) /\ Len(v) = 0 BY <1>6, <1>13 DEF OfBody
  <2>2. /\ OfBody(x) /\ Len(x) = 3
        /\ \A k \in 1..3 : x[k] = u[k]
    <3>1. OfBody(u) /\ OfBody(v) BY <1>9, <2>1
    <3>2. /\ OfBody(u \o v) /\ Len(u \o v) = Len(u) + Len(v)
          /\ \A k \in 1..Len(u) : (u \o v)[k] = u[k]
      BY <3>1, Joint
    <3>3. Len(u) = 3 /\ Len(v) = 0 /\ 3 + 0 = 3 BY <1>9, <2>1
    <3>4. Len(u \o v) = 3 BY <3>2, <3>3
    <3>5. QED BY <1>11, <3>2, <3>3, <3>4
  <2>3. /\ OfBody(t) /\ Len(t) = 5
        /\ \A k \in 1..3 : t[k] = x[k]
        /\ \A k \in 1..2 : t[3 + k] = w[k]
    <3>1. OfBody(x) /\ OfBody(w) BY <1>10, <2>2
    <3>2. /\ OfBody(x \o w) /\ Len(x \o w) = Len(x) + Len(w)
          /\ \A k \in 1..Len(x) : (x \o w)[k] = x[k]
          /\ \A k \in 1..Len(w) : (x \o w)[Len(x) + k] = w[k]
      BY <3>1, Joint
    <3>3. Len(x) = 3 /\ Len(w) = 2 /\ t = x \o w BY <1>8, <1>10, <1>11, <2>2
    <3>4. QED BY <3>2, <3>3
  <2>4. t[1] = d /\ t[2] = c /\ t[3] = l /\ t[4] = c /\ t[5] = l
    <3>1. t[3 + 1] = w[1] /\ t[3 + 2] = w[2] BY <2>3
    <3>2. t[1] = x[1] /\ t[2] = x[2] /\ t[3] = x[3] BY <2>3
    <3>3. QED BY <1>9, <1>10, <2>2, <3>1, <3>2
  <2>5. QED BY <1>1, <1>3, <1>4, <1>13, <2>3, <2>4
<1>14. QED BY <1>12, <1>13

LEMMA ElementOf ==
  ASSUME NEW S, NEW c \in Seq(S)
  PROVE  Len(c) \in Nat /\ \A i \in 1..Len(c) : i \in DOMAIN c /\ c[i] \in S
  OBVIOUS

LEMMA ChunksOf ==
  ASSUME NEW b \in HttpBodies
  PROVE  /\ Len(b.chunks) \in Nat /\ b \in Answers
         /\ \A i \in 1..Len(b.chunks) : /\ b.chunks[i] \in [size : SizeDigits, extension : BOOLEAN]
                                        /\ SizeOfChunk(b, i) \in Nat /\ SizeOfChunk(b, i) > 0
<1>1. b \in Answers /\ \A i \in DOMAIN b.chunks : Size(b.chunks[i].size) > 0
  BY HttpAssumption DEF HttpAssumption
<1>2. PICK c \in Seq([size : SizeDigits, extension : BOOLEAN]) : c = b.chunks BY <1>1 DEF Answers
<1>3. \A i \in 1..Len(c) : c[i] \in [size : SizeDigits, extension : BOOLEAN] /\ Size(c[i].size) > 0
  <2>1. \A i \in DOMAIN c : Size(c[i].size) > 0 BY <1>1, <1>2
  <2>2. \A i \in 1..Len(c) : i \in DOMAIN c /\ c[i] \in [size : SizeDigits, extension : BOOLEAN]
    BY ElementOf
  <2>3. QED BY <2>1, <2>2
<1>4. \A i \in 1..Len(c) : Size(c[i].size) \in Nat BY <1>3, SizeSteps
<1>5. QED BY <1>1, <1>2, <1>3, <1>4 DEF SizeOfChunk

LEMMA BodyLaidOut ==
  ASSUME NEW b \in HttpBodies, b.framing = "chunked"
  PROVE  \E n, at, pt : BodyLayout(b, n, at, pt)
<1>1. PICK n \in Nat : n = Len(b.chunks) BY ChunksOf
<1>2. /\ b \in Answers
      /\ \A i \in 1..n : /\ b.chunks[i] \in [size : SizeDigits, extension : BOOLEAN]
                         /\ SizeOfChunk(b, i) \in Nat
  BY <1>1, ChunksOf
<1>3. PICK s : s = [i \in 1..n |-> ChunkOf(b.chunks[i])] OBVIOUS
<1>4. ASSUME NEW i \in 1..n PROVE s[i] = ChunkOf(b.chunks[i]) /\ OfBody(s[i])
  <2>1. s[i] = ChunkOf(b.chunks[i]) BY <1>3
  <2>2. b.chunks[i] \in [size : SizeDigits, extension : BOOLEAN] BY <1>2
  <2>3. OfBody(ChunkOf(b.chunks[i])) BY <2>2, ChunkIs DEF ChunkBody
  <2>4. QED BY <2>1, <2>3
<1>5. s \in [1..n -> Seq(HttpBytes)]
  <2>1. \A i \in 1..n : s[i] \in Seq(HttpBytes) BY <1>4 DEF OfBody
  <2>2. s = [i \in 1..n |-> s[i]] BY <1>3
  <2>3. QED BY <2>1, <2>2
<1>6. PICK f : f = FlattenSeq(s) OBVIOUS
<1>7. OfBody(f) BY <1>4, <1>5, <1>6, BodyFlat
<1>8. PICK at : Layout(f, s, n, at) BY <1>4, <1>5, <1>6, BodyFlat
<1>9. PICK t : t = LastChunk(b.trailer) OBVIOUS
<1>10. /\ OfBody(t) /\ 5 <= Len(t) /\ (~b.trailer => Len(t) = 5)
       /\ t[1].kind = "digit" /\ t[1].value = 0 /\ t[2].kind = "cr" /\ t[3].kind = "lf"
       /\ t[4].kind # "lf" /\ t[5].kind = "lf"
  <2>1. b.trailer \in BOOLEAN BY <1>2 DEF Answers
  <2>2. QED BY <1>9, <2>1, LastChunkIs
<1>11. PICK body : body = BodyBytes(b) OBVIOUS
<1>12. body = f \o t
  <2>1. PICK d : d = <<HttpByte("digit", 0), CR, LF>> OBVIOUS
  <2>2. PICK r : r = IF b.trailer THEN <<HttpByte("trailer", 0), LF>> ELSE <<>> OBVIOUS
  <2>3. PICK l : l = <<CR, LF>> OBVIOUS
  <2>4. body = ((f \o d) \o r) \o l /\ t = (d \o r) \o l
    BY <1>1, <1>3, <1>6, <1>9, <1>11, <2>1, <2>2, <2>3 DEF BodyBytes, LastChunk
  <2>5. d \in Seq(HttpBytes) /\ r \in Seq(HttpBytes) /\ l \in Seq(HttpBytes)
    <3>1. /\ HttpByte("digit", 0) \in HttpBytes /\ HttpByte("trailer", 0) \in HttpBytes
          /\ CR \in HttpBytes /\ LF \in HttpBytes
      BY ByteOf DEF BodyKinds, CR, LF
    <3>2. QED BY <2>1, <2>2, <2>3, <3>1
  <2>6. f \in Seq(HttpBytes) BY <1>7 DEF OfBody
  <2>7. (f \o d) \o r = f \o (d \o r) BY <2>5, <2>6, ConcatAssociates, SMTT(20)
  <2>8. d \o r \in Seq(HttpBytes) BY <2>5
  <2>9. PICK w \in Seq(HttpBytes) : w = d \o r BY <2>8
  <2>10. (f \o w) \o l = f \o (w \o l) BY <2>5, <2>6, ConcatAssociates, SMTT(20)
  <2>11. QED BY <2>4, <2>7, <2>9, <2>10
<1>13. /\ OfBody(body) /\ Len(f) \in Nat /\ Len(t) \in Nat /\ Len(body) = Len(f) + Len(t)
       /\ \A k \in 1..Len(f) : body[k] = f[k]
       /\ \A k \in 1..Len(t) : body[Len(f) + k] = t[k]
  <2>1. OfBody(f) /\ OfBody(t) BY <1>7, <1>10
  <2>2. QED BY <1>12, <2>1, Joint
<1>14. /\ at \in [0..n -> Nat] /\ at[0] = 0 /\ Len(f) = at[n]
       /\ \A i \in 1..n : at[i] = at[i - 1] + Len(s[i])
       /\ \A i \in 1..n : \A k \in 1..Len(s[i]) : f[at[i - 1] + k] = s[i][k]
  BY <1>8 DEF Layout
<1>15. BodyParts(b, n, at)
  <2>1. ASSUME NEW i \in 1..n, NEW k \in 1..Len(s[i]) PROVE at[i - 1] + k \in 1..Len(f)
    <3>1. \A j \in 1..n : Len(s[j]) \in Nat BY <1>4 DEF OfBody
    <3>2. at[i] <= at[n]
      <4>1. \A g \in 0..n : \A j \in g..n : at[g] <= at[j] BY <1>8, <3>1, LayoutGrows
      <4>2. i \in 0..n /\ n \in i..n OBVIOUS
      <4>3. QED BY <4>1, <4>2
    <3>3. at[i] \in Nat /\ at[i - 1] \in Nat /\ at[n] \in Nat BY <1>14
    <3>4. at[i] = at[i - 1] + Len(s[i]) BY <1>14
    <3>5. PICK u \in Nat : u = at[i - 1] BY <3>3
    <3>6. PICK v \in Nat : v = Len(s[i]) /\ k \in 1..v BY <3>1
    <3>7. PICK w \in Nat : w = Len(f) /\ u + v <= w BY <1>14, <3>2, <3>3, <3>4, <3>5, <3>6
    <3>8. u + k \in 1..w BY <3>6, <3>7
    <3>9. QED BY <3>5, <3>7, <3>8
  <2>2. \A i \in 1..n : \A k \in 1..Len(s[i]) : body[at[i - 1] + k] = s[i][k]
    BY <1>13, <1>14, <2>1
  <2>3. QED BY <1>4, <1>11, <1>14, <2>2, ZenonT(30) DEF BodyParts
<1>16. BodyEnds(b, at[n])
  <2>1. PICK e \in Nat : e = at[n] /\ e = Len(f) BY <1>13, <1>14
  <2>2. \A k \in 1..5 : k \in 1..Len(t) BY <1>10, <1>13
  <2>3. \A k \in 1..5 : body[e + k] = t[k] BY <1>13, <2>1, <2>2
  <2>4. body[e + 1] = t[1] /\ body[e + 2] = t[2] /\ body[e + 3] = t[3]
        /\ body[e + 4] = t[4] /\ body[e + 5] = t[5]
    BY <2>3
  <2>5. e + 5 <= Len(body) /\ (~b.trailer => Len(body) = e + 5)
    <3>1. PICK a \in Nat : a = Len(t) /\ 5 <= a /\ (~b.trailer => a = 5) BY <1>10, <1>13
    <3>2. Len(body) = e + a BY <1>13, <2>1, <3>1
    <3>3. (5 <= a => e + 5 <= e + a) /\ (a = 5 => e + a = e + 5) OBVIOUS
    <3>4. QED BY <3>1, <3>2, <3>3
  <2>6. QED BY <1>10, <1>11, <2>1, <2>4, <2>5 DEF BodyEnds
<1>17. PICK ds : ds = [i \in 1..n |-> DataBytes(SizeOfChunk(b, i))] OBVIOUS
<1>18. \A i \in 1..n : /\ OfBody(ds[i]) /\ ds[i] \in Seq(HttpBytes)
                       /\ Len(ds[i]) = SizeOfChunk(b, i)
                       /\ \A u \in 1..SizeOfChunk(b, i) : ds[i][u] = HttpByte("data", u)
  BY <1>2, <1>17, DataOf
<1>19. ds \in [1..n -> Seq(HttpBytes)]
  <2>1. ds = [i \in 1..n |-> ds[i]] BY <1>17
  <2>2. QED BY <1>18, <2>1
<1>20. Payload(b) = FlattenSeq(ds) BY <1>1, <1>17 DEF Payload, SizeOfChunk
<1>21. Payload(b) \in Seq(HttpBytes) BY <1>19, <1>20, FlattenLayout
<1>22. PICK pt : Layout(Payload(b), ds, n, pt) BY <1>19, <1>20, FlattenLayout
<1>23. DataParts(b, n, pt)
  <2>1. \A i \in 1..n : Len(ds[i]) \in Nat BY <1>2, <1>18
  <2>2. \A g \in 0..n : \A j \in g..n : pt[g] <= pt[j] BY <1>22, <2>1, LayoutGrows
  <2>3. \A i \in 1..n : pt[i] <= pt[n]
    <3>1. \A i \in 1..n : i \in 0..n /\ n \in i..n OBVIOUS
    <3>2. QED BY <2>2, <3>1
  <2>4. QED BY <1>18, <1>22, <2>3 DEF Layout, DataParts
<1>24. QED BY <1>1, <1>11, <1>13, <1>15, <1>16, <1>21, <1>23 DEF BodyLayout

(* The places of chunk i of a body: its digits, its line, its data, and    *)
(* what the data is in the payload.                                        *)
ChunkSpan(b, L, i, a, d, z, h, p) ==
  /\ a = L.at[i - 1] /\ d = Len(b.chunks[i].size) /\ z = SizeOfChunk(b, i)
  /\ h = L.line[i] /\ p = L.data[i - 1]
  /\ L.at[i] = ((a + h) + z) + 2 /\ L.data[i] = p + z /\ p + z <= Len(Payload(b))
  /\ z > 0 /\ d + 2 <= h
  /\ \A k \in 1..d : /\ BodyBytes(b)[a + k].kind = "digit"
                     /\ BodyBytes(b)[a + k].value = b.chunks[i].size[k]
  /\ \/ BodyBytes(b)[a + (d + 1)].kind = "semicolon"
     \/ BodyBytes(b)[a + (d + 1)].kind = "cr" /\ h = d + 2
  /\ \A k \in (d + 1)..(h - 1) : BodyBytes(b)[a + k].kind # "lf"
  /\ BodyBytes(b)[a + h].kind = "lf"
  /\ \A t \in 1..z : BodyBytes(b)[(a + h) + t] = Payload(b)[p + t]
  /\ BodyBytes(b)[((a + h) + z) + 1].kind = "cr" /\ BodyBytes(b)[((a + h) + z) + 2].kind = "lf"
ChunkSpans(b, L, i) == \E a, d, z, h, p \in Nat : ChunkSpan(b, L, i, a, d, z, h, p)
BodyShape(b, L) ==
  /\ b \in HttpBodies /\ b.framing = "chunked" /\ Len(b.chunks) \in Nat
  /\ OfBody(BodyBytes(b)) /\ Payload(b) \in Seq(HttpBytes)
  /\ L.at[0] = 0 /\ L.data[0] = 0
  /\ L.at[Len(b.chunks)] \in Nat /\ L.data[Len(b.chunks)] = Len(Payload(b))
  /\ \A i \in 1..Len(b.chunks) : ChunkSpans(b, L, i)
  /\ BodyEnds(b, L.at[Len(b.chunks)])

LEMMA SpanOf ==
  ASSUME NEW b \in HttpBodies, NEW n, NEW at, NEW pt, BodyLayout(b, n, at, pt), NEW i \in 1..n,
         NEW L, L.at = at, L.data = pt, NEW h \in Nat, L.line[i] = h,
         SizeLineOf(ChunkOf(b.chunks[i]), b.chunks[i].size, h),
         ChunkBody(ChunkOf(b.chunks[i]), h, SizeOfChunk(b, i))
  PROVE  ChunkSpans(b, L, i)
<1>1. n = Len(b.chunks) /\ n \in Nat /\ BodyParts(b, n, at) /\ DataParts(b, n, pt)
  BY DEF BodyLayout
<1>2. i - 1 \in 0..n /\ i \in 0..n BY <1>1
<1>3. PICK z \in Nat : z = SizeOfChunk(b, i) /\ z > 0 BY <1>1, ChunksOf
<1>4. PICK ds \in SizeDigits : ds = b.chunks[i].size BY <1>1, ChunksOf
<1>5. PICK d \in Nat : d = Len(ds) BY DEF SizeDigits
<1>6. PICK a \in Nat : a = at[i - 1] BY <1>1, <1>2 DEF BodyParts
<1>7. PICK p \in Nat : p = pt[i - 1] BY <1>1, <1>2 DEF DataParts
<1>8. PICK s : s = ChunkOf(b.chunks[i]) OBVIOUS
<1>9. SizeLineOf(s, ds, h) /\ ChunkBody(s, h, z) BY <1>3, <1>4, <1>8
<1>10. PICK w \in Nat : w = (h + z) + 2 OBVIOUS
<1>11. Len(s) = w BY <1>9, <1>10 DEF ChunkBody
<1>12. PICK y : y = BodyBytes(b) OBVIOUS
<1>13. \A k \in 1..w : y[a + k] = s[k]
  <2>1. \A k \in 1..Len(s) : y[at[i - 1] + k] = s[k] BY <1>1, <1>8, <1>12 DEF BodyParts
  <2>2. QED BY <1>6, <1>11, <2>1
<1>14. L.at[i] = ((a + h) + z) + 2
  <2>1. at[i] = at[i - 1] + Len(s) BY <1>1, <1>8 DEF BodyParts
  <2>2. at[i] = a + w BY <1>6, <1>11, <2>1
  <2>3. a + w = ((a + h) + z) + 2 BY <1>10
  <2>4. QED BY <2>2, <2>3
<1>15. L.data[i] = p + z /\ p + z <= Len(Payload(b))
  <2>1. pt[i] = pt[i - 1] + SizeOfChunk(b, i) /\ pt[i] <= pt[n] /\ Len(Payload(b)) = pt[n]
    BY <1>1 DEF DataParts
  <2>2. pt[i] = p + z BY <1>3, <1>7, <2>1
  <2>3. QED BY <2>1, <2>2
<1>16. /\ d + 2 <= h
       /\ \A k \in 1..d : s[k].kind = "digit" /\ s[k].value = ds[k]
       /\ s[d + 1].kind = "semicolon" \/ (s[d + 1].kind = "cr" /\ h = d + 2)
       /\ \A k \in (d + 1)..(h - 1) : s[k].kind # "lf"
       /\ s[h].kind = "lf"
  BY <1>5, <1>9 DEF SizeLineOf
<1>17. \A k \in 1..d : y[a + k].kind = "digit" /\ y[a + k].value = ds[k]
  <2>1. d + 2 <= h BY <1>16
  <2>2. \A k \in 1..d : k \in 1..w BY <1>10, <2>1
  <2>3. QED BY <1>13, <1>16, <2>2
<1>18. /\ y[a + (d + 1)].kind = "semicolon" \/ (y[a + (d + 1)].kind = "cr" /\ h = d + 2)
       /\ y[a + h].kind = "lf"
  <2>1. d + 2 <= h BY <1>16
  <2>2. d + 1 \in 1..w /\ h \in 1..w BY <1>10, <2>1
  <2>3. y[a + (d + 1)] = s[d + 1] /\ y[a + h] = s[h] BY <1>13, <2>2
  <2>4. QED BY <1>16, <2>3
<1>19. \A k \in (d + 1)..(h - 1) : y[a + k].kind # "lf"
  <2>1. \A k \in (d + 1)..(h - 1) : k \in 1..w BY <1>10
  <2>2. QED BY <1>13, <1>16, <2>1
<1>20. \A t \in 1..z : y[(a + h) + t] = Payload(b)[p + t]
  <2>1. ASSUME NEW t \in 1..z PROVE y[(a + h) + t] = Payload(b)[p + t]
    <3>1. h + t \in 1..w /\ a + (h + t) = (a + h) + t BY <1>10
    <3>2. y[(a + h) + t] = s[h + t] BY <1>13, <3>1
    <3>3. s[h + t] = HttpByte("data", t) BY <1>9 DEF ChunkBody
    <3>4. Payload(b)[pt[i - 1] + t] = HttpByte("data", t) BY <1>1, <1>3 DEF DataParts
    <3>5. QED BY <1>7, <3>2, <3>3, <3>4
  <2>2. QED BY <2>1
<1>21. y[((a + h) + z) + 1].kind = "cr" /\ y[((a + h) + z) + 2].kind = "lf"
  <2>1. /\ (h + z) + 1 \in 1..w /\ (h + z) + 2 \in 1..w
        /\ a + ((h + z) + 1) = ((a + h) + z) + 1 /\ a + ((h + z) + 2) = ((a + h) + z) + 2
    BY <1>10
  <2>2. s[(h + z) + 1].kind = "cr" /\ s[(h + z) + 2].kind = "lf" BY <1>9 DEF ChunkBody
  <2>3. QED BY <1>13, <2>1, <2>2
<1>22. ChunkSpan(b, L, i, a, d, z, h, p)
  <2>1. /\ a = L.at[i - 1] /\ d = Len(b.chunks[i].size) /\ z = SizeOfChunk(b, i)
        /\ h = L.line[i] /\ p = L.data[i - 1]
    BY <1>3, <1>4, <1>5, <1>6, <1>7
  <2>2. z > 0 /\ d + 2 <= h BY <1>3, <1>16
  <2>3. \A k \in 1..d : /\ BodyBytes(b)[a + k].kind = "digit"
                        /\ BodyBytes(b)[a + k].value = b.chunks[i].size[k]
    BY <1>4, <1>12, <1>17
  <2>4. \/ BodyBytes(b)[a + (d + 1)].kind = "semicolon"
        \/ BodyBytes(b)[a + (d + 1)].kind = "cr" /\ h = d + 2
    BY <1>12, <1>18
  <2>5. BodyBytes(b)[a + h].kind = "lf" BY <1>12, <1>18
  <2>6. \A k \in (d + 1)..(h - 1) : BodyBytes(b)[a + k].kind # "lf" BY <1>12, <1>19
  <2>7. \A t \in 1..z : BodyBytes(b)[(a + h) + t] = Payload(b)[p + t] BY <1>12, <1>20
  <2>8. /\ BodyBytes(b)[((a + h) + z) + 1].kind = "cr"
        /\ BodyBytes(b)[((a + h) + z) + 2].kind = "lf"
    BY <1>12, <1>21
  <2>9. QED BY <1>14, <1>15, <2>1, <2>2, <2>3, <2>4, <2>5, <2>6, <2>7, <2>8 DEF ChunkSpan
<1>23. QED BY <1>22 DEF ChunkSpans

LEMMA ShapeOf ==
  ASSUME NEW b \in HttpBodies, b.framing = "chunked" PROVE \E L : BodyShape(b, L)
<1>1. PICK n, at, pt : BodyLayout(b, n, at, pt) BY BodyLaidOut
<1>2. /\ n = Len(b.chunks) /\ n \in Nat /\ BodyParts(b, n, at) /\ DataParts(b, n, pt)
      /\ OfBody(BodyBytes(b)) /\ Payload(b) \in Seq(HttpBytes) /\ BodyEnds(b, at[n])
  BY <1>1 DEF BodyLayout
<1> DEFINE Fits(i, h) == /\ SizeLineOf(ChunkOf(b.chunks[i]), b.chunks[i].size, h)
                         /\ ChunkBody(ChunkOf(b.chunks[i]), h, SizeOfChunk(b, i))
<1>3. \A i \in 1..n : \E h \in Nat : Fits(i, h)
  <2>1. ASSUME NEW i \in 1..n PROVE \E h \in Nat : Fits(i, h)
    <3>1. b.chunks[i] \in [size : SizeDigits, extension : BOOLEAN] BY <1>2, ChunksOf
    <3>2. QED BY <3>1, ChunkIs DEF SizeOfChunk
  <2>2. QED BY <2>1
<1> HIDE DEF Fits
<1>4. PICK line : line = [i \in 1..n |-> CHOOSE h \in Nat : Fits(i, h)] OBVIOUS
<1>5. \A i \in 1..n : line[i] \in Nat /\ Fits(i, line[i]) BY <1>3, <1>4
<1>6. PICK L : L.at = at /\ L.data = pt /\ L.line = line
  <2>1. [at |-> at, data |-> pt, line |-> line].at = at OBVIOUS
  <2>2. [at |-> at, data |-> pt, line |-> line].data = pt OBVIOUS
  <2>3. [at |-> at, data |-> pt, line |-> line].line = line OBVIOUS
  <2>4. QED BY <2>1, <2>2, <2>3
<1>7. \A i \in 1..n : ChunkSpans(b, L, i)
  <2>1. ASSUME NEW i \in 1..n PROVE ChunkSpans(b, L, i)
    <3>1. PICK h \in Nat : h = L.line[i] /\ Fits(i, h) BY <1>5, <1>6
    <3>2. QED BY <1>1, <1>6, <3>1, SpanOf DEF Fits
  <2>2. QED BY <2>1
<1>8. L.at[0] = 0 /\ L.at[n] \in Nat BY <1>2, <1>6 DEF BodyParts
<1>9. L.data[0] = 0 /\ L.data[n] = Len(Payload(b)) BY <1>2, <1>6 DEF DataParts
<1>10. QED BY <1>2, <1>6, <1>7, <1>8, <1>9 DEF BodyShape

(* Where body_feed is, q bytes behind the beginning of the body, with cs   *)
(* and csize as they are then, and m bytes of payload given away: at the   *)
(* digits of a size, behind them, within the data or at its end, or in     *)
(* what ends the body.                                                     *)
InDigits(b, L, q, cs, cz, m) ==
  \E i \in 1..Len(b.chunks), a, d, z, h, p, k \in Nat :
    /\ ChunkSpan(b, L, i, a, d, z, h, p)
    /\ k <= d /\ q = a + k /\ cs = 0 /\ cz = SizeUpTo(b.chunks[i].size)[k] /\ m = p
InLine(b, L, q, cs, cz, m) ==
  \E i \in 1..Len(b.chunks), a, d, z, h, p, k \in Nat :
    /\ ChunkSpan(b, L, i, a, d, z, h, p)
    /\ d < k /\ k < h /\ q = a + k /\ cs \in {0, 1} /\ cz = z /\ m = p
    /\ cs = 1 \/ k = h - 1
InData(b, L, q, cs, cz, m) ==
  \E i \in 1..Len(b.chunks), a, d, z, h, p, k \in Nat :
    /\ ChunkSpan(b, L, i, a, d, z, h, p)
    /\ k < z /\ q = (a + h) + k /\ cs = 2 /\ cz = z - k /\ m = p + k
InEnd(b, L, q, cs, cz, m) ==
  \E i \in 1..Len(b.chunks), a, d, z, h, p, k \in Nat :
    /\ ChunkSpan(b, L, i, a, d, z, h, p)
    /\ k \in 0..1 /\ q = ((a + h) + z) + k /\ cs = 3 /\ m = p + z
InLast(b, L, q, cs, cz, m) ==
  \E k \in 0..4 : /\ q = L.at[Len(b.chunks)] + k /\ m = L.data[Len(b.chunks)]
                  /\ IF k <= 2 THEN cs = 0 /\ cz = 0 ELSE cs = 5
AtPlace(b, L, q, cs, cz, m) ==
  /\ q \in Nat /\ m \in Nat /\ cz \in Nat
  /\ \/ InDigits(b, L, q, cs, cz, m)
     \/ InLine(b, L, q, cs, cz, m)
     \/ InData(b, L, q, cs, cz, m)
     \/ InEnd(b, L, q, cs, cz, m)
     \/ InLast(b, L, q, cs, cz, m)

(* The beginning of chunk i + 1, or of what ends the body.                 *)
LEMMA ChunkBegins0 ==
  ASSUME NEW b, NEW L, BodyShape(b, L), NEW j \in 0..Len(b.chunks), NEW q \in Nat, NEW m \in Nat,
         q = L.at[j], m = L.data[j]
  PROVE  AtPlace(b, L, q, 0, 0, m)
<1>1. PICK n \in Nat : n = Len(b.chunks) BY DEF BodyShape
<1>2. CASE j = n
  <2>1. 0 \in 0..4 /\ q = q + 0 /\ 0 <= 2 OBVIOUS
  <2>2. q = L.at[n] /\ m = L.data[n] BY <1>2
  <2>3. InLast(b, L, q, 0, 0, m) BY <1>1, <2>1, <2>2 DEF InLast
  <2>4. QED BY <2>3 DEF AtPlace
<1>3. CASE j # n
  <2>1. PICK i \in 1..n : i = j + 1 /\ i - 1 = j BY <1>1, <1>3
  <2>2. PICK a, d, z, h, p \in Nat : ChunkSpan(b, L, i, a, d, z, h, p)
    BY <1>1 DEF BodyShape, ChunkSpans
  <2>3. a = L.at[i - 1] /\ p = L.data[i - 1] BY <2>2 DEF ChunkSpan
  <2>4. q = a + 0 /\ m = p BY <2>1, <2>3
  <2>5. SizeUpTo(b.chunks[i].size)[0] = 0
    <3>1. b.chunks[i].size \in SizeDigits BY <1>1, ChunksOf DEF BodyShape
    <3>2. QED BY <3>1, SizeSteps
  <2>6. 0 \in Nat /\ 0 <= d OBVIOUS
  <2>7. InDigits(b, L, q, 0, 0, m) BY <1>1, <2>2, <2>4, <2>5, <2>6 DEF InDigits
  <2>8. QED BY <2>7 DEF AtPlace
<1>4. QED BY <1>2, <1>3

LEMMA BodyStarts == ASSUME NEW b, NEW L, BodyShape(b, L) PROVE AtPlace(b, L, 0, 0, 0, 0)
<1>1. L.at[0] = 0 /\ L.data[0] = 0 /\ Len(b.chunks) \in Nat BY DEF BodyShape
<1>2. 0 \in 0..Len(b.chunks) BY <1>1
<1>3. QED BY <1>1, <1>2, ChunkBegins0

(* What the byte x of a size line does to cs and csize.                    *)
SizeGoes(cs, cz, x, ds, dz) ==
  IF x.kind = "lf" THEN ds = (IF cz = 0 THEN 5 ELSE 2) /\ dz = cz
  ELSE IF cs = 0 /\ x.kind = "digit" THEN ds = cs /\ dz = cz * HttpBase + x.value
  ELSE IF cs = 0 /\ x.kind = "semicolon" THEN ds = 1 /\ dz = cz
  ELSE ds = cs /\ dz = cz

LEMMA DigitsGo ==
  ASSUME NEW b, NEW L, BodyShape(b, L), NEW q \in Nat, NEW cs, NEW cz \in Nat, NEW m \in Nat,
         InDigits(b, L, q, cs, cz, m),
         NEW es, NEW ez, SizeGoes(cs, cz, BodyBytes(b)[q + 1], es, ez)
  PROVE  AtPlace(b, L, q + 1, es, ez, m)
<1>1. PICK i \in 1..Len(b.chunks), a, d, z, h, p, k \in Nat :
        /\ ChunkSpan(b, L, i, a, d, z, h, p)
        /\ k <= d /\ q = a + k /\ cs = 0 /\ cz = SizeUpTo(b.chunks[i].size)[k] /\ m = p
  BY DEF InDigits
<1>2. PICK x : x = BodyBytes(b)[q + 1] OBVIOUS
<1>3. SizeGoes(cs, cz, x, es, ez) BY <1>2
<1>4. PICK ds \in SizeDigits : ds = b.chunks[i].size BY ChunksOf DEF BodyShape
<1>5. d = Len(ds) /\ d + 2 <= h BY <1>1, <1>4 DEF ChunkSpan
<1>6. q + 1 = a + (k + 1) /\ q + 1 \in Nat /\ k + 1 \in Nat BY <1>1
<1>7. CASE k < d
  <2>1. PICK j \in 1..d : j = k + 1 /\ j - 1 = k BY <1>7
  <2>2. x.kind = "digit" /\ x.value = ds[j]
    <3>1. BodyBytes(b)[a + j].kind = "digit" /\ BodyBytes(b)[a + j].value = b.chunks[i].size[j]
      BY <1>1 DEF ChunkSpan
    <3>2. QED BY <1>2, <1>4, <1>6, <2>1, <3>1
  <2>3. es = 0 /\ ez = cz * HttpBase + x.value BY <1>1, <1>3, <2>2 DEF SizeGoes
  <2>4. SizeUpTo(ds)[j] = SizeUpTo(ds)[j - 1] * HttpBase + ds[j] /\ SizeUpTo(ds)[j] \in Nat
    <3>1. j \in 1..Len(ds) /\ j \in 0..Len(ds) BY <1>5
    <3>2. QED BY <3>1, SizeSteps
  <2>5. ez = SizeUpTo(b.chunks[i].size)[k + 1] /\ ez \in Nat
    BY <1>1, <1>4, <2>1, <2>2, <2>3, <2>4
  <2>6. k + 1 <= d BY <1>7
  <2>7. InDigits(b, L, q + 1, es, ez, m) BY <1>1, <1>6, <2>3, <2>5, <2>6 DEF InDigits
  <2>8. QED BY <1>6, <2>5, <2>7 DEF AtPlace
<1>8. CASE ~(k < d)
  <2>1. k = d BY <1>1, <1>8
  <2>2. cz = z
    <3>1. z = Size(ds) BY <1>1, <1>4 DEF ChunkSpan, SizeOfChunk
    <3>2. Size(ds) = SizeUpTo(ds)[Len(ds)] BY SizeSteps
    <3>3. QED BY <1>1, <1>4, <1>5, <2>1, <3>1, <3>2
  <2>3. x = BodyBytes(b)[a + (d + 1)] BY <1>2, <1>6, <2>1
  <2>4. x.kind = "semicolon" \/ (x.kind = "cr" /\ h = d + 2) BY <1>1, <2>3 DEF ChunkSpan
  <2>5. /\ es \in {0, 1} /\ ez = cz
        /\ es = 1 \/ h = d + 2
    BY <1>1, <1>3, <2>4 DEF SizeGoes
  <2>6. d < d + 1 /\ d + 1 < h /\ (h = d + 2 => d + 1 = h - 1) BY <1>5
  <2>7. q + 1 = a + (d + 1) /\ d + 1 \in Nat BY <1>6, <2>1
  <2>8. ez = z /\ (es = 1 \/ d + 1 = h - 1) BY <2>2, <2>5, <2>6
  <2>9. InLine(b, L, q + 1, es, ez, m) BY <1>1, <2>5, <2>6, <2>7, <2>8 DEF InLine
  <2>10. ez \in Nat BY <2>5
  <2>11. QED BY <1>6, <2>9, <2>10 DEF AtPlace
<1>9. QED BY <1>7, <1>8

LEMMA LineGoes ==
  ASSUME NEW b, NEW L, BodyShape(b, L), NEW q \in Nat, NEW cs, NEW cz \in Nat, NEW m \in Nat,
         InLine(b, L, q, cs, cz, m),
         NEW es, NEW ez, SizeGoes(cs, cz, BodyBytes(b)[q + 1], es, ez)
  PROVE  AtPlace(b, L, q + 1, es, ez, m)
<1>1. PICK i \in 1..Len(b.chunks), a, d, z, h, p, k \in Nat :
        /\ ChunkSpan(b, L, i, a, d, z, h, p)
        /\ d < k /\ k < h /\ q = a + k /\ cs \in {0, 1} /\ cz = z /\ m = p
        /\ cs = 1 \/ k = h - 1
  BY DEF InLine
<1>2. PICK x : x = BodyBytes(b)[q + 1] OBVIOUS
<1>3. SizeGoes(cs, cz, x, es, ez) BY <1>2
<1>4. q + 1 = a + (k + 1) /\ q + 1 \in Nat /\ k + 1 \in Nat BY <1>1
<1>5. x = BodyBytes(b)[a + (k + 1)] BY <1>2, <1>4
<1>6. CASE k = h - 1
  <2>1. k + 1 = h BY <1>6
  <2>2. x.kind = "lf" /\ z > 0 BY <1>1, <1>5, <2>1 DEF ChunkSpan
  <2>3. es = 2 /\ ez = cz
    <3>1. cz # 0 BY <1>1, <2>2
    <3>2. QED BY <1>3, <2>2, <3>1 DEF SizeGoes
  <2>4. 0 < z /\ q + 1 = (a + h) + 0 /\ ez = z - 0 /\ m = p + 0 /\ 0 \in Nat
    BY <1>1, <1>4, <2>1, <2>2, <2>3
  <2>5. ChunkSpan(b, L, i, a, d, z, h, p) BY <1>1
  <2>6. InData(b, L, q + 1, es, ez, m) BY <2>3, <2>4, <2>5 DEF InData
  <2>7. QED BY <1>4, <2>3, <2>6 DEF AtPlace
<1>7. CASE k # h - 1
  <2>1. k + 1 < h /\ d < k + 1 /\ k + 1 \in (d + 1)..(h - 1) /\ cs = 1 BY <1>1, <1>7
  <2>2. x.kind # "lf" BY <1>1, <1>5, <2>1 DEF ChunkSpan
  <2>3. es = 1 /\ ez = cz BY <1>3, <2>1, <2>2 DEF SizeGoes
  <2>4. ez = z /\ es \in {0, 1} BY <1>1, <2>3
  <2>5. InLine(b, L, q + 1, es, ez, m) BY <1>1, <1>4, <2>1, <2>3, <2>4 DEF InLine
  <2>6. QED BY <1>4, <2>3, <2>5 DEF AtPlace
<1>8. QED BY <1>6, <1>7

LEMMA LastLineGoes ==
  ASSUME NEW b, NEW L, BodyShape(b, L), NEW q \in Nat, NEW cs \in {0, 1}, NEW cz \in Nat,
         NEW m \in Nat, InLast(b, L, q, cs, cz, m),
         NEW es, NEW ez, SizeGoes(cs, cz, BodyBytes(b)[q + 1], es, ez)
  PROVE  AtPlace(b, L, q + 1, es, ez, m)
<1>1. PICK k \in 0..4 : /\ q = L.at[Len(b.chunks)] + k /\ m = L.data[Len(b.chunks)]
                        /\ IF k <= 2 THEN cs = 0 /\ cz = 0 ELSE cs = 5
  BY DEF InLast
<1>2. k \in 0..2 /\ cs = 0 /\ cz = 0 BY <1>1
<1>3. PICK e \in Nat : e = L.at[Len(b.chunks)] BY DEF BodyShape
<1>4. PICK x : x = BodyBytes(b)[q + 1] OBVIOUS
<1>5. SizeGoes(0, 0, x, es, ez) BY <1>2, <1>4
<1>6. BodyEnds(b, e) BY <1>3 DEF BodyShape
<1>7. q + 1 = e + (k + 1) /\ q + 1 \in Nat
  <2>1. q = e + k BY <1>1, <1>3
  <2>2. QED BY <2>1
<1>8. CASE k = 2
  <2>1. q + 1 = e + 3 BY <1>7, <1>8
  <2>2. x.kind = "lf" BY <1>4, <1>6, <2>1 DEF BodyEnds
  <2>3. es = 5 /\ ez = 0 BY <1>5, <2>2 DEF SizeGoes
  <2>4. 3 \in 0..4 /\ ~(3 <= 2) OBVIOUS
  <2>5. InLast(b, L, q + 1, es, ez, m) BY <1>1, <1>3, <2>1, <2>3, <2>4 DEF InLast
  <2>6. QED BY <1>7, <2>3, <2>5 DEF AtPlace
<1>9. CASE k # 2
  <2>1. k + 1 \in 0..4 /\ k + 1 <= 2 BY <1>2, <1>9
  <2>2. \/ x.kind = "digit" /\ x.value = 0
        \/ x.kind = "cr"
    <3>1. CASE k = 0
      <4>1. q + 1 = e + 1 BY <1>7, <3>1
      <4>2. QED BY <1>4, <1>6, <4>1 DEF BodyEnds
    <3>2. CASE k = 1
      <4>1. q + 1 = e + 2 BY <1>7, <3>2
      <4>2. QED BY <1>4, <1>6, <4>1 DEF BodyEnds
    <3>3. QED BY <1>2, <1>9, <3>1, <3>2
  <2>3. 0 * HttpBase + 0 = 0
    <3>1. HttpBase \in Nat BY HttpAssumption DEF HttpAssumption
    <3>2. QED BY <3>1
  <2>4. es = 0 /\ ez = 0 BY <1>5, <2>2, <2>3 DEF SizeGoes
  <2>5. InLast(b, L, q + 1, es, ez, m) BY <1>1, <1>3, <1>7, <2>1, <2>4 DEF InLast
  <2>6. QED BY <1>7, <2>4, <2>5 DEF AtPlace
<1>10. QED BY <1>8, <1>9

LEMMA SizeLineGoes ==
  ASSUME NEW b, NEW L, BodyShape(b, L), NEW q, NEW cs \in {0, 1}, NEW cz, NEW m,
         AtPlace(b, L, q, cs, cz, m),
         NEW es, NEW ez, SizeGoes(cs, cz, BodyBytes(b)[q + 1], es, ez)
  PROVE  AtPlace(b, L, q + 1, es, ez, m)
<1>1. q \in Nat /\ m \in Nat /\ cz \in Nat BY DEF AtPlace
<1>2. ~InData(b, L, q, cs, cz, m) BY DEF InData
<1>3. ~InEnd(b, L, q, cs, cz, m) BY DEF InEnd
<1>4. InDigits(b, L, q, cs, cz, m) \/ InLine(b, L, q, cs, cz, m) \/ InLast(b, L, q, cs, cz, m)
  BY <1>2, <1>3 DEF AtPlace
<1>5. QED BY <1>1, <1>4, DigitsGo, LineGoes, LastLineGoes

(* Data goes to the callback, a byte at a time.                            *)
LEMMA DataGoes ==
  ASSUME NEW b, NEW L, BodyShape(b, L), NEW q, NEW cz, NEW m, AtPlace(b, L, q, 2, cz, m)
  PROVE  /\ cz > 0 /\ m + 1 <= Len(Payload(b)) /\ BodyBytes(b)[q + 1] = Payload(b)[m + 1]
         /\ AtPlace(b, L, q + 1, IF cz = 1 THEN 3 ELSE 2, cz - 1, m + 1)
<1>1. q \in Nat /\ m \in Nat /\ cz \in Nat BY DEF AtPlace
<1>2. InData(b, L, q, 2, cz, m)
  <2>1. ~InDigits(b, L, q, 2, cz, m) /\ ~InEnd(b, L, q, 2, cz, m) BY DEF InDigits, InEnd
  <2>2. ~InLine(b, L, q, 2, cz, m) /\ ~InLast(b, L, q, 2, cz, m) BY DEF InLine, InLast
  <2>3. QED BY <2>1, <2>2 DEF AtPlace
<1>3. PICK i \in 1..Len(b.chunks), a, d, z, h, p, k \in Nat :
        /\ ChunkSpan(b, L, i, a, d, z, h, p)
        /\ k < z /\ q = (a + h) + k /\ cz = z - k /\ m = p + k
  BY <1>2 DEF InData
<1>4. p + z <= Len(Payload(b)) /\ \A t \in 1..z : BodyBytes(b)[(a + h) + t] = Payload(b)[p + t]
  BY <1>3 DEF ChunkSpan
<1>5. k + 1 \in 1..z /\ q + 1 = (a + h) + (k + 1) /\ m + 1 = p + (k + 1) /\ k + 1 \in Nat
  BY <1>3
<1>6. BodyBytes(b)[q + 1] = Payload(b)[m + 1]
  <2>1. PICK j \in 1..z : j = k + 1 BY <1>5
  <2>2. BodyBytes(b)[(a + h) + j] = Payload(b)[p + j] BY <1>4
  <2>3. q + 1 = (a + h) + j /\ m + 1 = p + j BY <1>5, <2>1
  <2>4. QED BY <2>2, <2>3
<1>7. m + 1 <= p + z /\ cz > 0 /\ cz - 1 = z - (k + 1) /\ cz - 1 \in Nat BY <1>3
<1>8. m + 1 <= Len(Payload(b))
  <2>1. PICK y \in Nat : y = Len(Payload(b))
    <3>1. Payload(b) \in Seq(HttpBytes) BY DEF BodyShape
    <3>2. QED BY <3>1
  <2>2. p + z <= y BY <1>4, <2>1
  <2>3. QED BY <1>1, <1>7, <2>1, <2>2
<1>9. AtPlace(b, L, q + 1, IF cz = 1 THEN 3 ELSE 2, cz - 1, m + 1)
  <2>1. q + 1 \in Nat /\ m + 1 \in Nat BY <1>1
  <2>2. CASE cz = 1
    <3>1. k + 1 = z /\ 0 \in 0..1 /\ 0 \in Nat BY <1>3, <2>2
    <3>2. q + 1 = ((a + h) + z) + 0 /\ m + 1 = p + z BY <1>5, <3>1
    <3>3. InEnd(b, L, q + 1, 3, cz - 1, m + 1) BY <1>3, <3>1, <3>2 DEF InEnd
    <3>4. QED BY <1>7, <2>1, <2>2, <3>3 DEF AtPlace
  <2>3. CASE cz # 1
    <3>1. k + 1 < z BY <1>3, <2>3
    <3>2. InData(b, L, q + 1, 2, cz - 1, m + 1) BY <1>3, <1>5, <1>7, <3>1 DEF InData
    <3>3. QED BY <1>7, <2>1, <2>3, <3>2 DEF AtPlace
  <2>4. QED BY <2>2, <2>3
<1>10. QED BY <1>6, <1>7, <1>8, <1>9

LEMMA EndGoes ==
  ASSUME NEW b, NEW L, BodyShape(b, L), NEW q, NEW cz, NEW m, AtPlace(b, L, q, 3, cz, m)
  PROVE  IF BodyBytes(b)[q + 1].kind = "lf" THEN AtPlace(b, L, q + 1, 0, 0, m)
         ELSE AtPlace(b, L, q + 1, 3, cz, m)
<1>1. q \in Nat /\ m \in Nat /\ cz \in Nat BY DEF AtPlace
<1>2. InEnd(b, L, q, 3, cz, m)
  <2>1. ~InDigits(b, L, q, 3, cz, m) /\ ~InData(b, L, q, 3, cz, m) BY DEF InDigits, InData
  <2>2. ~InLine(b, L, q, 3, cz, m) /\ ~InLast(b, L, q, 3, cz, m) BY DEF InLine, InLast
  <2>3. QED BY <2>1, <2>2 DEF AtPlace
<1>3. PICK i \in 1..Len(b.chunks), a, d, z, h, p, k \in Nat :
        /\ ChunkSpan(b, L, i, a, d, z, h, p)
        /\ k \in 0..1 /\ q = ((a + h) + z) + k /\ m = p + z
  BY <1>2 DEF InEnd
<1>4. q + 1 = ((a + h) + z) + (k + 1) /\ q + 1 \in Nat BY <1>3
<1>5. CASE k = 0
  <2>1. q + 1 = ((a + h) + z) + 1 /\ 1 \in 0..1 /\ 1 \in Nat BY <1>4, <1>5
  <2>2. BodyBytes(b)[q + 1].kind = "cr" BY <1>3, <2>1 DEF ChunkSpan
  <2>3. InEnd(b, L, q + 1, 3, cz, m) BY <1>3, <2>1 DEF InEnd
  <2>4. AtPlace(b, L, q + 1, 3, cz, m) BY <1>1, <1>4, <2>3 DEF AtPlace
  <2>5. QED BY <2>2, <2>4
<1>6. CASE k = 1
  <2>1. q + 1 = ((a + h) + z) + 2 BY <1>4, <1>6
  <2>2. BodyBytes(b)[q + 1].kind = "lf" /\ q + 1 = L.at[i] /\ m = L.data[i]
    BY <1>3, <2>1 DEF ChunkSpan
  <2>3. i \in 0..Len(b.chunks)
    <3>1. Len(b.chunks) \in Nat BY DEF BodyShape
    <3>2. QED BY <3>1
  <2>4. AtPlace(b, L, q + 1, 0, 0, m) BY <1>1, <1>4, <2>2, <2>3, ChunkBegins0
  <2>5. QED BY <2>2, <2>4
<1>7. QED BY <1>3, <1>5, <1>6

LEMMA FinalGoes ==
  ASSUME NEW b, NEW L, BodyShape(b, L), NEW q, NEW cz, NEW m, AtPlace(b, L, q, 5, cz, m)
  PROVE  IF BodyBytes(b)[q + 1].kind = "lf"
         THEN /\ m = Len(Payload(b)) /\ q + 1 <= Len(BodyBytes(b))
              /\ ~b.trailer => q + 1 = Len(BodyBytes(b))
         ELSE AtPlace(b, L, q + 1, 5, cz, m)
<1>1. q \in Nat /\ m \in Nat /\ cz \in Nat BY DEF AtPlace
<1>2. InLast(b, L, q, 5, cz, m)
  <2>1. ~InDigits(b, L, q, 5, cz, m) /\ ~InData(b, L, q, 5, cz, m) BY DEF InDigits, InData
  <2>2. ~InLine(b, L, q, 5, cz, m) /\ ~InEnd(b, L, q, 5, cz, m) BY DEF InLine, InEnd
  <2>3. QED BY <2>1, <2>2 DEF AtPlace
<1>3. PICK k \in 3..4 : q = L.at[Len(b.chunks)] + k /\ m = L.data[Len(b.chunks)]
  <2>1. PICK k \in 0..4 : /\ q = L.at[Len(b.chunks)] + k /\ m = L.data[Len(b.chunks)]
                          /\ IF k <= 2 THEN 5 = 0 /\ cz = 0 ELSE 5 = 5
    BY <1>2 DEF InLast
  <2>2. k \in 3..4 BY <2>1
  <2>3. QED BY <2>1, <2>2
<1>4. PICK e \in Nat : e = L.at[Len(b.chunks)] BY DEF BodyShape
<1>5. BodyEnds(b, e) /\ m = Len(Payload(b)) BY <1>3, <1>4 DEF BodyShape
<1>6. CASE k = 3
  <2>1. q + 1 = e + 4 /\ q + 1 \in Nat /\ 4 \in 0..4 /\ ~(4 <= 2)
    BY <1>1, <1>3, <1>4, <1>6, SMTT(20)
  <2>2. BodyBytes(b)[q + 1].kind # "lf" BY <1>5, <2>1 DEF BodyEnds
  <2>3. InLast(b, L, q + 1, 5, cz, m) BY <1>3, <1>4, <2>1 DEF InLast
  <2>4. AtPlace(b, L, q + 1, 5, cz, m) BY <1>1, <2>1, <2>3 DEF AtPlace
  <2>5. QED BY <2>2, <2>4
<1>7. CASE k = 4
  <2>1. q + 1 = e + 5 BY <1>3, <1>4, <1>7
  <2>2. BodyBytes(b)[q + 1].kind = "lf" BY <1>5, <2>1 DEF BodyEnds
  <2>3. QED BY <1>5, <2>1, <2>2 DEF BodyEnds
<1>8. QED BY <1>3, <1>6, <1>7

(* Parts of a sequence: s is what t has behind its first q bytes; so are   *)
(* u and then w, and all of it if all is TRUE.                             *)
Part(s, t, q) == q + Len(s) <= Len(t) /\ \A i \in 1..Len(s) : s[i] = t[q + i]
Parts(u, w, t, q, all) ==
  Part(u, t, q) /\ Part(w, t, q + Len(u)) /\ (all => (q + Len(u)) + Len(w) = Len(t))

LEMMA PartStarts ==
  ASSUME NEW s \in Seq(HttpBytes), NEW t \in Seq(HttpBytes), NEW q \in Nat, Part(s, t, q),
         NEW n \in Nat, n <= Len(s)
  PROVE  Part(SubSeq(s, 1, n), t, q) /\ Part(SubSeq(s, n + 1, Len(s)), t, q + n)
<1>1. PICK l \in Nat : l = Len(s) OBVIOUS
<1>2. PICK e \in Nat : e = Len(t) OBVIOUS
<1>3. q + l <= e /\ \A i \in 1..l : s[i] = t[q + i] BY <1>1, <1>2 DEF Part
<1>4. n <= l BY <1>1
<1>5. PICK x : x = SubSeq(s, 1, n) OBVIOUS
<1>6. Len(x) = n /\ \A i \in 1..n : x[i] = s[i] BY <1>5, PrefixOf
<1>7. PICK y : y = SubSeq(s, n + 1, Len(s)) OBVIOUS
<1>8. PICK j \in Nat : j = l - n BY <1>4
<1>9. Len(y) = j /\ \A i \in 1..j : y[i] = s[n + i] BY <1>1, <1>7, <1>8, RestOf
<1>10. Part(x, t, q)
  <2>1. \A i \in 1..n : i \in 1..l BY <1>4
  <2>2. \A i \in 1..n : x[i] = t[q + i] BY <1>3, <1>6, <2>1
  <2>3. q + n <= e BY <1>3, <1>4
  <2>4. QED BY <1>2, <1>6, <2>2, <2>3 DEF Part
<1>11. Part(y, t, q + n)
  <2>1. ASSUME NEW i \in 1..j PROVE y[i] = t[(q + n) + i]
    <3>1. PICK k \in 1..l : k = n + i /\ q + k = (q + n) + i BY <1>4, <1>8
    <3>2. y[i] = s[k] BY <1>9, <3>1
    <3>3. s[k] = t[q + k] BY <1>3
    <3>4. QED BY <3>1, <3>2, <3>3
  <2>2. (q + n) + j <= e BY <1>3, <1>8
  <2>3. QED BY <1>2, <1>9, <2>1, <2>2 DEF Part
<1>12. QED BY <1>5, <1>7, <1>10, <1>11

LEMMA PartJoins ==
  ASSUME NEW u \in Seq(HttpBytes), NEW w \in Seq(HttpBytes), NEW t \in Seq(HttpBytes),
         NEW q \in Nat, Part(u, t, q), Part(w, t, q + Len(u))
  PROVE  Part(u \o w, t, q)
<1>1. PICK a \in Nat : a = Len(u) OBVIOUS
<1>2. PICK b \in Nat : b = Len(w) OBVIOUS
<1>3. PICK e \in Nat : e = Len(t) OBVIOUS
<1>4. /\ \A i \in 1..a : u[i] = t[q + i]
      /\ (q + a) + b <= e /\ \A i \in 1..b : w[i] = t[(q + a) + i]
  BY <1>1, <1>2, <1>3 DEF Part
<1>5. PICK x : x = u \o w OBVIOUS
<1>6. /\ Len(x) = a + b
      /\ \A i \in 1..a : x[i] = u[i]
      /\ \A i \in 1..b : x[a + i] = w[i]
  BY <1>1, <1>2, <1>5, Concat
<1>7. ASSUME NEW i \in 1..(a + b) PROVE x[i] = t[q + i]
  <2>1. CASE i <= a
    <3>1. i \in 1..a BY <2>1
    <3>2. QED BY <1>4, <1>6, <3>1
  <2>2. CASE ~(i <= a)
    <3>1. PICK j \in 1..b : i = a + j
      <4>1. i - a \in 1..b /\ i = a + (i - a) BY <2>2
      <4>2. QED BY <4>1
    <3>2. q + i = (q + a) + j BY <3>1
    <3>3. x[i] = w[j] /\ w[j] = t[(q + a) + j] BY <1>4, <1>6, <3>1
    <3>4. QED BY <3>2, <3>3
  <2>3. QED BY <2>1, <2>2
<1>8. q + (a + b) <= e BY <1>4
<1>9. QED BY <1>3, <1>5, <1>6, <1>7, <1>8 DEF Part

(* What the server has sent is cut off, received, or fed.                  *)
LEMMA PartsDrop ==
  ASSUME NEW u \in Seq(HttpBytes), NEW w \in Seq(HttpBytes), NEW t \in Seq(HttpBytes),
         NEW q \in Nat, NEW all, Parts(u, w, t, q, all), NEW n \in Nat, n <= Len(w)
  PROVE  Parts(u, SubSeq(w, 1, n), t, q, FALSE)
<1>1. PICK p \in Nat : p = q + Len(u) OBVIOUS
<1>2. Part(u, t, q) /\ Part(w, t, p) BY <1>1 DEF Parts
<1>3. Part(SubSeq(w, 1, n), t, p) BY <1>2, PartStarts
<1>4. QED BY <1>1, <1>2, <1>3 DEF Parts

LEMMA PartsReceive ==
  ASSUME NEW u \in Seq(HttpBytes), NEW w \in Seq(HttpBytes), NEW t \in Seq(HttpBytes),
         NEW q \in Nat, NEW all, Parts(u, w, t, q, all), NEW n \in Nat, n <= Len(w)
  PROVE  Parts(u \o SubSeq(w, 1, n), SubSeq(w, n + 1, Len(w)), t, q, all)
<1>1. PICK a \in Nat : a = Len(u) OBVIOUS
<1>2. PICK l \in Nat : l = Len(w) OBVIOUS
<1>3. Part(u, t, q) /\ Part(w, t, q + a) /\ (all => (q + a) + l = Len(t))
  BY <1>1, <1>2 DEF Parts
<1>4. PICK x \in Seq(HttpBytes) : x = SubSeq(w, 1, n) /\ Len(x) = n BY PrefixOf
<1>5. PICK y \in Seq(HttpBytes) : y = SubSeq(w, n + 1, Len(w)) /\ Len(y) = l - n
  BY <1>2, RestOf
<1>6. PICK p \in Nat : p = q + a OBVIOUS
<1>7. Part(x, t, p) /\ Part(y, t, p + n)
  <2>1. Part(w, t, p) BY <1>3, <1>6
  <2>2. QED BY <1>4, <1>5, <2>1, PartStarts
<1>8. Part(u \o x, t, q) BY <1>1, <1>3, <1>6, <1>7, PartJoins
<1>9. Len(u \o x) = a + n BY <1>1, <1>4, Concat
<1>10. q + (a + n) = p + n /\ (all => (q + (a + n)) + (l - n) = Len(t))
  <2>1. (q + (a + n)) + (l - n) = (q + a) + l OBVIOUS
  <2>2. ASSUME all PROVE (q + (a + n)) + (l - n) = Len(t) BY <1>3, <2>1, <2>2
  <2>3. q + (a + n) = p + n BY <1>6
  <2>4. QED BY <2>2, <2>3
<1>11. Parts(u \o x, y, t, q, all) BY <1>5, <1>7, <1>8, <1>9, <1>10 DEF Parts
<1>12. QED BY <1>4, <1>5, <1>11

LEMMA TailOf ==
  ASSUME NEW S, NEW s \in Seq(S), s # <<>>
  PROVE  /\ Tail(s) \in Seq(S) /\ Len(Tail(s)) = Len(s) - 1 /\ s[1] \in S /\ Len(s) > 0
         /\ \A i \in 1..(Len(s) - 1) : Tail(s)[i] = s[i + 1]
  OBVIOUS

LEMMA PartsByte ==
  ASSUME NEW u \in Seq(HttpBytes), NEW w \in Seq(HttpBytes), NEW t \in Seq(HttpBytes),
         NEW q \in Nat, NEW all, Parts(u, w, t, q, all), u # <<>>
  PROVE  /\ Parts(Tail(u), w, t, q + 1, all)
         /\ u[1] = t[q + 1] /\ q + 1 <= Len(t) /\ u[1] \in HttpBytes
         /\ Tail(u) \in Seq(HttpBytes)
<1>1. PICK a \in Nat : a = Len(u) /\ a > 0 OBVIOUS
<1>2. PICK e \in Nat : e = Len(t) OBVIOUS
<1>3. /\ q + a <= e /\ (\A i \in 1..a : u[i] = t[q + i])
      /\ Part(w, t, q + a) /\ (all => (q + a) + Len(w) = e)
  BY <1>1, <1>2 DEF Parts, Part
<1>4. PICK x \in Seq(HttpBytes) : x = Tail(u) BY TailOf
<1>5. PICK l \in Nat : l = a - 1
  <2>1. a - 1 \in Nat BY <1>1
  <2>2. QED BY <2>1
<1>6. Len(x) = l /\ \A i \in 1..l : x[i] = u[i + 1] BY <1>1, <1>4, <1>5, TailOf
<1>7. u[1] = t[q + 1] /\ q + 1 <= e
  <2>1. 1 \in 1..a BY <1>1
  <2>2. QED BY <1>1, <1>3, <2>1
<1>8. u[1] \in HttpBytes BY TailOf
<1>9. Part(x, t, q + 1)
  <2>1. ASSUME NEW i \in 1..l PROVE x[i] = t[(q + 1) + i]
    <3>1. PICK k \in 1..a : k = i + 1 /\ q + k = (q + 1) + i BY <1>5
    <3>2. x[i] = u[k] /\ u[k] = t[q + k] BY <1>3, <1>6, <3>1
    <3>3. QED BY <3>1, <3>2
  <2>2. (q + 1) + l <= e BY <1>3, <1>5
  <2>3. QED BY <1>2, <1>6, <2>1, <2>2 DEF Part
<1>10. (q + 1) + l = q + a BY <1>5
<1>11. Parts(x, w, t, q + 1, all) BY <1>2, <1>3, <1>6, <1>9, <1>10 DEF Parts
<1>12. QED BY <1>2, <1>4, <1>7, <1>8, <1>11

(* An answer: its header, and behind it bytes of a body.                   *)
AnyAnswer == HttpBodies \cup {NoAnswer}
LEMMA PlainBody ==
  ASSUME NEW b \in AnyAnswer, b.framing # "chunked"
  PROVE  /\ BodyBytes(b) = DataBytes(b.length) /\ Payload(b) = DataBytes(b.length)
         /\ b.length \in Nat
         /\ OfBody(BodyBytes(b)) /\ Len(BodyBytes(b)) = b.length
<1>1. b.length \in Nat
  <2>1. CASE b = NoAnswer BY <2>1 DEF NoAnswer
  <2>2. CASE b # NoAnswer
    <3>1. b \in Answers BY <2>2, ChunksOf DEF AnyAnswer
    <3>2. QED BY <3>1 DEF Answers
  <2>3. QED BY <2>1, <2>2
<1>2. BodyBytes(b) = DataBytes(b.length) /\ Payload(b) = DataBytes(b.length)
  BY DEF BodyBytes, Payload
<1>3. QED BY <1>1, <1>2, DataOf

LEMMA BodyOf ==
  ASSUME NEW b \in AnyAnswer
  PROVE  /\ OfBody(BodyBytes(b)) /\ Payload(b) \in Seq(HttpBytes)
         /\ BodyBytes(b) \in Seq(HttpBytes) /\ b \in Answers \cup {NoAnswer}
<1>1. CASE b.framing = "chunked"
  <2>1. b \in HttpBodies BY <1>1 DEF AnyAnswer, NoAnswer
  <2>2. \E L : BodyShape(b, L) BY <1>1, <2>1, ShapeOf
  <2>3. b \in Answers BY <2>1, ChunksOf
  <2>4. QED BY <2>2, <2>3 DEF BodyShape, OfBody
<1>2. CASE b.framing # "chunked"
  <2>1. OfBody(BodyBytes(b)) /\ Payload(b) = BodyBytes(b) BY <1>2, PlainBody
  <2>2. b \in Answers \cup {NoAnswer} BY ChunksOf DEF AnyAnswer
  <2>3. QED BY <2>1, <2>2 DEF OfBody
<1>3. QED BY <1>1, <1>2

LEMMA AnswerIs ==
  ASSUME NEW b \in AnyAnswer
  PROVE  /\ Answer(b) \in Seq(HttpBytes) /\ Len(Answer(b)) = Len(BodyBytes(b)) + 2
         /\ Answer(b)[1].kind = "head" /\ Answer(b)[1].of = b
         /\ Answer(b)[2].kind = "headend"
         /\ Part(BodyBytes(b), Answer(b), 2)
         /\ \A i \in 1..Len(BodyBytes(b)) : Answer(b)[2 + i] = BodyBytes(b)[i]
<1>1. PICK t \in Seq(HttpBytes) : t = BodyBytes(b) BY BodyOf
<1>2. b \in Answers \cup {NoAnswer} BY BodyOf
<1>3. PICK x \in HttpBytes : x = [HttpByte("head", 0) EXCEPT !.of = b]
                             /\ x.kind = "head" /\ x.of = b
  <2>1. NoAnswer \in Answers \cup {NoAnswer} OBVIOUS
  <2>2. PICK r : r = HttpByte("head", 0) OBVIOUS
  <2>3. r \in HttpBytes /\ r.kind = "head" BY <2>1, <2>2 DEF HttpByte, HttpBytes
  <2>4. PICK x : x = [r EXCEPT !.of = b] OBVIOUS
  <2>5. x \in HttpBytes /\ x.kind = "head" /\ x.of = b BY <1>2, <2>3, <2>4 DEF HttpBytes
  <2>6. QED BY <2>2, <2>4, <2>5
<1>4. PICK y \in HttpBytes : y = HttpByte("headend", 0) /\ y.kind = "headend"
  <2>1. NoAnswer \in Answers \cup {NoAnswer} OBVIOUS
  <2>2. PICK y : y = HttpByte("headend", 0) OBVIOUS
  <2>3. y \in HttpBytes /\ y.kind = "headend" BY <2>1, <2>2 DEF HttpByte, HttpBytes
  <2>4. QED BY <2>2, <2>3
<1>5. PICK h : h = <<x, y>> OBVIOUS
<1>6. h \in Seq(HttpBytes) /\ Len(h) = 2 /\ h[1] = x /\ h[2] = y BY <1>5
<1>7. Answer(b) = h \o t BY <1>1, <1>3, <1>4, <1>5 DEF Answer, HeadBytes
<1>8. PICK a : a = h \o t OBVIOUS
<1>9. /\ a \in Seq(HttpBytes) /\ Len(a) = Len(h) + Len(t)
      /\ \A k \in 1..Len(h) : a[k] = h[k]
      /\ \A k \in 1..Len(t) : a[Len(h) + k] = t[k]
  <2>1. h \in Seq(HttpBytes) /\ t \in Seq(HttpBytes) BY <1>6
  <2>2. QED BY <1>8, <2>1, Concat
<1>10. PICK l \in Nat : l = Len(t) OBVIOUS
<1>11. /\ Len(a) = 2 + l /\ a[1] = x /\ a[2] = y
       /\ \A k \in 1..l : a[2 + k] = t[k]
  BY <1>6, <1>9, <1>10
<1>12. 2 + l = l + 2 OBVIOUS
<1>13. Part(t, a, 2) BY <1>10, <1>11 DEF Part
<1>14. QED BY <1>1, <1>3, <1>4, <1>7, <1>8, <1>9, <1>10, <1>11, <1>12, <1>13

(* More about parts: what is behind the header of an answer, and what is   *)
(* given to the callback.                                                  *)
LEMMA PartAppends ==
  ASSUME NEW s \in Seq(HttpBytes), NEW t \in Seq(HttpBytes), Part(s, t, 0), NEW x,
         Len(s) + 1 <= Len(t), x = t[Len(s) + 1]
  PROVE  Part(Append(s, x), t, 0) /\ Len(Append(s, x)) = Len(s) + 1
<1>1. PICK a \in Nat : a = Len(s) OBVIOUS
<1>2. PICK e \in Nat : e = Len(t) OBVIOUS
<1>3. \A i \in 1..a : s[i] = t[i]
  <2>1. \A i \in 1..a : s[i] = t[0 + i] BY <1>1 DEF Part
  <2>2. \A i \in 1..a : 0 + i = i OBVIOUS
  <2>3. QED BY <2>1, <2>2
<1>4. PICK y : y = Append(s, x) OBVIOUS
<1>5. Len(y) = a + 1 /\ y[a + 1] = x /\ \A i \in 1..a : y[i] = s[i]
  BY <1>1, <1>4
<1>6. ASSUME NEW i \in 1..(a + 1) PROVE y[i] = t[0 + i]
  <2>1. 0 + i = i OBVIOUS
  <2>2. CASE i = a + 1 BY <1>1, <1>5, <2>1, <2>2
  <2>3. CASE i # a + 1
    <3>1. i \in 1..a BY <2>3
    <3>2. QED BY <1>3, <1>5, <2>1, <3>1
  <2>4. QED BY <2>2, <2>3
<1>7. 0 + (a + 1) <= e BY <1>1, <1>2
<1>8. QED BY <1>1, <1>2, <1>4, <1>5, <1>6, <1>7 DEF Part

LEMMA PartWhole ==
  ASSUME NEW s \in Seq(HttpBytes), NEW t \in Seq(HttpBytes), Part(s, t, 0), Len(s) = Len(t)
  PROVE  s = t
<1>1. PICK a \in Nat : a = Len(s) /\ a = Len(t) OBVIOUS
<1>2. \A i \in 1..a : s[i] = t[i]
  <2>1. \A i \in 1..a : s[i] = t[0 + i] BY <1>1 DEF Part
  <2>2. \A i \in 1..a : 0 + i = i OBVIOUS
  <2>3. QED BY <2>1, <2>2
<1>3. QED BY <1>1, <1>2

LEMMA PartsNone ==
  ASSUME NEW t \in Seq(HttpBytes) PROVE Parts(<<>>, <<>>, t, 0, FALSE) /\ Part(<<>>, t, 0)
<1>1. Len(t) \in Nat /\ Len(<<>>) = 0 OBVIOUS
<1>2. QED BY <1>1 DEF Parts, Part

LEMMA PartsWhole ==
  ASSUME NEW t \in Seq(HttpBytes), NEW all PROVE Parts(<<>>, t, t, 0, all)
<1>1. PICK e \in Nat : e = Len(t) OBVIOUS
<1>2. Len(<<>>) = 0 /\ 0 + 0 = 0 /\ 0 + e = e /\ e <= e OBVIOUS
<1>3. \A i \in 1..e : t[i] = t[0 + i] OBVIOUS
<1>4. Part(<<>>, t, 0) BY PartsNone
<1>5. Part(t, t, 0) BY <1>1, <1>2, <1>3 DEF Part
<1>6. QED BY <1>1, <1>2, <1>4, <1>5 DEF Parts

(* Bytes of a body are left when a part of it is.                          *)
LEMMA OfBodyPart ==
  ASSUME NEW s \in Seq(HttpBytes), NEW t, OfBody(t), NEW q \in Nat, Part(s, t, q)
  PROVE  OfBody(s)
<1>1. PICK a \in Nat : a = Len(s) OBVIOUS
<1>2. t \in Seq(HttpBytes) BY DEF OfBody
<1>3. PICK e \in Nat : e = Len(t) BY <1>2
<1>4. q + a <= e /\ \A i \in 1..a : s[i] = t[q + i] BY <1>1, <1>3 DEF Part
<1>5. \A i \in 1..a : q + i \in 1..e BY <1>4
<1>6. \A k \in 1..e : t[k].kind \in BodyKinds BY <1>3 DEF OfBody
<1>7. QED BY <1>1, <1>4, <1>5, <1>6 DEF OfBody

LEMMA OfBodyStarts ==
  ASSUME NEW s, OfBody(s), NEW n \in Nat, n <= Len(s) PROVE OfBody(SubSeq(s, 1, n))
<1>1. s \in Seq(HttpBytes) BY DEF OfBody
<1>2. SubSeq(s, 1, n) \in Seq(HttpBytes) /\ Len(SubSeq(s, 1, n)) = n
      /\ \A i \in 1..n : SubSeq(s, 1, n)[i] = s[i]
  BY <1>1, PrefixOf
<1>3. Len(s) \in Nat BY <1>1
<1>4. \A i \in 1..n : i \in 1..Len(s) BY <1>3
<1>5. QED BY <1>2, <1>4 DEF OfBody

LEMMA NothingIsOfBody == OfBody(<<>>) /\ <<>> \in Seq(HttpBytes)
  BY DEF OfBody

LEMMA OldOf ==
  ASSUME NEW s \in Seq(HttpBytes)
  PROVE  /\ Old(s) \in Seq(HttpBytes) /\ Len(Old(s)) = Len(s)
         /\ \A i \in 1..Len(s) : Old(s)[i].kind = s[i].kind
<1>1. PICK a \in Nat : a = Len(s) /\ DOMAIN s = 1..a OBVIOUS
<1>2. ASSUME NEW i \in 1..a
      PROVE [s[i] EXCEPT !.old = TRUE] \in HttpBytes
            /\ [s[i] EXCEPT !.old = TRUE].kind = s[i].kind
  <2>1. PICK x \in HttpBytes : x = s[i] BY <1>1
  <2>2. [x EXCEPT !.old = TRUE] \in HttpBytes /\ [x EXCEPT !.old = TRUE].kind = x.kind
    BY DEF HttpBytes
  <2>3. QED BY <2>1, <2>2
<1>3. PICK y : y = Old(s) OBVIOUS
<1>4. y = [i \in 1..a |-> [s[i] EXCEPT !.old = TRUE]] BY <1>1, <1>3 DEF Old
<1>5. y \in [1..a -> HttpBytes] /\ \A i \in 1..a : y[i].kind = s[i].kind BY <1>2, <1>4
<1>6. y \in Seq(HttpBytes) /\ Len(y) = a BY <1>5
<1>7. QED BY <1>1, <1>3, <1>5, <1>6

(* A header ends with the second byte of an answer.                        *)
LEMMA HeadIsTwo ==
  ASSUME NEW b \in AnyAnswer, NEW h \in Seq(HttpBytes), NEW w \in Seq(HttpBytes), NEW all,
         Parts(h, w, Answer(b), 0, all), EndsHead(h)
  PROVE  /\ PlaceOfEnd(h) = 2 /\ 2 <= Len(h) /\ h[1].of = b
         /\ Parts(SubSeq(h, 3, Len(h)), w, BodyBytes(b), 0, all)
<1>1. PICK t \in Seq(HttpBytes) : t = Answer(b) BY AnswerIs
<1>2. PICK y \in Seq(HttpBytes) : y = BodyBytes(b) BY BodyOf
<1>3. PICK a \in Nat : a = Len(h) OBVIOUS
<1>4. PICK c \in Nat : c = Len(w) OBVIOUS
<1>5. PICK l \in Nat : l = Len(y) OBVIOUS
<1>6. /\ Len(t) = l + 2 /\ t[1].kind = "head" /\ t[1].of = b /\ t[2].kind = "headend"
      /\ \A i \in 1..l : t[2 + i] = y[i]
  BY <1>1, <1>2, <1>5, AnswerIs
<1>7. \A i \in 1..l : y[i].kind \in BodyKinds BY <1>2, <1>5, BodyOf DEF OfBody
<1>8. /\ a + c <= l + 2 /\ (all => a + c = l + 2)
      /\ \A i \in 1..a : h[i] = t[i]
      /\ \A i \in 1..c : w[i] = t[a + i]
  <2>1. Parts(h, w, t, 0, all) BY <1>1
  <2>2. /\ \A i \in 1..a : h[i] = t[0 + i]
        /\ (0 + a) + c <= l + 2 /\ \A i \in 1..c : w[i] = t[(0 + a) + i]
        /\ all => (0 + a) + c = l + 2
    BY <1>3, <1>4, <1>6, <2>1 DEF Parts, Part
  <2>3. 0 + a = a /\ \A i \in 1..a : 0 + i = i OBVIOUS
  <2>4. QED BY <2>2, <2>3
<1>9. PICK e \in 1..a : h[e].kind = "headend" BY <1>3 DEF EndsHead
<1>10. e = 2
  <2>1. CASE e = 1
    <3>1. h[1] = t[1] BY <1>8, <2>1
    <3>2. QED BY <1>6, <1>9, <2>1, <3>1
  <2>2. CASE e > 2
    <3>1. PICK i \in 1..l : e = 2 + i
      <4>1. e - 2 \in 1..l /\ e = 2 + (e - 2) BY <1>8, <2>2
      <4>2. QED BY <4>1
    <3>2. h[e] = y[i] BY <1>6, <1>8, <3>1
    <3>3. "headend" \notin BodyKinds BY DEF BodyKinds
    <3>4. QED BY <1>7, <1>9, <3>2, <3>3
  <2>3. QED BY <2>1, <2>2
<1>11. 2 \in 1..a /\ 1 \in 1..a /\ 2 <= a BY <1>10
<1>12. h[1] = t[1] /\ h[2] = t[2] BY <1>8, <1>11
<1>13. PlaceOfEnd(h) = 2
  <2>1. PICK f : f = PlaceOfEnd(h) OBVIOUS
  <2> DEFINE P(i) == h[i].kind = "headend" /\ \A j \in 1..(i - 1) : h[j].kind # "headend"
  <2>2. f = CHOOSE i \in 1..a : P(i) BY <1>3, <2>1 DEF PlaceOfEnd
  <2>3. P(2)
    <3>1. \A j \in 1..(2 - 1) : j = 1 OBVIOUS
    <3>2. h[1].kind # "headend" /\ h[2].kind = "headend" BY <1>6, <1>12
    <3>3. QED BY <3>1, <3>2
  <2>4. f \in 1..a /\ P(f)
    <3> HIDE DEF P
    <3>1. \E i \in 1..a : P(i) BY <1>11, <2>3
    <3>2. QED BY <2>2, <3>1
  <2>5. h[f].kind = "headend" BY <2>4
  <2>6. \A j \in 1..(f - 1) : h[j].kind # "headend" BY <2>4
  <2>7. ~(f = 1)
    <3>1. h[1].kind # "headend" BY <1>6, <1>12
    <3>2. QED BY <2>5, <3>1
  <2>8. ~(f > 2)
    <3>1. h[2].kind = "headend" BY <1>6, <1>12
    <3>2. f > 2 => 2 \in 1..(f - 1) BY <2>4
    <3>3. QED BY <2>6, <3>1, <3>2
  <2>9. f = 2 BY <2>4, <2>7, <2>8
  <2>10. QED BY <2>1, <2>9
<1>14. PICK j \in Nat : j = a - 2 BY <1>11
<1>15. PICK r : r = SubSeq(h, 3, Len(h)) OBVIOUS
<1>16. r \in Seq(HttpBytes) /\ Len(r) = j /\ \A i \in 1..j : r[i] = h[2 + i]
  <2>1. r = SubSeq(h, 2 + 1, Len(h)) BY <1>15
  <2>2. 2 \in Nat /\ 2 <= Len(h) /\ Len(h) - 2 = j BY <1>3, <1>11, <1>14
  <2>3. QED BY <2>1, <2>2, RestOf
<1>17. Part(r, y, 0)
  <2>1. ASSUME NEW i \in 1..j PROVE r[i] = y[0 + i]
    <3>1. 2 + i \in 1..a /\ i \in 1..l /\ 0 + i = i BY <1>8, <1>14
    <3>2. QED BY <1>6, <1>8, <1>16, <3>1
  <2>2. 0 + j <= l BY <1>8, <1>14
  <2>3. QED BY <1>5, <1>16, <2>1, <2>2 DEF Part
<1>18. Part(w, y, 0 + j)
  <2>1. ASSUME NEW i \in 1..c PROVE w[i] = y[(0 + j) + i]
    <3>1. PICK k \in 1..l : k = (0 + j) + i /\ 2 + k = a + i BY <1>8, <1>11, <1>14
    <3>2. w[i] = t[a + i] /\ t[2 + k] = y[k] BY <1>6, <1>8
    <3>3. QED BY <3>1, <3>2
  <2>2. (0 + j) + c <= l BY <1>8, <1>11, <1>14
  <2>3. QED BY <1>4, <1>5, <2>1, <2>2 DEF Part
<1>19. ASSUME all PROVE (0 + j) + c = l
  <2>1. a + c = l + 2 BY <1>8, <1>19
  <2>2. QED BY <1>11, <1>14, <2>1
<1>20. Parts(r, w, y, 0, all) BY <1>4, <1>5, <1>16, <1>17, <1>18, <1>19 DEF Parts
<1>21. QED BY <1>2, <1>3, <1>6, <1>11, <1>12, <1>13, <1>15, <1>20

-----------------------------------------------------------------------------
(* What is received is always a part of the last answer, or, before its    *)
(* header, what an earlier one has left, which does not begin as a header. *)
BodyRecord == [chunked : BOOLEAN, cs : 0..5, csize : Nat, framed : BOOLEAN, remain : Nat]
HttpTypes ==
  /\ DOMAIN http = HttpFields /\ http.at \in HttpAts /\ http.redir \in 0..3
  /\ http.result \in {0, 1, -1, -2} /\ http.done \in {0, 1, -1}
  /\ http.body \in BodyRecord /\ http.kvalid \in BOOLEAN
  /\ http.hdr \in Seq(HttpBytes) /\ http.rb \in Seq(HttpBytes)
  /\ wire \in Seq(HttpBytes) /\ given \in Seq(HttpBytes)
  /\ answer \in AnyAnswer /\ alive \in BOOLEAN /\ stop \in BOOLEAN /\ asked \in Nat

NoHead(s) == s # <<>> /\ s[1].kind # "head"
HeadPart(h, w, a, all) ==
  \/ NoHead(h)
  \/ h = <<>> /\ NoHead(w)
  \/ Parts(h, w, Answer(a), 0, all)
HeadState == HeadPart(http.hdr, wire, answer, alive)
StatusState ==
  \/ NoHead(http.hdr)
  \/ http.hdr[1].of = answer /\ Parts(http.rb, wire, BodyBytes(answer), 0, alive)

(* Where body_feed is, and what it has given away; the end of a body.      *)
PlaceIn(a, body, q, g) ==
  IF a.framing = "chunked"
  THEN \E L : BodyShape(a, L) /\ AtPlace(a, L, q, body.cs, body.csize, Len(g))
  ELSE q = Len(g) /\ (a.framing = "length" => body.remain + q = a.length)
Full(a, q, g) == g = Payload(a) /\ (~a.trailer => q = Len(BodyBytes(a)))
FeedAt(q) ==
  /\ Parts(http.rb, wire, BodyBytes(answer), q, alive)
  /\ http.done = 0 => PlaceIn(answer, http.body, q, given)
  /\ http.done = 1 => Full(answer, q, given)
FeedState ==
  /\ answer \in HttpBodies
  /\ http.body.chunked <=> answer.framing = "chunked"
  /\ http.body.framed <=> answer.framing = "length"
  /\ Part(given, Payload(answer), 0)
  /\ \E q \in Nat : FeedAt(q)

EndState == http.result = 0 /\ answer.framing # "close" => given = Payload(answer)
HttpInv ==
  /\ HttpTypes
  /\ http.at \in {"idle", "open", "write"} => OfBody(wire)
  /\ http.at \notin {"idle", "feed"} => given = <<>>
  /\ http.at = "idle" => EndState
  /\ http.at = "head" => HeadState
  /\ http.at = "status" => StatusState
  /\ http.at = "feed" => FeedState
  /\ http.at \notin {"idle", "open"} => ~http.kvalid
  /\ HttpKeptIsClean

LEMMA HttpBegins == HttpInit => HttpInv
<1> SUFFICES ASSUME HttpInit PROVE HttpInv OBVIOUS
<1>1. NoBody \in BodyRecord BY DEF NoBody, BodyRecord
<1>2. /\ DOMAIN http = HttpFields /\ http.at = "idle" /\ http.redir = 0 /\ http.result = 1
      /\ http.done = 0 /\ http.body = NoBody /\ http.kvalid = FALSE
      /\ http.hdr = <<>> /\ http.rb = <<>>
  BY DEF HttpInit, HttpFields
<1>3. /\ wire = <<>> /\ alive = FALSE /\ answer = NoAnswer /\ given = <<>> /\ asked = 0
      /\ stop = FALSE
  BY DEF HttpInit
<1>4. HttpTypes
  <2>1. /\ "idle" \in HttpAts /\ 0 \in 0..3 /\ 1 \in {0, 1, -1, -2} /\ 0 \in {0, 1, -1}
        /\ FALSE \in BOOLEAN /\ 0 \in Nat
    BY DEF HttpAts
  <2>2. NoAnswer \in AnyAnswer BY DEF AnyAnswer
  <2>3. <<>> \in Seq(HttpBytes) OBVIOUS
  <2>4. QED BY <1>1, <1>2, <1>3, <2>1, <2>2, <2>3, Zenon DEF HttpTypes
<1>5. EndState BY <1>2 DEF EndState
<1>6. HttpKeptIsClean BY <1>2 DEF HttpKeptIsClean
<1>7. QED BY <1>2, <1>3, <1>4, <1>5, <1>6, NothingIsOfBody DEF HttpInv

(* The connection is closed, and the call returns or tries again.          *)
HttpSame == http'.hdr = http.hdr /\ http'.rb = http.rb /\ http'.body = http.body
            /\ http'.done = http.done
LEMMA HttpCloses ==
  ASSUME HttpInv, HttpClose, UNCHANGED <<answer, given, stop, asked>>,
         DOMAIN http' = HttpFields, HttpSame, http'.redir \in 0..3,
         http'.result \in {0, 1, -1, -2}, http'.kvalid = FALSE,
         \/ http'.at = "open" /\ given = <<>>
         \/ http'.at = "idle"
            /\ (http'.result = 0 => answer.framing = "close" \/ given = Payload(answer))
  PROVE  HttpInv'
<1>1. wire' = <<>> /\ alive' = FALSE BY DEF HttpClose
<1>2. HttpTypes BY DEF HttpInv
<1>3. HttpTypes'
  BY <1>1, <1>2, NothingIsOfBody DEF HttpTypes, HttpSame, HttpAts
<1>4. OfBody(wire') BY <1>1, NothingIsOfBody
<1>5. HttpKeptIsClean' BY <1>1 DEF HttpKeptIsClean
<1>6. http'.at = "idle" => EndState' BY DEF EndState
<1>7. http'.at \in {"idle", "open"} /\ (http'.at = "open" => given' = <<>>) OBVIOUS
<1>8. QED BY <1>3, <1>4, <1>5, <1>6, <1>7 DEF HttpInv

LEMMA HttpCloseReturns ==
  ASSUME HttpInv, NEW c \in {0, -1, -2}, CloseReturn(c), UNCHANGED <<answer, given, stop, asked>>,
         http.at \notin {"idle", "open"},
         c = 0 => answer.framing = "close" \/ given = Payload(answer)
  PROVE  HttpInv'
<1>1. DOMAIN http = HttpFields /\ http.redir \in 0..3 BY DEF HttpInv, HttpTypes
<1>2. ~http.kvalid /\ http.kvalid \in BOOLEAN BY DEF HttpInv, HttpTypes
<1>3. HttpClose /\ http' = [http EXCEPT !.at = "idle", !.result = c]
  BY DEF CloseReturn, HttpReturn
<1>4. /\ DOMAIN http' = HttpFields /\ HttpSame /\ http'.redir = http.redir
      /\ http'.result = c /\ http'.kvalid = http.kvalid /\ http'.at = "idle"
  BY <1>1, <1>3 DEF HttpFields, HttpSame
<1>5. QED BY <1>1, <1>2, <1>3, <1>4, HttpCloses

LEMMA HttpRetries ==
  ASSUME HttpInv, HttpClose, UNCHANGED <<answer, given, stop, asked>>,
         http.at \notin {"idle", "open", "feed"}, NEW r \in 0..3,
         http' = [http EXCEPT !.at = "open", !.redir = r, !.allowed = TRUE]
         \/ (Retry /\ r = http.redir)
  PROVE  HttpInv'
<1>1. DOMAIN http = HttpFields /\ http.result \in {0, 1, -1, -2} BY DEF HttpInv, HttpTypes
<1>2. ~http.kvalid /\ http.kvalid \in BOOLEAN /\ given = <<>> BY DEF HttpInv, HttpTypes
<1>3. /\ DOMAIN http' = HttpFields /\ HttpSame /\ http'.redir = r
      /\ http'.result = http.result /\ http'.kvalid = http.kvalid /\ http'.at = "open"
  BY <1>1 DEF HttpFields, HttpSame, Retry
<1>4. QED BY <1>1, <1>2, <1>3, HttpCloses

LEMMA HttpGivesUp ==
  ASSUME HttpInv,
         HeadStopped \/ HeadTimeout \/ HeadClosed \/ WriteFails \/ OpenFails
         \/ StatusRedirect \/ StatusError \/ BodyStopped \/ BodyTimeout
  PROVE  HttpInv'
<1> USE DEF HttpAt
<1>1. CASE HeadStopped
  <2>1. CloseReturn(-2) /\ http.at = "head" /\ UNCHANGED <<answer, given, stop, asked>>
    BY <1>1 DEF HeadStopped
  <2>2. QED BY <2>1, HttpCloseReturns
<1>2. CASE HeadTimeout
  <2>1. CloseReturn(-1) /\ http.at = "head" /\ UNCHANGED <<answer, given, stop, asked>>
    BY <1>2 DEF HeadTimeout
  <2>2. QED BY <2>1, HttpCloseReturns
<1>3. CASE HeadClosed \/ WriteFails
  <2>1. /\ HttpClose /\ http.at \in {"head", "write"} /\ UNCHANGED <<answer, given, stop, asked>>
        /\ Retry \/ HttpReturn(-1)
    BY <1>3 DEF HeadClosed, WriteFails
  <2>2. CASE Retry
    <3>1. http.redir \in 0..3 BY DEF HttpInv, HttpTypes
    <3>2. QED BY <2>1, <2>2, <3>1, HttpRetries
  <2>3. CASE HttpReturn(-1)
    <3>1. CloseReturn(-1) BY <2>1, <2>3 DEF CloseReturn
    <3>2. QED BY <2>1, <3>1, HttpCloseReturns
  <2>4. QED BY <2>1, <2>2, <2>3
<1>4. CASE OpenFails
  <2>1. /\ HttpClose /\ UNCHANGED <<answer, given, stop, asked>>
        /\ http' = [http EXCEPT !.at = "idle", !.kvalid = FALSE, !.result = -1]
    BY <1>4 DEF OpenFails
  <2>2. DOMAIN http = HttpFields /\ http.redir \in 0..3 BY DEF HttpInv, HttpTypes
  <2>3. /\ DOMAIN http' = HttpFields /\ HttpSame /\ http'.redir = http.redir
        /\ http'.result = -1 /\ http'.kvalid = FALSE /\ http'.at = "idle"
    BY <2>1, <2>2 DEF HttpFields, HttpSame
  <2>4. QED BY <2>1, <2>2, <2>3, HttpCloses
<1>5. CASE StatusRedirect
  <2>1. HttpClose /\ http.at = "status" /\ UNCHANGED <<answer, given, stop, asked>>
    BY <1>5 DEF StatusRedirect
  <2>2. http.redir \in 0..3 BY DEF HttpInv, HttpTypes
  <2>3. CASE /\ http.redir < 3
             /\ http' = [http EXCEPT !.at = "open", !.redir = @ + 1, !.allowed = TRUE]
    <3>1. PICK r \in 0..3 : r = http.redir + 1 BY <2>2, <2>3
    <3>2. http' = [http EXCEPT !.at = "open", !.redir = r, !.allowed = TRUE]
      BY <2>3, <3>1
    <3>3. QED BY <2>1, <3>2, HttpRetries
  <2>4. CASE HttpReturn(-1)
    <3>1. CloseReturn(-1) BY <2>1, <2>4 DEF CloseReturn
    <3>2. QED BY <2>1, <3>1, HttpCloseReturns
  <2>5. QED BY <1>5, <2>3, <2>4 DEF StatusRedirect
<1>6. CASE StatusError
  <2>1. CloseReturn(-1) /\ http.at = "status" /\ UNCHANGED <<answer, given, stop, asked>>
    BY <1>6 DEF StatusError
  <2>2. QED BY <2>1, HttpCloseReturns
<1>7. CASE BodyStopped
  <2>1. CloseReturn(-2) /\ http.at = "feed" /\ UNCHANGED <<answer, given, stop, asked>>
    BY <1>7 DEF BodyStopped, Needed
  <2>2. QED BY <2>1, HttpCloseReturns
<1>8. CASE BodyTimeout
  <2>1. CloseReturn(-1) /\ http.at = "feed" /\ UNCHANGED <<answer, given, stop, asked>>
    BY <1>8 DEF BodyTimeout, Needed
  <2>2. QED BY <2>1, HttpCloseReturns
<1>9. QED BY <1>1, <1>2, <1>3, <1>4, <1>5, <1>6, <1>7, <1>8

(* ... with a body that is whole, or ends with the connection.             *)
LEMMA HttpEnds ==
  ASSUME HttpInv, BodyClosed \/ EndClose PROVE HttpInv'
<1> USE DEF HttpAt
<1>1. http.at = "feed" /\ UNCHANGED <<answer, given, stop, asked>>
  BY DEF BodyClosed, EndClose, Needed
<1>2. FeedState BY <1>1 DEF HttpInv
<1>3. CASE BodyClosed
  <2>1. CASE ~http.body.chunked /\ ~http.body.framed
    <3>1. CloseReturn(0) BY <1>3, <2>1 DEF BodyClosed
    <3>2. answer \in Answers BY <1>2, ChunksOf DEF FeedState
    <3>3. answer.framing = "close" BY <1>2, <2>1, <3>2 DEF FeedState, Answers
    <3>4. QED BY <1>1, <3>1, <3>3, HttpCloseReturns
  <2>2. CASE ~(~http.body.chunked /\ ~http.body.framed)
    <3>1. CloseReturn(-1) BY <1>3, <2>2 DEF BodyClosed
    <3>2. QED BY <1>1, <3>1, HttpCloseReturns
  <2>3. QED BY <2>1, <2>2
<1>4. CASE EndClose
  <2>1. CASE http.done = 1 /\ CloseReturn(0)
    <3>1. given = Payload(answer) BY <1>2, <2>1 DEF FeedState, FeedAt, Full
    <3>2. QED BY <1>1, <2>1, <3>1, HttpCloseReturns
  <2>2. CASE CloseReturn(-1) BY <1>1, <2>2, HttpCloseReturns
  <2>3. QED BY <1>4, <2>1, <2>2 DEF EndClose
<1>5. QED BY <1>3, <1>4

LEMMA NoneOf == ASSUME NEW S, NEW s \in Seq(S), Len(s) = 0 PROVE s = <<>>
  OBVIOUS

LEMMA HttpKeeps ==
  ASSUME HttpInv, KeepConnection PROVE HttpInv'
<1> USE DEF HttpAt
<1>1. /\ http.at = "feed" /\ http.done = 1 /\ UNCHANGED <<wire, alive, answer, given, stop, asked>>
      /\ http' = [http EXCEPT !.at = "idle", !.kvalid = TRUE, !.result = 0]
  BY DEF KeepConnection
<1>2. HttpTypes /\ FeedState BY <1>1 DEF HttpInv
<1>3. DOMAIN http = HttpFields BY <1>2 DEF HttpTypes
<1>4. /\ DOMAIN http' = HttpFields /\ HttpSame /\ http'.redir = http.redir
      /\ http'.result = 0 /\ http'.kvalid = TRUE /\ http'.at = "idle"
  BY <1>1, <1>3 DEF HttpFields, HttpSame
<1>5. HttpTypes' BY <1>1, <1>2, <1>4 DEF HttpTypes, HttpSame, HttpAts
<1>6. PICK q \in Nat : /\ Parts(http.rb, wire, BodyBytes(answer), q, alive)
                       /\ Full(answer, q, given)
  BY <1>1, <1>2 DEF FeedState, FeedAt
<1>7. EndState' BY <1>1, <1>6 DEF EndState, Full
<1>8. PICK u \in Seq(HttpBytes) : u = http.rb BY <1>2 DEF HttpTypes
<1>9. PICK w \in Seq(HttpBytes) : w = wire BY <1>2 DEF HttpTypes
<1>10. PICK y : y = BodyBytes(answer) /\ y \in Seq(HttpBytes) /\ OfBody(y)
  BY <1>2, BodyOf DEF HttpTypes
<1>11. PICK p \in Nat : p = q + Len(u) OBVIOUS
<1>12. Part(w, y, p) BY <1>6, <1>8, <1>9, <1>10, <1>11 DEF Parts
<1>13. OfBody(wire') BY <1>1, <1>9, <1>10, <1>12, OfBodyPart
<1>14. ASSUME ~answer.trailer PROVE wire = <<>>
  <2>1. q = Len(y) BY <1>6, <1>10, <1>14 DEF Full
  <2>2. p + Len(w) <= Len(y) BY <1>12 DEF Part
  <2>3. PICK l \in Nat : l = Len(w) OBVIOUS
  <2>4. PICK a \in Nat : a = Len(u) OBVIOUS
  <2>5. (q + a) + l <= q BY <1>11, <2>1, <2>2, <2>3, <2>4
  <2>6. l = 0 BY <2>5
  <2>7. w = <<>> BY <2>3, <2>6, NoneOf
  <2>8. QED BY <1>9, <2>7, Zenon
<1>15. HttpKeptIsClean' BY <1>1, <1>14 DEF HttpKeptIsClean
<1>16. QED BY <1>4, <1>5, <1>7, <1>13, <1>15 DEF HttpInv

(* A call begins, and takes the kept connection or a new one.              *)
LEMMA HttpOpens ==
  ASSUME HttpInv, HttpCall \/ TakeKept \/ OpenNew PROVE HttpInv'
<1> USE DEF HttpAt
<1>1. HttpTypes /\ DOMAIN http = HttpFields BY DEF HttpInv, HttpTypes
<1>2. CASE HttpCall
  <2>1. /\ http.at = "idle" /\ given' = <<>> /\ asked' = 0
        /\ UNCHANGED <<wire, alive, answer, stop>>
        /\ http' = [http EXCEPT !.at = "open", !.calls = @ + 1, !.redir = 0,
                                !.allowed = TRUE, !.result = 1]
    BY <1>2 DEF HttpCall
  <2>2. /\ DOMAIN http' = HttpFields /\ HttpSame /\ http'.redir = 0
        /\ http'.result = 1 /\ http'.kvalid = http.kvalid /\ http'.at = "open"
    BY <1>1, <2>1 DEF HttpFields, HttpSame
  <2>3. HttpTypes' BY <1>1, <2>1, <2>2, NothingIsOfBody DEF HttpTypes, HttpSame, HttpAts
  <2>4. OfBody(wire') /\ HttpKeptIsClean' BY <2>1, <2>2 DEF HttpInv, HttpKeptIsClean
  <2>5. QED BY <2>1, <2>2, <2>3, <2>4 DEF HttpInv
<1>3. CASE TakeKept
  <2>1. /\ http.at = "open" /\ UNCHANGED <<wire, alive, answer, given, stop, asked>>
        /\ http' = [http EXCEPT !.at = "write", !.kvalid = FALSE, !.reused = TRUE]
    BY <1>3 DEF TakeKept
  <2>2. /\ DOMAIN http' = HttpFields /\ HttpSame /\ http'.redir = http.redir
        /\ http'.result = http.result /\ http'.kvalid = FALSE /\ http'.at = "write"
    BY <1>1, <2>1 DEF HttpFields, HttpSame
  <2>3. HttpTypes' BY <1>1, <2>1, <2>2 DEF HttpTypes, HttpSame, HttpAts
  <2>4. OfBody(wire') /\ HttpKeptIsClean' /\ given' = <<>>
    BY <2>1, <2>2 DEF HttpInv, HttpKeptIsClean
  <2>5. QED BY <2>1, <2>2, <2>3, <2>4 DEF HttpInv
<1>4. CASE OpenNew
  <2>1. /\ http.at = "open" /\ UNCHANGED <<answer, given, stop, asked>>
        /\ wire' = <<>> /\ alive' = TRUE
        /\ http' = [http EXCEPT !.at = "write", !.kvalid = FALSE, !.reused = FALSE]
    BY <1>4 DEF OpenNew
  <2>2. /\ DOMAIN http' = HttpFields /\ HttpSame /\ http'.redir = http.redir
        /\ http'.result = http.result /\ http'.kvalid = FALSE /\ http'.at = "write"
    BY <1>1, <2>1 DEF HttpFields, HttpSame
  <2>3. HttpTypes' BY <1>1, <2>1, <2>2, NothingIsOfBody DEF HttpTypes, HttpSame, HttpAts
  <2>4. OfBody(wire') /\ HttpKeptIsClean' /\ given' = <<>>
    BY <2>1, <2>2, NothingIsOfBody DEF HttpInv, HttpKeptIsClean
  <2>5. QED BY <2>1, <2>2, <2>3, <2>4 DEF HttpInv
<1>5. QED BY <1>2, <1>3, <1>4

(* A request is written, its header received, and the body begun.          *)
LEMMA NoHeadOf == ASSUME NEW s, OfBody(s), s # <<>> PROVE NoHead(s)
<1>1. s \in Seq(HttpBytes) BY DEF OfBody
<1>2. 1 \in 1..Len(s) BY <1>1
<1>3. s[1].kind \in BodyKinds BY <1>2 DEF OfBody
<1>4. "head" \notin BodyKinds BY DEF BodyKinds
<1>5. QED BY <1>3, <1>4 DEF NoHead

LEMMA FirstJoined ==
  ASSUME NEW S, NEW s \in Seq(S), NEW t \in Seq(S)
  PROVE  /\ s = <<>> => s \o t = t
         /\ s # <<>> => s \o t # <<>> /\ (s \o t)[1] = s[1]
<1>1. CASE s = <<>> BY <1>1
<1>2. CASE s # <<>>
  <2>1. PICK a \in Nat : a = Len(s) /\ a > 0 BY <1>2
  <2>2. 1 \in 1..Len(s) /\ Len(s \o t) > 0 BY <2>1
  <2>3. (s \o t)[1] = s[1] BY <2>2, Concat
  <2>4. s \o t # <<>> BY <2>2
  <2>5. QED BY <1>2, <2>3, <2>4
<1>3. QED BY <1>1, <1>2

LEMMA RequestWritten ==
  ASSUME NEW w, OfBody(w), NEW a \in AnyAnswer
  PROVE  /\ Old(w) \o Answer(a) \in Seq(HttpBytes)
         /\ HeadPart(<<>>, Old(w) \o Answer(a), a, TRUE)
<1>1. w \in Seq(HttpBytes) BY DEF OfBody
<1>2. PICK t \in Seq(HttpBytes) : t = Answer(a) BY AnswerIs
<1>3. PICK o \in Seq(HttpBytes) : /\ o = Old(w) /\ Len(o) = Len(w)
                                  /\ \A i \in 1..Len(w) : o[i].kind = w[i].kind
  BY <1>1, OldOf
<1>4. o \o t \in Seq(HttpBytes) OBVIOUS
<1>5. CASE w = <<>>
  <2>1. Len(o) = 0 BY <1>3, <1>5
  <2>2. o = <<>> BY <2>1, NoneOf
  <2>3. o \o t = t BY <2>2, FirstJoined
  <2>4. Parts(<<>>, t, t, 0, TRUE) BY PartsWhole
  <2>5. QED BY <1>2, <1>3, <1>4, <2>3, <2>4 DEF HeadPart
<1>6. CASE w # <<>>
  <2>1. PICK l \in Nat : l = Len(w) /\ l > 0 BY <1>1, <1>6
  <2>2. 1 \in 1..Len(w) BY <2>1
  <2>3. o[1].kind = w[1].kind /\ w[1].kind # "head" BY <1>3, <1>6, <2>2, NoHeadOf DEF NoHead
  <2>4. o # <<>>
    <3>1. Len(o) # 0 BY <1>3, <2>1
    <3>2. QED BY <3>1
  <2>5. NoHead(o \o t) BY <2>3, <2>4, FirstJoined DEF NoHead
  <2>6. QED BY <1>2, <1>3, <1>4, <2>5 DEF HeadPart
<1>7. QED BY <1>5, <1>6

LEMMA HttpWrites ==
  ASSUME HttpInv, WriteRequest PROVE HttpInv'
<1> USE DEF HttpAt
<1>1. /\ http.at = "write" /\ UNCHANGED <<alive, given, stop>> /\ asked' = asked + 1
      /\ http' = [http EXCEPT !.at = "head", !.hdr = <<>>]
  BY DEF WriteRequest
<1>2. HttpTypes /\ DOMAIN http = HttpFields BY DEF HttpInv, HttpTypes
<1>3. OfBody(wire) /\ given = <<>> /\ ~http.kvalid BY <1>1 DEF HttpInv
<1>4. /\ DOMAIN http' = HttpFields /\ http'.at = "head" /\ http'.hdr = <<>>
      /\ http'.rb = http.rb /\ http'.body = http.body /\ http'.done = http.done
      /\ http'.redir = http.redir /\ http'.result = http.result /\ http'.kvalid = http.kvalid
  BY <1>1, <1>2 DEF HttpFields
<1>5. answer' \in AnyAnswer /\ wire' \in Seq(HttpBytes) /\ HeadPart(<<>>, wire', answer', alive)
  <2>1. CASE alive
    <3>1. PICK b \in HttpBodies : answer' = b /\ wire' = Old(wire) \o Answer(b)
      BY <2>1 DEF WriteRequest
    <3>2. b \in AnyAnswer BY DEF AnyAnswer
    <3>3. alive = TRUE BY <1>2, <2>1 DEF HttpTypes
    <3>4. /\ Old(wire) \o Answer(b) \in Seq(HttpBytes)
          /\ HeadPart(<<>>, Old(wire) \o Answer(b), b, TRUE)
      BY <1>3, <3>2, RequestWritten
    <3>5. QED BY <3>1, <3>2, <3>3, <3>4
  <2>2. CASE ~alive
    <3>1. answer' = answer /\ wire' = wire BY <2>2 DEF WriteRequest
    <3>2. answer \in AnyAnswer /\ wire \in Seq(HttpBytes) /\ alive = FALSE
      BY <1>2, <2>2 DEF HttpTypes
    <3>3. CASE wire = <<>>
      <4>1. Answer(answer) \in Seq(HttpBytes) BY <3>2, AnswerIs
      <4>2. Parts(<<>>, <<>>, Answer(answer), 0, FALSE) BY <4>1, PartsNone
      <4>3. QED BY <3>1, <3>2, <3>3, <4>2 DEF HeadPart
    <3>4. CASE wire # <<>>
      <4>1. NoHead(wire) BY <1>3, <3>4, NoHeadOf
      <4>2. QED BY <3>1, <3>2, <4>1 DEF HeadPart
    <3>5. QED BY <3>3, <3>4
  <2>3. QED BY <2>1, <2>2
<1>6. HttpTypes'
  <2>1. asked' \in Nat BY <1>1, <1>2 DEF HttpTypes
  <2>2. "head" \in HttpAts /\ <<>> \in Seq(HttpBytes) BY DEF HttpAts
  <2>3. QED BY <1>1, <1>2, <1>4, <1>5, <2>1, <2>2 DEF HttpTypes
<1>7. HeadState' BY <1>1, <1>4, <1>5 DEF HeadState
<1>8. HttpKeptIsClean' BY <1>3, <1>4 DEF HttpKeptIsClean
<1>9. QED BY <1>1, <1>3, <1>4, <1>6, <1>7, <1>8 DEF HttpInv

LEMMA HeadPartGrows ==
  ASSUME NEW h \in Seq(HttpBytes), NEW w \in Seq(HttpBytes), NEW a \in AnyAnswer, NEW all,
         HeadPart(h, w, a, all), NEW n \in Nat \ {0}, n <= Len(w)
  PROVE  \/ NoHead(h \o SubSeq(w, 1, n))
         \/ Parts(h \o SubSeq(w, 1, n), SubSeq(w, n + 1, Len(w)), Answer(a), 0, all)
<1>1. PICK x \in Seq(HttpBytes) : /\ x = SubSeq(w, 1, n) /\ Len(x) = n
                                  /\ \A i \in 1..n : x[i] = w[i]
  <2>1. n \in Nat OBVIOUS
  <2>2. /\ SubSeq(w, 1, n) \in Seq(HttpBytes) /\ Len(SubSeq(w, 1, n)) = n
        /\ \A i \in 1..n : SubSeq(w, 1, n)[i] = w[i]
    BY <2>1, PrefixOf
  <2>3. QED BY <2>2
<1>2. x # <<>> /\ x[1] = w[1] BY <1>1
<1>3. CASE NoHead(h)
  <2>1. h # <<>> /\ h[1].kind # "head" BY <1>3 DEF NoHead
  <2>2. NoHead(h \o x) BY <2>1, FirstJoined DEF NoHead
  <2>3. QED BY <1>1, <2>2
<1>4. CASE h = <<>> /\ NoHead(w)
  <2>1. h \o x = x BY <1>4, FirstJoined
  <2>2. NoHead(h \o x) BY <1>2, <1>4, <2>1 DEF NoHead
  <2>3. QED BY <1>1, <2>2
<1>5. CASE Parts(h, w, Answer(a), 0, all)
  <2>1. PICK t \in Seq(HttpBytes) : t = Answer(a) BY AnswerIs
  <2>2. Parts(h, w, t, 0, all) BY <1>5, <2>1
  <2>3. Parts(h \o SubSeq(w, 1, n), SubSeq(w, n + 1, Len(w)), t, 0, all) BY <2>2, PartsReceive
  <2>4. QED BY <2>1, <2>3
<1>6. QED BY <1>3, <1>4, <1>5 DEF HeadPart

LEMMA PlaceOfEndIs ==
  ASSUME NEW g \in Seq(HttpBytes), EndsHead(g) PROVE PlaceOfEnd(g) \in 1..Len(g)
<1>1. PICK l \in Nat : l = Len(g) OBVIOUS
<1> DEFINE T == {i \in 1..l : g[i].kind = "headend"}
           P(i) == g[i].kind = "headend" /\ \A j \in 1..(i - 1) : g[j].kind # "headend"
<1>2. T # {} BY <1>1 DEF EndsHead
<1>3. T \in SUBSET (1..l) OBVIOUS
<1>4. PICK e \in T : \A j \in T : e <= j
  <2> HIDE DEF T
  <2>1. QED BY <1>2, <1>3, FirstIn
<1>5. P(e)
  <2>1. ASSUME NEW j \in 1..(e - 1) PROVE g[j].kind # "headend"
    <3>1. j \in 1..l /\ ~(e <= j) OBVIOUS
    <3>2. QED BY <1>4, <3>1
  <2>2. QED BY <2>1
<1>6. e \in 1..l OBVIOUS
<1>7. PlaceOfEnd(g) = CHOOSE i \in 1..l : P(i) BY <1>1 DEF PlaceOfEnd
<1> HIDE DEF P, T
<1>8. (CHOOSE i \in 1..l : P(i)) \in 1..l BY <1>5, <1>6
<1>9. QED BY <1>1, <1>7, <1>8

HeadOf(g) == SubSeq(g, 1, PlaceOfEnd(g))
BehindHead(g) == SubSeq(g, PlaceOfEnd(g) + 1, Len(g))
LEMMA HeadEnds ==
  ASSUME NEW g \in Seq(HttpBytes), NEW w \in Seq(HttpBytes), NEW a \in AnyAnswer, NEW all,
         NoHead(g) \/ Parts(g, w, Answer(a), 0, all), EndsHead(g)
  PROVE  /\ HeadOf(g) \in Seq(HttpBytes) /\ BehindHead(g) \in Seq(HttpBytes)
         /\ \/ NoHead(HeadOf(g))
            \/ HeadOf(g)[1].of = a /\ Parts(BehindHead(g), w, BodyBytes(a), 0, all)
<1>1. PICK l \in Nat : l = Len(g) OBVIOUS
<1>2. PICK e \in Nat : e = PlaceOfEnd(g) /\ e \in 1..l BY <1>1, PlaceOfEndIs
<1>3. e <= Len(g) /\ 1 \in 1..e BY <1>1, <1>2
<1>4. PICK h \in Seq(HttpBytes) : h = HeadOf(g) /\ Len(h) = e /\ h[1] = g[1]
  <2>1. /\ SubSeq(g, 1, e) \in Seq(HttpBytes) /\ Len(SubSeq(g, 1, e)) = e
        /\ \A i \in 1..e : SubSeq(g, 1, e)[i] = g[i]
    BY <1>3, PrefixOf
  <2>2. SubSeq(g, 1, e) = HeadOf(g) BY <1>2 DEF HeadOf
  <2>3. QED BY <1>3, <2>1, <2>2
<1>5. PICK r \in Seq(HttpBytes) : r = BehindHead(g) /\ r = SubSeq(g, e + 1, Len(g))
  <2>1. SubSeq(g, e + 1, Len(g)) \in Seq(HttpBytes) BY <1>3, RestOf
  <2>2. SubSeq(g, e + 1, Len(g)) = BehindHead(g) BY <1>2 DEF BehindHead
  <2>3. QED BY <2>1, <2>2
<1>6. CASE NoHead(g)
  <2>1. h # <<>> BY <1>2, <1>4
  <2>2. NoHead(h) BY <1>4, <1>6, <2>1 DEF NoHead
  <2>3. QED BY <1>4, <1>5, <2>2
<1>7. CASE Parts(g, w, Answer(a), 0, all)
  <2>1. PlaceOfEnd(g) = 2 /\ g[1].of = a /\ Parts(SubSeq(g, 3, Len(g)), w, BodyBytes(a), 0, all)
    BY <1>7, HeadIsTwo
  <2>2. e + 1 = 3 BY <1>2, <2>1
  <2>3. QED BY <1>4, <1>5, <2>1, <2>2
<1>8. QED BY <1>6, <1>7

LEMMA HttpHeadReceives ==
  ASSUME HttpInv, HeadReceive PROVE HttpInv'
<1> USE DEF HttpAt
<1>1. http.at = "head" /\ UNCHANGED <<alive, answer, given, stop, asked>> BY DEF HeadReceive
<1>2. HttpTypes /\ DOMAIN http = HttpFields BY DEF HttpInv, HttpTypes
<1>3. HeadState /\ given = <<>> /\ ~http.kvalid BY <1>1 DEF HttpInv
<1>4. PICK n \in 1..HttpReceive :
        /\ n <= Len(wire) /\ wire' = SubSeq(wire, n + 1, Len(wire))
        /\ http' = IF EndsHead(http.hdr \o HttpReceived(n))
                   THEN [http EXCEPT !.at = "status",
                          !.hdr = SubSeq(http.hdr \o HttpReceived(n), 1,
                                         PlaceOfEnd(http.hdr \o HttpReceived(n))),
                          !.rb = SubSeq(http.hdr \o HttpReceived(n),
                                        PlaceOfEnd(http.hdr \o HttpReceived(n)) + 1,
                                        Len(http.hdr \o HttpReceived(n)))]
                   ELSE [http EXCEPT !.hdr = http.hdr \o HttpReceived(n)]
  BY DEF HeadReceive, Arrives
<1>5. n \in Nat \ {0} OBVIOUS
<1>6. PICK h \in Seq(HttpBytes) : h = http.hdr BY <1>2 DEF HttpTypes
<1>7. PICK w \in Seq(HttpBytes) : w = wire BY <1>2 DEF HttpTypes
<1>8. answer \in AnyAnswer BY <1>2 DEF HttpTypes
<1>9. PICK v \in Seq(HttpBytes) : v = SubSeq(w, n + 1, Len(w)) /\ v = wire'
  BY <1>4, <1>5, <1>7, RestOf
<1>10. PICK g \in Seq(HttpBytes) : g = http.hdr \o HttpReceived(n) /\ g = h \o SubSeq(w, 1, n)
  <2>1. SubSeq(w, 1, n) \in Seq(HttpBytes) BY <1>4, <1>5, <1>7, PrefixOf
  <2>2. h \o SubSeq(w, 1, n) \in Seq(HttpBytes) BY <2>1
  <2>3. QED BY <1>6, <1>7, <2>2 DEF HttpReceived
<1>11. NoHead(g) \/ Parts(g, v, Answer(answer), 0, alive)
  <2>1. HeadPart(h, w, answer, alive) /\ n <= Len(w) BY <1>3, <1>4, <1>6, <1>7 DEF HeadState
  <2>2. QED BY <1>5, <1>8, <1>9, <1>10, <2>1, HeadPartGrows
<1>12. CASE EndsHead(g)
  <2>1. PICK p : p = HeadOf(g) OBVIOUS
  <2>2. PICK r : r = BehindHead(g) OBVIOUS
  <2>3. http' = [http EXCEPT !.at = "status", !.hdr = p, !.rb = r]
    BY <1>4, <1>10, <1>12, <2>1, <2>2 DEF HeadOf, BehindHead
  <2>4. /\ p \in Seq(HttpBytes) /\ r \in Seq(HttpBytes)
        /\ NoHead(p) \/ (p[1].of = answer /\ Parts(r, v, BodyBytes(answer), 0, alive))
    BY <1>8, <1>11, <1>12, <2>1, <2>2, HeadEnds
  <2>5. /\ DOMAIN http' = HttpFields /\ http'.at = "status" /\ http'.hdr = p /\ http'.rb = r
        /\ http'.body = http.body /\ http'.done = http.done
        /\ http'.redir = http.redir /\ http'.result = http.result /\ http'.kvalid = http.kvalid
    BY <1>2, <2>3 DEF HttpFields
  <2>6. HttpTypes' BY <1>1, <1>2, <1>9, <2>4, <2>5 DEF HttpTypes, HttpAts
  <2>7. StatusState' BY <1>1, <1>9, <2>4, <2>5 DEF StatusState
  <2>8. HttpKeptIsClean' BY <1>3, <2>5 DEF HttpKeptIsClean
  <2>9. QED BY <1>1, <1>3, <2>5, <2>6, <2>7, <2>8 DEF HttpInv
<1>13. CASE ~EndsHead(g)
  <2>1. http' = [http EXCEPT !.hdr = g] BY <1>4, <1>10, <1>13
  <2>2. /\ DOMAIN http' = HttpFields /\ http'.at = "head" /\ http'.hdr = g /\ http'.rb = http.rb
        /\ http'.body = http.body /\ http'.done = http.done
        /\ http'.redir = http.redir /\ http'.result = http.result /\ http'.kvalid = http.kvalid
    BY <1>1, <1>2, <2>1 DEF HttpFields
  <2>3. HttpTypes' BY <1>1, <1>2, <1>9, <2>2 DEF HttpTypes, HttpAts
  <2>4. HeadState' BY <1>1, <1>9, <1>11, <2>2 DEF HeadState, HeadPart
  <2>5. HttpKeptIsClean' BY <1>3, <2>2 DEF HttpKeptIsClean
  <2>6. QED BY <1>1, <1>3, <2>2, <2>3, <2>4, <2>5 DEF HttpInv
<1>14. QED BY <1>12, <1>13

LEMMA HttpBodyBegins ==
  ASSUME HttpInv, StatusOk PROVE HttpInv'
<1> USE DEF HttpAt
<1>1. /\ http.at = "status" /\ HttpStatus = "ok"
      /\ UNCHANGED <<wire, alive, answer, given, stop, asked>>
  BY DEF StatusOk
<1>2. HttpTypes /\ DOMAIN http = HttpFields BY DEF HttpInv, HttpTypes
<1>3. StatusState /\ given = <<>> /\ ~http.kvalid BY <1>1 DEF HttpInv
<1>4. http.hdr[1].kind = "head" /\ http.hdr[1].of.status = "ok" BY <1>1 DEF HttpStatus
<1>5. http.hdr[1].of = answer /\ Parts(http.rb, wire, BodyBytes(answer), 0, alive)
  BY <1>3, <1>4 DEF StatusState, NoHead
<1>6. PICK b \in HttpBodies : b = answer
  <2>1. NoAnswer.status = "none" BY DEF NoAnswer
  <2>2. answer # NoAnswer BY <1>4, <1>5, <2>1
  <2>3. QED BY <1>2, <2>2 DEF HttpTypes, AnyAnswer
<1>7. b \in Answers /\ b \in AnyAnswer BY ChunksOf DEF AnyAnswer
<1>8. PICK y : y = [chunked |-> b.framing = "chunked", cs |-> 0, csize |-> 0,
                    framed |-> b.framing = "length", remain |-> b.length] OBVIOUS
<1>9. /\ y.chunked <=> b.framing = "chunked"
      /\ y.framed <=> b.framing = "length"
      /\ y.cs = 0 /\ y.csize = 0 /\ y.remain = b.length
  BY <1>8
<1>10. y \in BodyRecord
  <2>1. b.length \in Nat /\ 0 \in 0..5 /\ 0 \in Nat BY <1>7 DEF Answers
  <2>2. (b.framing = "chunked") \in BOOLEAN /\ (b.framing = "length") \in BOOLEAN OBVIOUS
  <2>3. QED BY <1>8, <2>1, <2>2 DEF BodyRecord
<1>11. http' = [http EXCEPT !.at = "feed", !.done = 0, !.body = y]
  BY <1>5, <1>6, <1>8 DEF StatusOk
<1>12. /\ DOMAIN http' = HttpFields /\ http'.at = "feed" /\ http'.hdr = http.hdr
       /\ http'.rb = http.rb /\ http'.body = y /\ http'.done = 0
       /\ http'.redir = http.redir /\ http'.result = http.result /\ http'.kvalid = http.kvalid
  BY <1>2, <1>11 DEF HttpFields
<1>13. HttpTypes' BY <1>1, <1>2, <1>10, <1>12 DEF HttpTypes, HttpAts
<1>14. PlaceIn(b, y, 0, <<>>)
  <2>1. Len(<<>>) = 0 OBVIOUS
  <2>2. CASE b.framing = "chunked"
    <3>1. PICK L : BodyShape(b, L) BY <2>2, ShapeOf
    <3>2. AtPlace(b, L, 0, 0, 0, 0) BY <3>1, BodyStarts
    <3>3. QED BY <1>9, <2>1, <2>2, <3>1, <3>2 DEF PlaceIn
  <2>3. CASE b.framing # "chunked"
    <3>1. y.remain + 0 = b.length BY <1>7, <1>9 DEF Answers
    <3>2. QED BY <2>1, <2>3, <3>1 DEF PlaceIn
  <2>4. QED BY <2>2, <2>3
<1>15. Part(<<>>, Payload(b), 0)
  <2>1. Payload(b) \in Seq(HttpBytes) BY <1>7, BodyOf
  <2>2. QED BY <2>1, PartsNone
<1>16. FeedAt(0)' BY <1>1, <1>3, <1>5, <1>6, <1>12, <1>14 DEF FeedAt
<1>17. FeedState'
  <2>1. 0 \in Nat OBVIOUS
  <2>2. QED BY <1>1, <1>3, <1>6, <1>9, <1>12, <1>15, <1>16, <2>1 DEF FeedState
<1>18. HttpKeptIsClean' BY <1>3, <1>12 DEF HttpKeptIsClean
<1>19. QED BY <1>3, <1>12, <1>13, <1>17, <1>18 DEF HttpInv

(* A byte is fed at place q of the body.                                   *)
FeedsAt(q) ==
  /\ Parts(Tail(http.rb), wire, BodyBytes(answer), q + 1, alive)
  /\ Tail(http.rb) \in Seq(HttpBytes)
  /\ PlaceIn(answer, http.body, q, given) /\ Byte1 \in HttpBytes
  /\ Byte1 = BodyBytes(answer)[q + 1] /\ q + 1 <= Len(BodyBytes(answer))
LEMMA FeedsSomewhere ==
  ASSUME HttpInv, Feeding
  PROVE  /\ HttpTypes /\ FeedState /\ http.at = "feed" /\ ~http.kvalid
         /\ answer \in HttpBodies /\ answer \in AnyAnswer
         /\ \E q \in Nat : FeedsAt(q)
<1>1. http.at = "feed" /\ http.rb # <<>> /\ http.done = 0 BY DEF Feeding, HttpAt
<1>2. HttpTypes /\ FeedState /\ ~http.kvalid BY <1>1 DEF HttpInv
<1>3. answer \in HttpBodies /\ answer \in AnyAnswer BY <1>2 DEF FeedState, AnyAnswer
<1>4. PICK q \in Nat : FeedAt(q) BY <1>2 DEF FeedState
<1>5. PlaceIn(answer, http.body, q, given) BY <1>1, <1>4 DEF FeedAt
<1>6. PICK u \in Seq(HttpBytes) : u = http.rb BY <1>2 DEF HttpTypes
<1>7. PICK w \in Seq(HttpBytes) : w = wire BY <1>2 DEF HttpTypes
<1>8. PICK t \in Seq(HttpBytes) : t = BodyBytes(answer) BY <1>3, BodyOf
<1>9. Parts(u, w, t, q, alive) /\ u # <<>> BY <1>1, <1>4, <1>6, <1>7, <1>8 DEF FeedAt
<1>10. /\ Parts(Tail(u), w, t, q + 1, alive)
       /\ u[1] = t[q + 1] /\ q + 1 <= Len(t) /\ u[1] \in HttpBytes
       /\ Tail(u) \in Seq(HttpBytes)
  BY <1>9, PartsByte
<1>11. FeedsAt(q) BY <1>5, <1>6, <1>7, <1>8, <1>10 DEF FeedsAt, Byte1
<1>12. QED BY <1>1, <1>2, <1>3, <1>11

(* What is given is g afterwards, body_feed's record b, and its end d.     *)
LEMMA Feeds ==
  ASSUME HttpInv, Feeding, NEW q \in Nat, FeedsAt(q), NEW b \in BodyRecord, NEW d \in {0, 1, -1},
         http' = [http EXCEPT !.rb = Tail(@), !.body = b, !.done = d],
         UNCHANGED <<wire, alive, answer, stop, asked>>,
         b.chunked = http.body.chunked, b.framed = http.body.framed,
         given' \in Seq(HttpBytes), Part(given', Payload(answer), 0),
         d = 0 => PlaceIn(answer, b, q + 1, given'), d = 1 => Full(answer, q + 1, given')
  PROVE  HttpInv'
<1>1. HttpTypes /\ FeedState /\ http.at = "feed" /\ ~http.kvalid BY FeedsSomewhere
<1>2. DOMAIN http = HttpFields BY <1>1 DEF HttpTypes
<1>3. /\ DOMAIN http' = HttpFields /\ http'.at = http.at /\ http'.hdr = http.hdr
      /\ http'.rb = Tail(http.rb) /\ http'.body = b /\ http'.done = d
      /\ http'.redir = http.redir /\ http'.result = http.result /\ http'.kvalid = http.kvalid
  BY <1>2 DEF HttpFields
<1>4. /\ Tail(http.rb) \in Seq(HttpBytes)
      /\ Parts(Tail(http.rb), wire, BodyBytes(answer), q + 1, alive)
  BY DEF FeedsAt
<1>5. HttpTypes' BY <1>1, <1>3, <1>4 DEF HttpTypes
<1>6. FeedAt(q + 1)' BY <1>3, <1>4 DEF FeedAt
<1>7. FeedState'
  <2>1. q + 1 \in Nat OBVIOUS
  <2>2. /\ answer' \in HttpBodies
        /\ http'.body.chunked <=> answer'.framing = "chunked"
        /\ http'.body.framed <=> answer'.framing = "length"
        /\ Part(given', Payload(answer'), 0)
    BY <1>1, <1>3 DEF FeedState
  <2>3. \E p \in Nat : FeedAt(p)' BY <1>6, <2>1
  <2>4. QED BY <2>2, <2>3 DEF FeedState
<1>8. HttpKeptIsClean' BY <1>1, <1>3 DEF HttpKeptIsClean
<1>9. QED BY <1>1, <1>3, <1>5, <1>7, <1>8 DEF HttpInv

LEMMA FeedSkips ==
  ASSUME HttpInv, Feeding, NEW q \in Nat, FeedsAt(q), NEW b \in BodyRecord, NEW c \in BOOLEAN,
         Skipped(b, c), UNCHANGED <<wire, alive, answer, stop, asked>>,
         b.chunked = http.body.chunked, b.framed = http.body.framed,
         ~c => PlaceIn(answer, b, q + 1, given), c => Full(answer, q + 1, given)
  PROVE  HttpInv'
<1>1. PICK d \in {0, 1, -1} : d = (IF c THEN 1 ELSE 0) OBVIOUS
<1>2. given' = given /\ http' = [http EXCEPT !.rb = Tail(@), !.body = b, !.done = d]
  BY <1>1 DEF Skipped
<1>3. given' \in Seq(HttpBytes) /\ Part(given', Payload(answer), 0)
  BY <1>2, FeedsSomewhere DEF HttpTypes, FeedState
<1>4. (d = 0 => PlaceIn(answer, b, q + 1, given')) /\ (d = 1 => Full(answer, q + 1, given'))
  BY <1>1, <1>2
<1>5. QED BY <1>2, <1>3, <1>4, Feeds

LEMMA FeedGives ==
  ASSUME HttpInv, Feeding, NEW q \in Nat, FeedsAt(q), NEW b \in BodyRecord, NEW c \in BOOLEAN,
         Given(b, c), UNCHANGED <<wire, alive, answer, stop, asked>>,
         b.chunked = http.body.chunked, b.framed = http.body.framed,
         NEW g \in Seq(HttpBytes), g = Append(given, Byte1), Part(g, Payload(answer), 0),
         ~c => PlaceIn(answer, b, q + 1, g), c => Full(answer, q + 1, g)
  PROVE  HttpInv'
<1>1. CASE http' = [http EXCEPT !.rb = Tail(@), !.body = b, !.done = IF c THEN 1 ELSE 0]
           /\ given' = g
  <2>1. PICK d \in {0, 1, -1} : d = (IF c THEN 1 ELSE 0) OBVIOUS
  <2>2. http' = [http EXCEPT !.rb = Tail(@), !.body = b, !.done = d] BY <1>1, <2>1
  <2>3. (d = 0 => PlaceIn(answer, b, q + 1, given')) /\ (d = 1 => Full(answer, q + 1, given'))
    BY <1>1, <2>1
  <2>4. given' \in Seq(HttpBytes) /\ Part(given', Payload(answer), 0) BY <1>1
  <2>5. QED BY <2>2, <2>3, <2>4, Feeds
<1>2. CASE http' = [http EXCEPT !.rb = Tail(@), !.done = -1] /\ given' = given
  <2>1. PICK y \in BodyRecord : y = http.body BY FeedsSomewhere DEF HttpTypes
  <2>2. DOMAIN http = HttpFields BY FeedsSomewhere DEF HttpTypes
  <2>3. http' = [http EXCEPT !.rb = Tail(@), !.body = y, !.done = -1]
    BY <1>2, <2>1, <2>2 DEF HttpFields
  <2>4. given' \in Seq(HttpBytes) /\ Part(given', Payload(answer), 0)
    BY <1>2, FeedsSomewhere DEF HttpTypes, FeedState
  <2>5. y.chunked = http.body.chunked /\ y.framed = http.body.framed BY <2>1
  <2>6. PICK d \in {0, 1, -1} : d = -1 OBVIOUS
  <2>7. d # 0 /\ d # 1 /\ http' = [http EXCEPT !.rb = Tail(@), !.body = y, !.done = d]
    BY <2>3, <2>6
  <2>8. QED BY <2>4, <2>5, <2>7, Feeds
<1>3. QED BY <1>1, <1>2 DEF Given

(* The five states of body_feed.                                           *)
LEMMA AppendOf == ASSUME NEW S, NEW s \in Seq(S), NEW x \in S PROVE Append(s, x) \in Seq(S)
  OBVIOUS

BodyTo(y, c, z) == [y EXCEPT !.cs = c, !.csize = z]
BodyIs(b, y, c, z) == /\ b \in BodyRecord /\ b.chunked = y.chunked /\ b.framed = y.framed
                      /\ b.cs = c /\ b.csize = z
LEMMA BodySet ==
  ASSUME NEW y \in BodyRecord, NEW c \in 0..5, NEW z \in Nat
  PROVE  BodyIs(BodyTo(y, c, z), y, c, z)
<1>1. PICK x : x = [y EXCEPT !.cs = c] OBVIOUS
<1>2. x \in BodyRecord /\ x.chunked = y.chunked /\ x.framed = y.framed /\ x.cs = c
  BY <1>1 DEF BodyRecord
<1>3. PICK b : b = [x EXCEPT !.csize = z] OBVIOUS
<1>4. /\ b \in BodyRecord /\ b.chunked = x.chunked /\ b.framed = x.framed /\ b.cs = x.cs
      /\ b.csize = z
  BY <1>2, <1>3 DEF BodyRecord
<1>5. b = BodyTo(y, c, z) BY <1>1, <1>3 DEF BodyTo
<1>6. BodyIs(b, y, c, z) BY <1>2, <1>4 DEF BodyIs
<1>7. QED BY <1>5, <1>6

LEMMA HttpFeedsPlain ==
  ASSUME HttpInv, FeedIdentity PROVE HttpInv'
<1>1. Feeding /\ ~http.body.chunked /\ UNCHANGED <<wire, alive, answer, stop, asked>>
  BY DEF FeedIdentity
<1>2. HttpTypes /\ FeedState /\ answer \in AnyAnswer BY <1>1, FeedsSomewhere
<1>3. PICK q \in Nat : FeedsAt(q) BY <1>1, FeedsSomewhere
<1>4. answer.framing # "chunked" /\ (http.body.framed <=> answer.framing = "length")
  BY <1>1, <1>2 DEF FeedState
<1>5. PICK n \in Nat : n = answer.length BY <1>2, <1>4, PlainBody
<1>6. PICK t \in Seq(HttpBytes) : t = BodyBytes(answer) /\ t = Payload(answer) /\ Len(t) = n
  BY <1>2, <1>4, <1>5, PlainBody, BodyOf
<1>7. PICK s \in Seq(HttpBytes) : s = given BY <1>2 DEF HttpTypes
<1>8. q = Len(s) /\ (answer.framing = "length" => http.body.remain + q = n)
  BY <1>3, <1>4, <1>5, <1>7 DEF FeedsAt, PlaceIn
<1>9. Byte1 = t[q + 1] /\ q + 1 <= n /\ Byte1 \in HttpBytes BY <1>3, <1>6 DEF FeedsAt
<1>10. PICK g \in Seq(HttpBytes) : g = Append(given, Byte1) BY <1>7, <1>9, AppendOf
<1>11. Part(g, t, 0) /\ Len(g) = q + 1
  <2>1. Part(s, t, 0) BY <1>2, <1>6, <1>7 DEF FeedState
  <2>2. Len(s) + 1 <= Len(t) /\ Byte1 = t[Len(s) + 1] BY <1>6, <1>8, <1>9
  <2>3. Part(Append(s, Byte1), t, 0) /\ Len(Append(s, Byte1)) = Len(s) + 1
    BY <2>1, <2>2, PartAppends
  <2>4. QED BY <1>7, <1>8, <1>10, <2>3
<1>12. PICK y \in BodyRecord : y = http.body BY <1>2 DEF HttpTypes
<1>13. CASE ~http.body.framed
  <2>1. Given(y, FALSE) BY <1>12, <1>13 DEF FeedIdentity
  <2>2. PlaceIn(answer, y, q + 1, g) BY <1>4, <1>11, <1>13 DEF PlaceIn
  <2>3. Part(g, Payload(answer), 0) BY <1>6, <1>11
  <2>4. QED BY <1>1, <1>3, <1>10, <1>12, <2>1, <2>2, <2>3, FeedGives
<1>14. CASE http.body.framed
  <2>1. PICK r \in Nat : r = http.body.remain BY <1>12 DEF BodyRecord
  <2>2. r + q = n BY <1>4, <1>8, <1>14, <2>1
  <2>3. r > 0 BY <1>9, <2>2
  <2>4. PICK m \in Nat : m = r - 1 BY <2>3
  <2>5. PICK b : b = [y EXCEPT !.remain = m] OBVIOUS
  <2>6. /\ b \in BodyRecord /\ b.chunked = y.chunked /\ b.framed = y.framed /\ b.remain = m
    BY <2>5 DEF BodyRecord
  <2>7. PICK c \in BOOLEAN : c <=> r = 1 OBVIOUS
  <2>8. Given(b, c)
    <3>1. Given([http.body EXCEPT !.remain = @ - 1], http.body.remain = 1)
      <4>1. http.body.remain # 0 BY <2>1, <2>3
      <4>2. QED BY <1>14, <4>1, Zenon DEF FeedIdentity
    <3>2. [http.body EXCEPT !.remain = @ - 1] = b BY <1>12, <2>1, <2>4, <2>5
    <3>3. (http.body.remain = 1) = c BY <2>1, <2>7
    <3>4. QED BY <3>1, <3>2, <3>3
  <2>9. Part(g, Payload(answer), 0) BY <1>6, <1>11
  <2>10. PlaceIn(answer, b, q + 1, g)
    <3>1. m + (q + 1) = n BY <2>2, <2>4
    <3>2. QED BY <1>4, <1>5, <1>11, <2>6, <3>1 DEF PlaceIn
  <2>11. ASSUME c PROVE Full(answer, q + 1, g)
    <3>1. q + 1 = n BY <2>2, <2>7, <2>11
    <3>2. g = t BY <1>6, <1>11, <3>1, PartWhole
    <3>3. QED BY <1>6, <3>1, <3>2 DEF Full
  <2>12. QED BY <1>1, <1>3, <1>10, <1>12, <2>6, <2>8, <2>9, <2>10, <2>11, FeedGives
<1>15. QED BY <1>13, <1>14

(* A byte of a body in chunks that is not given away.                      *)
LEMMA ChunkPlace ==
  ASSUME HttpInv, Feeding, http.body.chunked, NEW q \in Nat, FeedsAt(q)
  PROVE  /\ answer.framing = "chunked"
         /\ \E L : /\ BodyShape(answer, L)
                   /\ AtPlace(answer, L, q, http.body.cs, http.body.csize, Len(given))
<1>1. FeedState BY FeedsSomewhere
<1>2. answer.framing = "chunked" BY <1>1 DEF FeedState
<1>3. PlaceIn(answer, http.body, q, given) BY DEF FeedsAt
<1>4. QED BY <1>2, <1>3 DEF PlaceIn

LEMMA ChunkSkips ==
  ASSUME HttpInv, Feeding, http.body.chunked, NEW q \in Nat, FeedsAt(q), NEW L,
         BodyShape(answer, L),
         answer.framing = "chunked", NEW b \in BodyRecord, Skipped(b, FALSE),
         UNCHANGED <<wire, alive, answer, stop, asked>>,
         b.chunked = http.body.chunked, b.framed = http.body.framed,
         AtPlace(answer, L, q + 1, b.cs, b.csize, Len(given))
  PROVE  HttpInv'
<1>1. PlaceIn(answer, b, q + 1, given) BY DEF PlaceIn
<1>2. QED BY <1>1, FeedSkips

LEMMA HttpFeedsSize ==
  ASSUME HttpInv, FeedSize PROVE HttpInv'
<1>1. /\ Feeding /\ http.body.chunked /\ http.body.cs \in {0, 1}
      /\ UNCHANGED <<wire, alive, answer, stop, asked>>
  BY DEF FeedSize
<1>2. HttpTypes BY <1>1, FeedsSomewhere
<1>3. PICK q \in Nat : FeedsAt(q) BY <1>1, FeedsSomewhere
<1>4. answer.framing = "chunked" BY <1>1, <1>3, ChunkPlace
<1>5. PICK L : /\ BodyShape(answer, L)
               /\ AtPlace(answer, L, q, http.body.cs, http.body.csize, Len(given))
  BY <1>1, <1>3, ChunkPlace
<1>6. PICK y \in BodyRecord : y = http.body BY <1>2 DEF HttpTypes
<1>7. PICK x \in HttpBytes : x = Byte1 /\ x = BodyBytes(answer)[q + 1] BY <1>3 DEF FeedsAt
<1>8. PICK v \in Nat : v = y.csize BY DEF BodyRecord
<1>9. PICK b \in BodyRecord : /\ Skipped(b, FALSE) /\ b.chunked = y.chunked /\ b.framed = y.framed
                              /\ SizeGoes(y.cs, v, x, b.cs, b.csize)
  <2>1. CASE x.kind = "lf"
    <3>1. PICK c \in {2, 5} : c = IF v = 0 THEN 5 ELSE 2 OBVIOUS
    <3>2. PICK b : b = [y EXCEPT !.cs = c] OBVIOUS
    <3>3. Skipped(b, FALSE) BY <1>6, <1>7, <1>8, <2>1, <3>1, <3>2 DEF FeedSize
    <3>4. /\ b \in BodyRecord /\ b.chunked = y.chunked /\ b.framed = y.framed /\ b.cs = c
          /\ b.csize = v
      BY <1>8, <3>2 DEF BodyRecord
    <3>5. SizeGoes(y.cs, v, x, b.cs, b.csize) BY <2>1, <3>1, <3>4 DEF SizeGoes
    <3>6. QED BY <3>3, <3>4, <3>5
  <2>2. CASE y.cs = 0 /\ x.kind = "digit"
    <3>1. PICK c \in Nat : c = v * HttpBase + x.value
      <4>1. HttpBase \in Nat BY HttpAssumption DEF HttpAssumption
      <4>2. v * HttpBase \in Nat BY <4>1, TimesNat
      <4>3. PICK p \in Nat : p = v * HttpBase BY <4>2
      <4>4. x.value \in Nat BY DEF HttpBytes
      <4>5. p + x.value \in Nat BY <4>4
      <4>6. QED BY <4>3, <4>5
    <3>2. PICK b : b = [y EXCEPT !.csize = c] OBVIOUS
    <3>3. Skipped(b, FALSE)
      <4>1. [y EXCEPT !.csize = @ * HttpBase + x.value] = b BY <1>8, <3>1, <3>2
      <4>2. Skipped([y EXCEPT !.csize = @ * HttpBase + x.value], FALSE)
        BY <1>6, <1>7, <2>2 DEF FeedSize
      <4>3. QED BY <4>1, <4>2
    <3>4. /\ b \in BodyRecord /\ b.chunked = y.chunked /\ b.framed = y.framed /\ b.cs = y.cs
          /\ b.csize = c
      BY <3>2 DEF BodyRecord
    <3>5. SizeGoes(y.cs, v, x, b.cs, b.csize) BY <2>2, <3>1, <3>4 DEF SizeGoes
    <3>6. QED BY <3>3, <3>4, <3>5
  <2>3. CASE y.cs = 0 /\ x.kind = "semicolon"
    <3>1. PICK b : b = [y EXCEPT !.cs = 1] OBVIOUS
    <3>2. Skipped(b, FALSE) BY <1>6, <1>7, <2>3, <3>1 DEF FeedSize
    <3>3. /\ b \in BodyRecord /\ b.chunked = y.chunked /\ b.framed = y.framed /\ b.cs = 1
          /\ b.csize = v
      BY <1>8, <3>1 DEF BodyRecord
    <3>4. SizeGoes(y.cs, v, x, b.cs, b.csize) BY <2>3, <3>3 DEF SizeGoes
    <3>5. QED BY <3>2, <3>3, <3>4
  <2>4. CASE /\ x.kind # "lf" /\ ~(y.cs = 0 /\ x.kind = "digit")
             /\ ~(y.cs = 0 /\ x.kind = "semicolon")
    <3>1. Skipped(y, FALSE) BY <1>6, <1>7, <2>4 DEF FeedSize
    <3>2. SizeGoes(y.cs, v, x, y.cs, y.csize) BY <1>8, <2>4 DEF SizeGoes
    <3>3. QED BY <3>1, <3>2
  <2>5. QED BY <2>1, <2>2, <2>3, <2>4
<1>10. AtPlace(answer, L, q + 1, b.cs, b.csize, Len(given))
  <2>1. PICK m : m = Len(given) OBVIOUS
  <2>2. AtPlace(answer, L, q, y.cs, v, m) /\ y.cs \in {0, 1} BY <1>1, <1>5, <1>6, <1>8, <2>1
  <2>3. SizeGoes(y.cs, v, BodyBytes(answer)[q + 1], b.cs, b.csize) BY <1>7, <1>9
  <2>4. AtPlace(answer, L, q + 1, b.cs, b.csize, m) BY <1>5, <2>2, <2>3, SizeLineGoes
  <2>5. QED BY <2>1, <2>4
<1>11. b.chunked = http.body.chunked /\ b.framed = http.body.framed BY <1>6, <1>9
<1>12. QED BY <1>1, <1>3, <1>4, <1>5, <1>9, <1>10, <1>11, ChunkSkips

LEMMA HttpFeedsCrlf ==
  ASSUME HttpInv, FeedCrlf PROVE HttpInv'
<1>1. /\ Feeding /\ http.body.chunked /\ http.body.cs = 3
      /\ UNCHANGED <<wire, alive, answer, stop, asked>>
  BY DEF FeedCrlf
<1>2. HttpTypes BY <1>1, FeedsSomewhere
<1>3. PICK q \in Nat : FeedsAt(q) BY <1>1, FeedsSomewhere
<1>4. answer.framing = "chunked" BY <1>1, <1>3, ChunkPlace
<1>5. PICK L : /\ BodyShape(answer, L)
               /\ AtPlace(answer, L, q, http.body.cs, http.body.csize, Len(given))
  BY <1>1, <1>3, ChunkPlace
<1>6. PICK y \in BodyRecord : y = http.body BY <1>2 DEF HttpTypes
<1>7. PICK x : x = Byte1 /\ x = BodyBytes(answer)[q + 1] BY <1>3 DEF FeedsAt
<1>8. PICK m : m = Len(given) OBVIOUS
<1>9. AtPlace(answer, L, q, 3, y.csize, m) BY <1>1, <1>5, <1>6, <1>8
<1>10. IF x.kind = "lf" THEN AtPlace(answer, L, q + 1, 0, 0, m)
       ELSE AtPlace(answer, L, q + 1, 3, y.csize, m)
  BY <1>5, <1>7, <1>9, EndGoes
<1>11. CASE x.kind = "lf"
  <2>1. 0 \in 0..5 /\ 0 \in Nat OBVIOUS
  <2>2. PICK b \in BodyRecord : /\ b = BodyTo(y, 0, 0)
                                /\ b.chunked = y.chunked /\ b.framed = y.framed
                                /\ b.cs = 0 /\ b.csize = 0
    BY <2>1, BodySet DEF BodyIs
  <2>3. Skipped(b, FALSE) BY <1>6, <1>7, <1>11, <2>2 DEF FeedCrlf, BodyTo
  <2>4. AtPlace(answer, L, q + 1, b.cs, b.csize, Len(given)) BY <1>8, <1>10, <1>11, <2>2
  <2>5. b.chunked = http.body.chunked /\ b.framed = http.body.framed BY <1>6, <2>2
  <2>6. QED BY <1>1, <1>3, <1>4, <1>5, <2>3, <2>4, <2>5, ChunkSkips
<1>12. CASE x.kind # "lf"
  <2>1. Skipped(y, FALSE) BY <1>6, <1>7, <1>12 DEF FeedCrlf
  <2>2. AtPlace(answer, L, q + 1, y.cs, y.csize, Len(given)) BY <1>1, <1>6, <1>8, <1>10, <1>12
  <2>3. y.chunked = http.body.chunked /\ y.framed = http.body.framed BY <1>6
  <2>4. QED BY <1>1, <1>3, <1>4, <1>5, <2>1, <2>2, <2>3, ChunkSkips
<1>13. QED BY <1>11, <1>12

LEMMA HttpFeedsData ==
  ASSUME HttpInv, FeedData PROVE HttpInv'
<1>1. /\ Feeding /\ http.body.chunked /\ http.body.cs = 2
      /\ UNCHANGED <<wire, alive, answer, stop, asked>>
  BY DEF FeedData
<1>2. HttpTypes /\ FeedState /\ answer \in AnyAnswer BY <1>1, FeedsSomewhere
<1>3. PICK q \in Nat : FeedsAt(q) BY <1>1, FeedsSomewhere
<1>4. answer.framing = "chunked" BY <1>1, <1>3, ChunkPlace
<1>5. PICK L : /\ BodyShape(answer, L)
               /\ AtPlace(answer, L, q, http.body.cs, http.body.csize, Len(given))
  BY <1>1, <1>3, ChunkPlace
<1>6. PICK y \in BodyRecord : y = http.body BY <1>2 DEF HttpTypes
<1>7. PICK v \in Nat : v = y.csize BY DEF BodyRecord
<1>8. PICK s \in Seq(HttpBytes) : s = given BY <1>2 DEF HttpTypes
<1>9. PICK m \in Nat : m = Len(s) OBVIOUS
<1>10. PICK x \in HttpBytes : x = Byte1 /\ x = BodyBytes(answer)[q + 1] BY <1>3 DEF FeedsAt
<1>11. AtPlace(answer, L, q, 2, v, m) BY <1>1, <1>5, <1>6, <1>7, <1>8, <1>9
<1>12. PICK c \in 0..5 : c = IF v = 1 THEN 3 ELSE 2 OBVIOUS
<1>13. PICK t \in Seq(HttpBytes) : t = Payload(answer) BY <1>2, BodyOf
<1>14. /\ v > 0 /\ m + 1 <= Len(t) /\ x = t[m + 1]
       /\ AtPlace(answer, L, q + 1, c, v - 1, m + 1)
  BY <1>5, <1>10, <1>11, <1>12, <1>13, DataGoes
<1>15. PICK w \in Nat : w = v - 1 BY <1>14
<1>16. PICK g \in Seq(HttpBytes) : g = Append(given, Byte1) /\ g = Append(s, x)
  BY <1>8, <1>10, AppendOf
<1>17. Part(g, t, 0) /\ Len(g) = m + 1
  <2>1. Part(s, t, 0) BY <1>2, <1>8, <1>13 DEF FeedState
  <2>2. Len(s) + 1 <= Len(t) /\ x = t[Len(s) + 1] BY <1>9, <1>14
  <2>3. Part(Append(s, x), t, 0) /\ Len(Append(s, x)) = Len(s) + 1 BY <2>1, <2>2, PartAppends
  <2>4. QED BY <1>9, <1>16, <2>3
<1>18. PICK b \in BodyRecord : /\ b = BodyTo(y, c, w)
                               /\ b.chunked = y.chunked /\ b.framed = y.framed
                               /\ b.cs = c /\ b.csize = w
  <2>1. BodyIs(BodyTo(y, c, w), y, c, w) BY BodySet
  <2>2. QED BY <2>1 DEF BodyIs
<1>19. Given(b, FALSE)
  <2>1. Given([y EXCEPT !.csize = @ - 1, !.cs = IF y.csize = 1 THEN 3 ELSE 2], FALSE)
    BY <1>6 DEF FeedData
  <2>2. [y EXCEPT !.csize = @ - 1, !.cs = IF y.csize = 1 THEN 3 ELSE 2] = b
    <3>1. y.csize - 1 = w /\ (IF y.csize = 1 THEN 3 ELSE 2) = c BY <1>7, <1>12, <1>15
    <3>2. [y EXCEPT !.csize = w, !.cs = c] = [y EXCEPT !.cs = c, !.csize = w]
      BY DEF BodyRecord
    <3>3. QED BY <1>18, <3>1, <3>2 DEF BodyTo
  <2>3. QED BY <2>1, <2>2
<1>21. AtPlace(answer, L, q + 1, b.cs, b.csize, Len(g)) BY <1>14, <1>15, <1>17, <1>18
<1>22. PlaceIn(answer, b, q + 1, g) BY <1>4, <1>5, <1>21 DEF PlaceIn
<1>23. b.chunked = http.body.chunked /\ b.framed = http.body.framed BY <1>6, <1>18
<1>24. Part(g, Payload(answer), 0) BY <1>13, <1>17
<1>25. QED BY <1>1, <1>3, <1>16, <1>19, <1>22, <1>23, <1>24, FeedGives

LEMMA HttpFeedsLast ==
  ASSUME HttpInv, FeedLast PROVE HttpInv'
<1>1. /\ Feeding /\ http.body.chunked /\ http.body.cs = 5
      /\ UNCHANGED <<wire, alive, answer, stop, asked>>
  BY DEF FeedLast
<1>2. HttpTypes /\ FeedState /\ answer \in AnyAnswer BY <1>1, FeedsSomewhere
<1>3. PICK q \in Nat : FeedsAt(q) BY <1>1, FeedsSomewhere
<1>4. answer.framing = "chunked" BY <1>1, <1>3, ChunkPlace
<1>5. PICK L : /\ BodyShape(answer, L)
               /\ AtPlace(answer, L, q, http.body.cs, http.body.csize, Len(given))
  BY <1>1, <1>3, ChunkPlace
<1>6. PICK y \in BodyRecord : y = http.body BY <1>2 DEF HttpTypes
<1>7. PICK x : x = Byte1 /\ x = BodyBytes(answer)[q + 1] BY <1>3 DEF FeedsAt
<1>8. PICK m : m = Len(given) OBVIOUS
<1>9. AtPlace(answer, L, q, 5, y.csize, m) BY <1>1, <1>5, <1>6, <1>8
<1>10. IF x.kind = "lf"
       THEN /\ m = Len(Payload(answer)) /\ q + 1 <= Len(BodyBytes(answer))
            /\ ~answer.trailer => q + 1 = Len(BodyBytes(answer))
       ELSE AtPlace(answer, L, q + 1, 5, y.csize, m)
  BY <1>5, <1>7, <1>9, FinalGoes
<1>11. CASE x.kind = "lf"
  <2>1. PICK b : b = [y EXCEPT !.cs = 4] OBVIOUS
  <2>2. Skipped(b, TRUE) BY <1>6, <1>7, <1>11, <2>1 DEF FeedLast
  <2>3. b \in BodyRecord /\ b.chunked = y.chunked /\ b.framed = y.framed
    BY <2>1 DEF BodyRecord
  <2>4. given = Payload(answer)
    <3>1. given \in Seq(HttpBytes) /\ Payload(answer) \in Seq(HttpBytes)
      BY <1>2, BodyOf DEF HttpTypes
    <3>2. Part(given, Payload(answer), 0) /\ Len(given) = Len(Payload(answer))
      BY <1>2, <1>8, <1>10, <1>11 DEF FeedState
    <3>3. QED BY <3>1, <3>2, PartWhole
  <2>5. Full(answer, q + 1, given) BY <1>10, <1>11, <2>4 DEF Full
  <2>6. b.chunked = http.body.chunked /\ b.framed = http.body.framed BY <1>6, <2>3
  <2>7. QED BY <1>1, <1>3, <2>2, <2>3, <2>5, <2>6, FeedSkips
<1>12. CASE x.kind # "lf"
  <2>1. Skipped(y, FALSE) BY <1>6, <1>7, <1>12 DEF FeedLast
  <2>2. AtPlace(answer, L, q + 1, y.cs, y.csize, Len(given)) BY <1>1, <1>6, <1>8, <1>10, <1>12
  <2>3. y.chunked = http.body.chunked /\ y.framed = http.body.framed BY <1>6
  <2>4. QED BY <1>1, <1>3, <1>4, <1>5, <2>1, <2>2, <2>3, ChunkSkips
<1>13. QED BY <1>11, <1>12

(* More of the body is received; the user stops; the connection is dropped. *)
LEMMA HttpBodyReceives ==
  ASSUME HttpInv, BodyReceive PROVE HttpInv'
<1> USE DEF HttpAt
<1>1. /\ http.at = "feed" /\ http.done = 0 /\ http.rb = <<>>
      /\ UNCHANGED <<alive, answer, given, stop, asked>>
  BY DEF BodyReceive, Needed
<1>2. HttpTypes /\ DOMAIN http = HttpFields /\ FeedState /\ ~http.kvalid
  BY <1>1 DEF HttpInv, HttpTypes
<1>3. PICK n \in 1..HttpReceive :
        /\ n <= Len(wire) /\ wire' = SubSeq(wire, n + 1, Len(wire))
        /\ http' = [http EXCEPT !.rb = SubSeq(wire, 1, n)]
  BY DEF BodyReceive, Arrives, HttpReceived
<1>4. n \in Nat OBVIOUS
<1>5. PICK w \in Seq(HttpBytes) : w = wire BY <1>2 DEF HttpTypes
<1>6. PICK x \in Seq(HttpBytes) : x = SubSeq(w, 1, n) BY <1>3, <1>4, <1>5, PrefixOf
<1>7. PICK v \in Seq(HttpBytes) : v = SubSeq(w, n + 1, Len(w)) BY <1>3, <1>4, <1>5, RestOf
<1>8. PICK t \in Seq(HttpBytes) : t = BodyBytes(answer) BY <1>2, BodyOf DEF HttpTypes
<1>9. PICK q \in Nat : FeedAt(q) BY <1>2 DEF FeedState
<1>10. Parts(x, v, t, q, alive)
  <2>1. <<>> \in Seq(HttpBytes) OBVIOUS
  <2>2. Parts(<<>>, w, t, q, alive) BY <1>1, <1>5, <1>8, <1>9 DEF FeedAt
  <2>3. n <= Len(w) BY <1>3, <1>5
  <2>4. Parts(<<>> \o SubSeq(w, 1, n), SubSeq(w, n + 1, Len(w)), t, q, alive)
    BY <1>4, <2>1, <2>2, <2>3, PartsReceive
  <2>5. <<>> \o x = x OBVIOUS
  <2>6. QED BY <1>6, <1>7, <2>4, <2>5
<1>11. /\ DOMAIN http' = HttpFields /\ http'.at = http.at /\ http'.hdr = http.hdr
       /\ http'.rb = x /\ http'.body = http.body /\ http'.done = http.done
       /\ http'.redir = http.redir /\ http'.result = http.result /\ http'.kvalid = http.kvalid
  BY <1>2, <1>3, <1>5, <1>6 DEF HttpFields
<1>12. wire' = v BY <1>3, <1>5, <1>7
<1>13. HttpTypes' BY <1>1, <1>2, <1>11, <1>12 DEF HttpTypes
<1>14. FeedAt(q)' BY <1>1, <1>8, <1>9, <1>10, <1>11, <1>12 DEF FeedAt
<1>15. FeedState' BY <1>1, <1>2, <1>11, <1>14 DEF FeedState
<1>16. HttpKeptIsClean' BY <1>2, <1>11 DEF HttpKeptIsClean
<1>17. QED BY <1>1, <1>2, <1>11, <1>13, <1>15, <1>16 DEF HttpInv

LEMMA HttpStays ==
  ASSUME HttpInv, UNCHANGED <<http, wire, alive, answer, given, asked>>, stop' \in BOOLEAN
  PROVE  HttpInv'
<1>1. HttpTypes' BY DEF HttpInv, HttpTypes
<1>2. FeedState' <=> FeedState
  <2>1. \A q \in Nat : FeedAt(q)' <=> FeedAt(q) BY DEF FeedAt
  <2>2. QED BY <2>1 DEF FeedState
<1>3. (HeadState' <=> HeadState) /\ (StatusState' <=> StatusState) /\ (EndState' <=> EndState)
      /\ (HttpKeptIsClean' <=> HttpKeptIsClean)
  BY DEF HeadState, StatusState, EndState, HttpKeptIsClean
<1>4. QED BY <1>1, <1>2, <1>3 DEF HttpInv

LEMMA HttpDrops ==
  ASSUME HttpInv, HttpDrop PROVE HttpInv'
<1>1. UNCHANGED <<http, answer, given, stop, asked>> /\ alive' = FALSE BY DEF HttpDrop
<1>2. HttpTypes BY DEF HttpInv
<1>3. PICK w \in Seq(HttpBytes) : w = wire BY <1>2 DEF HttpTypes
<1>4. PICK n \in Nat : n <= Len(w) /\ wire' = SubSeq(w, 1, n) BY <1>3 DEF HttpDrop
<1>5. PICK v \in Seq(HttpBytes) : /\ v = wire' /\ v = SubSeq(w, 1, n) /\ Len(v) = n
                                  /\ \A i \in 1..n : v[i] = w[i]
  BY <1>4, PrefixOf
<1>6. answer \in AnyAnswer BY <1>2 DEF HttpTypes
<1>7. PICK t \in Seq(HttpBytes) : t = BodyBytes(answer) BY <1>6, BodyOf
<1>8. PICK u \in Seq(HttpBytes) : u = http.rb BY <1>2 DEF HttpTypes
<1>9. HttpTypes' BY <1>1, <1>2, <1>5 DEF HttpTypes
<1>10. ASSUME OfBody(wire) PROVE OfBody(wire')
  <2>1. OfBody(w) /\ n <= Len(w) BY <1>3, <1>4, <1>10
  <2>2. OfBody(SubSeq(w, 1, n)) BY <2>1, OfBodyStarts
  <2>3. QED BY <1>4, <2>2
<1>11. ASSUME HeadState PROVE HeadState'
  <2>1. PICK h \in Seq(HttpBytes) : h = http.hdr BY <1>2 DEF HttpTypes
  <2>2. HeadPart(h, w, answer, alive) BY <1>3, <1>11, <2>1 DEF HeadState
  <2>3. CASE NoHead(h) BY <1>1, <2>1, <2>3 DEF HeadState, HeadPart
  <2>4. CASE h = <<>> /\ NoHead(w) /\ n = 0
    <3>1. v = <<>> BY <1>5, <2>4, NoneOf
    <3>2. Answer(answer) \in Seq(HttpBytes) BY <1>6, AnswerIs
    <3>3. Parts(<<>>, <<>>, Answer(answer), 0, FALSE) BY <3>2, PartsNone
    <3>4. QED BY <1>1, <1>5, <2>1, <2>4, <3>1, <3>3 DEF HeadState, HeadPart
  <2>5. CASE h = <<>> /\ NoHead(w) /\ n # 0
    <3>1. 1 \in 1..n /\ Len(v) # 0 BY <1>5, <2>5
    <3>2. v # <<>> BY <3>1
    <3>3. v[1] = w[1] BY <1>5, <3>1
    <3>4. NoHead(v) BY <2>5, <3>2, <3>3 DEF NoHead
    <3>5. QED BY <1>1, <1>5, <2>1, <2>5, <3>4 DEF HeadState, HeadPart
  <2>6. CASE Parts(h, w, Answer(answer), 0, alive)
    <3>1. PICK a \in Seq(HttpBytes) : a = Answer(answer) BY <1>6, AnswerIs
    <3>2. Parts(h, w, a, 0, alive) /\ n <= Len(w) BY <1>4, <2>6, <3>1
    <3>3. Parts(h, SubSeq(w, 1, n), a, 0, FALSE) BY <3>2, PartsDrop
    <3>4. QED BY <1>1, <1>5, <2>1, <3>1, <3>3 DEF HeadState, HeadPart
  <2>7. QED BY <2>2, <2>3, <2>4, <2>5, <2>6 DEF HeadPart
<1>12. ASSUME NEW q \in Nat, Parts(u, w, t, q, alive) PROVE Parts(u, v, t, q, FALSE)
  <2>1. n <= Len(w) BY <1>4
  <2>2. Parts(u, SubSeq(w, 1, n), t, q, FALSE) BY <1>12, <2>1, PartsDrop
  <2>3. QED BY <1>5, <2>2
<1>13. ASSUME StatusState PROVE StatusState'
  <2>1. 0 \in Nat OBVIOUS
  <2>2. CASE NoHead(http.hdr) BY <1>1, <2>2 DEF StatusState
  <2>3. CASE http.hdr[1].of = answer /\ Parts(http.rb, wire, BodyBytes(answer), 0, alive)
    <3>1. Parts(u, w, t, 0, alive) BY <1>3, <1>7, <1>8, <2>3
    <3>2. Parts(u, v, t, 0, FALSE) BY <1>12, <2>1, <3>1
    <3>3. QED BY <1>1, <1>5, <1>7, <1>8, <2>3, <3>2 DEF StatusState
  <2>4. QED BY <1>13, <2>2, <2>3 DEF StatusState
<1>14. ASSUME FeedState PROVE FeedState'
  <2>1. PICK q \in Nat : FeedAt(q) BY <1>14 DEF FeedState
  <2>2. Parts(u, w, t, q, alive) BY <1>3, <1>7, <1>8, <2>1 DEF FeedAt
  <2>3. Parts(u, v, t, q, FALSE) BY <1>12, <2>2
  <2>4. FeedAt(q)' BY <1>1, <1>5, <1>7, <1>8, <2>1, <2>3 DEF FeedAt
  <2>5. QED BY <1>1, <1>14, <2>4 DEF FeedState
<1>15. HttpKeptIsClean'
  <2>1. ASSUME wire = <<>> PROVE wire' = <<>>
    <3>1. Len(w) = 0 BY <1>3, <2>1
    <3>2. Len(v) = 0 BY <1>4, <1>5, <3>1
    <3>3. v = <<>> BY <3>2, NoneOf
    <3>4. QED BY <1>5, <3>3
  <2>2. HttpKeptIsClean BY DEF HttpInv
  <2>3. QED BY <1>1, <2>1, <2>2 DEF HttpKeptIsClean
<1>16. EndState => EndState' BY <1>1 DEF EndState
<1>17. QED BY <1>1, <1>9, <1>10, <1>11, <1>13, <1>14, <1>15, <1>16 DEF HttpInv

LEMMA HttpGoes ==
  ASSUME HttpInv, [HttpNext]_httpVars PROVE HttpInv'
<1>1. CASE HttpCall \/ TakeKept \/ OpenNew BY <1>1, HttpOpens
<1>2. CASE \/ HeadStopped \/ HeadTimeout \/ HeadClosed \/ WriteFails \/ OpenFails
           \/ StatusRedirect \/ StatusError \/ BodyStopped \/ BodyTimeout
  BY <1>2, HttpGivesUp
<1>3. CASE WriteRequest BY <1>3, HttpWrites
<1>4. CASE HeadReceive BY <1>4, HttpHeadReceives
<1>5. CASE StatusOk BY <1>5, HttpBodyBegins
<1>6. CASE FeedIdentity BY <1>6, HttpFeedsPlain
<1>7. CASE FeedSize BY <1>7, HttpFeedsSize
<1>8. CASE FeedData BY <1>8, HttpFeedsData
<1>9. CASE FeedCrlf BY <1>9, HttpFeedsCrlf
<1>10. CASE FeedLast BY <1>10, HttpFeedsLast
<1>11. CASE BodyReceive BY <1>11, HttpBodyReceives
<1>12. CASE BodyClosed \/ EndClose BY <1>12, HttpEnds
<1>13. CASE KeepConnection BY <1>13, HttpKeeps
<1>14. CASE HttpStop
  <2>1. UNCHANGED <<http, wire, alive, answer, given, asked>> /\ stop' \in BOOLEAN
    BY <1>14 DEF HttpStop
  <2>2. QED BY <2>1, HttpStays
<1>15. CASE HttpDrop BY <1>15, HttpDrops
<1>16. CASE UNCHANGED httpVars
  <2>1. UNCHANGED <<http, wire, alive, answer, given, asked>> /\ stop' \in BOOLEAN
    BY <1>16 DEF HttpInv, HttpTypes, httpVars
  <2>2. QED BY <2>1, HttpStays
<1>17. QED BY <1>1, <1>2, <1>3, <1>4, <1>5, <1>6, <1>7, <1>8, <1>9, <1>10, <1>11, <1>12,
              <1>13, <1>14, <1>15, <1>16 DEF HttpNext, HttpStep

(* Every variable of http_get stays in its domain.                         *)
THEOREM HttpTypesHold == HttpSpec => []HttpTypeOK
<1>1. HttpInv => HttpTypeOK
  <2> SUFFICES ASSUME HttpInv PROVE HttpTypeOK OBVIOUS
  <2>1. HttpTypes BY DEF HttpInv
  <2>2. PICK y \in BodyRecord : y = http.body BY <2>1 DEF HttpTypes
  <2>3. y.cs \in 0..5 /\ y.csize \in Nat /\ y.remain \in Nat BY DEF BodyRecord
  <2>4. QED BY <2>1, <2>2, <2>3 DEF HttpTypes, HttpTypeOK, HttpAts
<1>2. QED BY <1>1, HttpBegins, HttpGoes, PTL DEF HttpSpec

(* The callback is given the payload of one answer, in order and once, and *)
(* all of it when http_get says that a body with an end is complete:       *)
(* whatever the answers, the cuts, the drops, the retries and the stop.    *)
THEOREM HttpReturnsWholeHolds == HttpSpec => []HttpReturnsWhole
<1>1. HttpInv => HttpReturnsWhole
  <2> SUFFICES ASSUME HttpInv PROVE HttpReturnsWhole OBVIOUS
  <2>1. HttpTypes BY DEF HttpInv
  <2>2. PICK s \in Seq(HttpBytes) : s = given BY <2>1 DEF HttpTypes
  <2>3. PICK t \in Seq(HttpBytes) : t = Payload(answer) BY <2>1, BodyOf DEF HttpTypes
  <2>4. ASSUME http.at = "feed" PROVE IsPrefix(given, Payload(answer))
    <3>1. Part(s, t, 0) BY <2>2, <2>3, <2>4 DEF HttpInv, FeedState
    <3>2. PICK a \in Nat : a = Len(s) OBVIOUS
    <3>3. PICK e \in Nat : e = Len(t) OBVIOUS
    <3>4. a <= e /\ \A i \in 1..a : s[i] = t[i]
      <4>1. 0 + a <= e /\ \A i \in 1..a : s[i] = t[0 + i] BY <3>1, <3>2, <3>3 DEF Part
      <4>2. 0 + a = a /\ \A i \in 1..a : 0 + i = i OBVIOUS
      <4>3. QED BY <4>1, <4>2
    <3>5. IsPrefix(s, t) BY <3>2, <3>3, <3>4 DEF IsPrefix
    <3>6. QED BY <2>2, <2>3, <3>5
  <2>5. http.at = "idle" => EndState BY DEF HttpInv
  <2>6. QED BY <2>4, <2>5 DEF HttpReturnsWhole, HttpAt, EndState
<1>2. QED BY <1>1, HttpBegins, HttpGoes, PTL DEF HttpSpec

(* Nothing of an answer without a trailer is left to receive on a          *)
(* connection that is kept for the next call.                              *)
THEOREM HttpKeptIsCleanHolds == HttpSpec => []HttpKeptIsClean
<1>1. HttpInv => HttpKeptIsClean BY DEF HttpInv
<1>2. QED BY <1>1, HttpBegins, HttpGoes, PTL DEF HttpSpec
===============================================================================
