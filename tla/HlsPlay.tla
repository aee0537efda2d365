-------------------------------- MODULE HlsPlay --------------------------------
(***************************************************************************)
(* hls_play of hls.c: a play list is fetched again and again, the segments *)
(* it lists that have not been heard are fetched in turn, each after the   *)
(* initialisation section it needs, and failures are counted until there   *)
(* are too many.                                                           *)
(*                                                                         *)
(* The server adds segments to a live list that keeps the last HlsWindow,  *)
(* and ends it at any moment; it may also serve a list that is older than  *)
(* the one before, as a cache does.  A segment has a map (the URL of its   *)
(* section) and a timeline, which changes at each discontinuity; the       *)
(* section fetched from an URL is the one of the segment's timeline.       *)
(* Lists of which only the tail is fetched are those with tail = TRUE.     *)
(***************************************************************************)
EXTENDS Naturals, Sequences

CONSTANTS
  HlsLast,      \* bound: the number of the last segment
  HlsWindow,    \* how many segments a list keeps
  HlsLag,       \* by how many segments a list may be too old
  HlsBack,      \* where a long list is joined: segments before its end
  HlsMaps,      \* the maps of the segments, of which each has one
  HlsTimelines, \* their timelines
  HlsFails      \* bound: fetches that fail

ASSUME HlsAssumption ==
  /\ HlsLast \in Nat \ {0} /\ HlsWindow \in Nat \ {0} /\ HlsLag \in Nat
  /\ HlsBack \in Nat \ {0, 1} /\ HlsFails \in Nat
  /\ HlsMaps \subseteq [1..HlsLast -> STRING \ {"none"}]
  /\ HlsTimelines \subseteq [1..HlsLast -> Nat]

VARIABLES
  newest, ended,       \* the server's list
  maps, timeline,      \* of the segments
  hls,                 \* where hls_play is, and its locals
  have_last, last_seq, \* the last segment fetched whole, as the next ones of hls_ctx_t
  last_map, big,
  section,             \* the section the demultiplexer has: map and timeline
  tried, gap, stale,   \* the last segment tried; one was tried that is neither
                       \*   that one nor the next; a list was too old
  fails,               \* fetches that have failed
  hlsStop              \* hlsStopFlag

hlsServer  == <<newest, ended, maps, timeline>>
hlsContext == <<have_last, last_seq, last_map, big>>
hlsHistory == <<tried, gap, stale>>
hlsVars == <<hlsServer, hls, hlsContext, section, hlsHistory, fails, hlsStop>>

NoSection == [map |-> "none", timeline |-> 0]
SectionOf(s) == [map |-> maps[s], timeline |-> timeline[s]]

-----------------------------------------------------------------------------
HlsStarts(from, mapsOf, timelines) ==
  /\ newest \in from /\ ended = FALSE
  /\ maps \in mapsOf /\ timeline \in timelines
  /\ hls = [at |-> "refresh", last |-> 0, seq |-> 0, join |-> 0, ends |-> FALSE,
            errors |-> 0, fetched |-> 0, result |-> "none"]
  /\ have_last = FALSE /\ last_seq = 0 /\ last_map = "none" /\ big = FALSE
  /\ section = NoSection
  /\ tried = 0 /\ gap = FALSE /\ stale = FALSE
  /\ fails = 0 /\ hlsStop = FALSE
HlsInit == HlsStarts(1..HlsLast, HlsMaps, HlsTimelines)

(* The server goes on, or ends its list; the user stops.                   *)
HlsServer ==
  /\ ~ended
  /\ \/ newest < HlsLast /\ newest' = newest + 1 /\ UNCHANGED ended
     \/ ended' = TRUE /\ UNCHANGED newest
  /\ UNCHANGED <<maps, timeline, hls, hlsContext, section, hlsHistory, fails, hlsStop>>

HlsStop ==
  /\ ~hlsStop /\ hlsStop' = TRUE
  /\ UNCHANGED <<hlsServer, hls, hlsContext, section, hlsHistory, fails>>

HlsEnd(result) == hls' = [hls EXCEPT !.at = "done", !.result = result]
HlsFailed(limit) ==
  IF hls.errors + 1 >= limit THEN HlsEnd("ERROR")
  ELSE hls' = [hls EXCEPT !.at = "refresh", !.errors = @ + 1]

-----------------------------------------------------------------------------
(* The play list. *)
HlsRefreshStopped ==
  /\ hls.at = "refresh" /\ hlsStop
  /\ HlsEnd("STOPPED")
  /\ UNCHANGED <<hlsServer, hlsContext, section, hlsHistory, fails, hlsStop>>

(* Not fetched, or not a play list, of whatever length.                    *)
HlsRefreshFails ==
  /\ hls.at = "refresh" /\ ~hlsStop
  /\ fails < HlsFails /\ fails' = fails + 1
  /\ HlsFailed(6)
  /\ big' \in BOOLEAN
  /\ UNCHANGED <<hlsServer, have_last, last_seq, last_map, section, hlsHistory, hlsStop>>

(* A list of lists: the client goes on with one of those.                  *)
HlsMaster ==
  /\ hls.at = "refresh" /\ ~hlsStop
  /\ last_seq = 0
  /\ HlsFailed(5)
  /\ UNCHANGED <<hlsServer, hlsContext, section, hlsHistory, fails, hlsStop>>

(* The list [a .. b], as it is now or was.                                 *)
FirstOf(b) == IF b > HlsWindow THEN b - HlsWindow + 1 ELSE 1
Lists == {b \in 1..newest : b + HlsLag >= newest}

(* "playlist restarted".                                                   *)
Restarted(b) == have_last /\ last_seq >= b + 1
(* Where the list is joined: two segments before its end, or further back. *)
JoinAt(a, b, e) ==
  IF have_last /\ ~Restarted(b) THEN last_seq + 1
  ELSE LET n == b - a + 1
           back == IF big' THEN HlsBack ELSE 2
       IN IF e \/ n <= 2 \/ n <= back THEN a ELSE b - back + 1

HlsRefresh ==
  /\ hls.at = "refresh" /\ ~hlsStop
  /\ big' \in BOOLEAN
  /\ \E b \in Lists :
       /\ stale' = (stale \/ b < newest)
       /\ LET e == ended /\ b = newest
              a == FirstOf(b)
          IN /\ hls' = [hls EXCEPT !.at = "segments", !.last = b, !.seq = a,
                                   !.join = JoinAt(a, b, e), !.ends = e, !.fetched = 0]
             /\ have_last' = (have_last /\ ~Restarted(b))
  /\ UNCHANGED <<hlsServer, last_seq, last_map, section, tried, gap, fails, hlsStop>>

(* ... of which only the part after the last segment heard is fetched, if  *)
(* it is known to be long and still lists that segment.                    *)
HlsRefreshTail ==
  /\ hls.at = "refresh" /\ ~hlsStop
  /\ big /\ have_last
  /\ \E b \in Lists :
       /\ last_seq \in FirstOf(b)..b
       /\ stale' = (stale \/ b < newest)
       /\ hls' = [hls EXCEPT !.at = "segments", !.last = b,
                             !.seq = last_seq + 1, !.join = last_seq + 1,
                             !.ends = ended /\ b = newest, !.fetched = 0]
  /\ UNCHANGED <<hlsServer, hlsContext, section, tried, gap, fails, hlsStop>>

-----------------------------------------------------------------------------
(* process_segments. *)
ListEnds == hls.seq > hls.last
HlsListEnds ==
  /\ hls.at = "segments" /\ ListEnds
  /\ IF hls.ends /\ hls.fetched = 0 THEN HlsEnd("ENDED")
     ELSE hls' = [hls EXCEPT !.at = "refresh", !.errors = 0]
  /\ UNCHANGED <<hlsServer, hlsContext, section, hlsHistory, fails, hlsStop>>

HlsSegmentHeard ==
  /\ hls.at = "segments" /\ ~ListEnds
  /\ hls.seq < hls.join
  /\ hls' = [hls EXCEPT !.seq = @ + 1]
  /\ UNCHANGED <<hlsServer, hlsContext, section, hlsHistory, fails, hlsStop>>

HlsSegmentStopped ==
  /\ hls.at = "segments" /\ ~ListEnds
  /\ hls.seq >= hls.join /\ hlsStop
  /\ HlsEnd("STOPPED")
  /\ UNCHANGED <<hlsServer, hlsContext, section, hlsHistory, fails, hlsStop>>

(* A discontinuity before a segment makes its section be fetched again.    *)
Discontinuity(s) == s > 1 /\ timeline[s] # timeline[s - 1]
LastMap(s) == IF Discontinuity(s) /\ have_last THEN "none" ELSE last_map
Succeeds(s) == s = tried \/ (have_last /\ s = last_seq + 1)
HlsSegment ==
  /\ hls.at = "segments" /\ ~ListEnds
  /\ hls.seq >= hls.join /\ ~hlsStop
  /\ last_map' = LastMap(hls.seq)
  /\ hls' = [hls EXCEPT !.at = IF last_map' # maps[hls.seq] THEN "init" ELSE "media"]
  /\ tried' = hls.seq
  /\ gap' = (gap \/ (section # NoSection /\ ~Succeeds(hls.seq)))
  /\ UNCHANGED <<hlsServer, have_last, last_seq, big, section, stale, fails, hlsStop>>

(* Mutant: the map is noted before its section is there. *)
HlsFetchInitNoted ==
  /\ hls.at = "init"
  /\ last_map' = maps[hls.seq]
  /\ \/ /\ section' = SectionOf(hls.seq)
        /\ IF hlsStop THEN HlsEnd("STOPPED") ELSE hls' = [hls EXCEPT !.at = "media"]
        /\ UNCHANGED fails
     \/ /\ fails < HlsFails /\ fails' = fails + 1
        /\ section' \in {section, SectionOf(hls.seq)}
        /\ IF hlsStop THEN HlsEnd("STOPPED") ELSE HlsFailed(4)
  /\ UNCHANGED <<hlsServer, have_last, last_seq, big, hlsHistory, hlsStop>>

(* The section: what a fetch that fails has fed may have been enough.      *)
HlsFetchInit ==
  /\ hls.at = "init"
  /\ \/ /\ section' = SectionOf(hls.seq)
        /\ IF hlsStop THEN HlsEnd("STOPPED") /\ UNCHANGED last_map
           ELSE /\ last_map' = maps[hls.seq]
                /\ hls' = [hls EXCEPT !.at = "media"]
        /\ UNCHANGED fails
     \/ /\ fails < HlsFails /\ fails' = fails + 1
        /\ section' \in {section, SectionOf(hls.seq)}
        /\ IF hlsStop THEN HlsEnd("STOPPED") ELSE HlsFailed(4)
        /\ UNCHANGED last_map
  /\ UNCHANGED <<hlsServer, have_last, last_seq, big, hlsHistory, hlsStop>>

(* Mutant: a segment whose fetch fails is passed. *)
HlsFetchMediaPasses ==
  /\ hls.at = "media"
  /\ \/ /\ ~hlsStop
        /\ hls' = [hls EXCEPT !.at = "segments", !.seq = @ + 1, !.fetched = @ + 1]
        /\ have_last' = TRUE /\ last_seq' = hls.seq
        /\ UNCHANGED fails
     \/ /\ fails < HlsFails \/ hlsStop
        /\ fails' = IF hlsStop THEN fails ELSE fails + 1
        /\ hls' = [hls EXCEPT !.at = "segments", !.seq = @ + 1]
        /\ UNCHANGED <<have_last, last_seq>>
  /\ UNCHANGED <<hlsServer, last_map, big, section, tried, gap, stale, hlsStop>>

(* The segment.  If it is stopped or fails it does not count as heard.     *)
HlsFetchMedia ==
  /\ hls.at = "media"
  /\ \/ /\ ~hlsStop
        /\ hls' = [hls EXCEPT !.at = "segments", !.seq = @ + 1, !.fetched = @ + 1]
        /\ have_last' = TRUE /\ last_seq' = hls.seq
        /\ UNCHANGED fails
     \/ /\ fails < HlsFails \/ hlsStop
        /\ fails' = IF hlsStop THEN fails ELSE fails + 1
        /\ IF hlsStop THEN HlsEnd("STOPPED") ELSE HlsFailed(4)
        /\ UNCHANGED <<have_last, last_seq>>
  /\ UNCHANGED <<hlsServer, last_map, big, section, tried, gap, stale, hlsStop>>

HlsStep == \/ HlsRefreshStopped \/ HlsRefreshFails \/ HlsMaster \/ HlsRefresh
           \/ HlsRefreshTail \/ HlsListEnds \/ HlsSegmentHeard \/ HlsSegmentStopped
           \/ HlsSegment \/ HlsFetchInit \/ HlsFetchMedia
HlsNext == HlsStep \/ HlsServer \/ HlsStop
HlsSpec == HlsInit /\ [][HlsNext]_hlsVars

-----------------------------------------------------------------------------
(* Every variable stays in its domain. *)
HlsTypeOK ==
  /\ newest \in 1..HlsLast /\ last_seq \in 0..HlsLast /\ tried \in 0..HlsLast
  /\ {ended, have_last, big, gap, stale, hlsStop} \subseteq BOOLEAN
  /\ hls.at \in {"refresh", "segments", "init", "media", "done"}
  /\ hls.errors \in 0..5 /\ fails \in 0..HlsFails

(* Whatever fails and is fetched again: segments are heard in order, and   *)
(* one is left out only when the list had dropped it, unless a list was    *)
(* older than the one before.                                              *)
HlsInOrder ==
  [][hls'.fetched > hls.fetched /\ last_seq > 0 /\ ~stale
       => /\ hls.seq > last_seq
          /\ hls.seq > last_seq + 1 => FirstOf(hls.last) >= hls.seq]_hlsVars

(* A segment is fed to a demultiplexer with the section of its timeline,   *)
(* as long as the segments that are tried follow one another and no list   *)
(* was older than the one before.                                          *)
HlsSectionRight ==
  hls.at = "media" /\ ~gap /\ ~stale => section = SectionOf(hls.seq)

(* Playing ends by itself only when the list has ended, and has been heard *)
(* to its last segment.                                                    *)
HlsEndedIsHeard ==
  hls.result = "ENDED" => ended /\ last_seq = newest
=============================================================================
