-------------------------------- MODULE HlsHttp --------------------------------
(***************************************************************************)
(* http_get and body_feed of hls.c: requests over one connection that is   *)
(* kept between them, answers whose body is delimited by a length, by      *)
(* chunks or by the end of the connection, redirections, one retry when    *)
(* the server has dropped the kept connection, and a stop at any moment.   *)
(*                                                                         *)
(* An answer is a sequence of bytes; those of an answer before the last    *)
(* one are marked old.  What the server has sent is in wire; one step      *)
(* receives any part of it, or takes one byte through the loop of          *)
(* body_feed.  A header is two bytes, so that a reception can end in it.   *)
(***************************************************************************)
EXTENDS Integers, Sequences, SequencesExt

CONSTANTS
  HttpBase,    \* the base of a chunk size: 16
  HttpBodies,  \* the answers a server gives: see Answer
  HttpReceive, \* most bytes received at once
  HttpCalls    \* bound: calls of http_get

(* The digits of a chunk's size, the size, and what a server may answer:   *)
(* the only chunk of no bytes is the one that ends a body.                 *)
SizeDigits == Seq(0..(HttpBase - 1))
Size(ds) ==
  LET upTo[k \in 0..Len(ds)] == IF k = 0 THEN 0 ELSE upTo[k - 1] * HttpBase + ds[k]
  IN upTo[Len(ds)]

Answers ==
  [status : {"ok", "redirect", "error"}, framing : {"length", "chunked", "close"},
   keep : BOOLEAN, length : Nat, chunks : Seq([size : SizeDigits, extension : BOOLEAN]),
   trailer : BOOLEAN]

ASSUME HttpAssumption ==
  /\ HttpBase \in Nat \ {0, 1} /\ HttpReceive \in Nat \ {0} /\ HttpCalls \in Nat
  /\ \A b \in HttpBodies : /\ b \in Answers
                           /\ \A i \in DOMAIN b.chunks : Size(b.chunks[i].size) > 0

VARIABLES
  http,   \* where http_get is, its locals and kvalid
  wire,   \* what the server has sent and http_get has not received
  alive,  \* the server has not closed the connection
  answer, \* what the server answers to the last request
  given,  \* what the callback has been given in this call
  asked,  \* how many requests have been written in this call
  stop    \* should_stop

httpVars == <<http, wire, alive, answer, given, asked, stop>>

-----------------------------------------------------------------------------
(* The bytes of an answer; the first one tells what answer it is. *)
NoAnswer == [status |-> "none", framing |-> "none", keep |-> FALSE,
             length |-> 0, chunks |-> <<>>, trailer |-> FALSE]
HttpByte(kind, value) ==
  [kind |-> kind, value |-> value, of |-> NoAnswer, old |-> FALSE]
DataBytes(n) == [i \in 1..n |-> HttpByte("data", i)]
LF == HttpByte("lf", 0)
CR == HttpByte("cr", 0)

(* A chunk: its size, with or without an extension, and its bytes.         *)
Digits(ds) == [i \in 1..Len(ds) |-> HttpByte("digit", ds[i])]
Extension == <<HttpByte("semicolon", 0), HttpByte("digit", 1)>>
ChunkOf(c) ==
  Digits(c.size) \o (IF c.extension THEN Extension ELSE <<>>) \o <<CR, LF>>
  \o DataBytes(Size(c.size)) \o <<CR, LF>>

HeadBytes(b) == <<[HttpByte("head", 0) EXCEPT !.of = b], HttpByte("headend", 0)>>
BodyBytes(b) ==
  IF b.framing = "chunked"
  THEN FlattenSeq([i \in 1..Len(b.chunks) |-> ChunkOf(b.chunks[i])])
       \o <<HttpByte("digit", 0), CR, LF>>
       \o (IF b.trailer THEN <<HttpByte("trailer", 0), LF>> ELSE <<>>) \o <<CR, LF>>
  ELSE DataBytes(b.length)
Answer(b) == HeadBytes(b) \o BodyBytes(b)
Payload(b) ==
  IF b.framing = "chunked"
  THEN FlattenSeq([i \in 1..Len(b.chunks) |-> DataBytes(Size(b.chunks[i].size))])
  ELSE DataBytes(b.length)
Old(s) == [i \in DOMAIN s |-> [s[i] EXCEPT !.old = TRUE]]

-----------------------------------------------------------------------------
NoBody == [chunked |-> FALSE, cs |-> 0, csize |-> 0, framed |-> FALSE, remain |-> 0]
HttpInit ==
  /\ http = [at |-> "idle", calls |-> 0, kvalid |-> FALSE, reused |-> FALSE,
             allowed |-> TRUE, redir |-> 0, hdr |-> <<>>, rb |-> <<>>,
             body |-> NoBody, done |-> 0, result |-> 1]
  /\ wire = <<>> /\ alive = FALSE
  /\ answer = NoAnswer
  /\ given = <<>> /\ asked = 0 /\ stop = FALSE

(* The user stops; the server closes a connection, what it has sent of an  *)
(* answer may be lost with it.                                             *)
HttpStop ==
  /\ ~stop /\ stop' = TRUE
  /\ UNCHANGED <<http, wire, alive, answer, given, asked>>

HttpDrop ==
  /\ alive /\ alive' = FALSE
  /\ \E n \in 0..Len(wire) : wire' = SubSeq(wire, 1, n)
  /\ UNCHANGED <<http, answer, given, stop, asked>>

HttpAt(l) == http.at = l
HttpReturn(code) == http' = [http EXCEPT !.at = "idle", !.result = code]
(* conn_close, with or without a return.                                   *)
HttpClose == wire' = <<>> /\ alive' = FALSE
CloseReturn(code) == HttpClose /\ HttpReturn(code)

HttpCall ==
  /\ HttpAt("idle") /\ http.calls < HttpCalls
  /\ http' = [http EXCEPT !.at = "open", !.calls = @ + 1, !.redir = 0,
                          !.allowed = TRUE, !.result = 1]
  /\ given' = <<>> /\ asked' = 0
  /\ UNCHANGED <<wire, alive, answer, stop>>

(* again: the kept connection, if it goes to the same host, or a new one.  *)
TakeKept ==
  /\ HttpAt("open") /\ http.allowed /\ http.kvalid
  /\ http' = [http EXCEPT !.at = "write", !.kvalid = FALSE, !.reused = TRUE]
  /\ UNCHANGED <<wire, alive, answer, given, stop, asked>>

OpenNew ==
  /\ HttpAt("open")
  /\ http' = [http EXCEPT !.at = "write", !.kvalid = FALSE, !.reused = FALSE]
  /\ wire' = <<>> /\ alive' = TRUE
  /\ UNCHANGED <<answer, given, stop, asked>>

OpenFails ==
  /\ HttpAt("open")
  /\ http' = [http EXCEPT !.at = "idle", !.kvalid = FALSE, !.result = -1]
  /\ HttpClose
  /\ UNCHANGED <<answer, given, stop, asked>>

Retry == http' = [http EXCEPT !.at = "open", !.allowed = FALSE]

(* The request is written, and answered at once: what has not come yet is  *)
(* what has not been received.                                             *)
WriteRequest ==
  /\ HttpAt("write")
  /\ http' = [http EXCEPT !.at = "head", !.hdr = <<>>]
  /\ asked' = asked + 1
  /\ IF alive
     THEN \E b \in HttpBodies :
            answer' = b /\ wire' = Old(wire) \o Answer(b)
     ELSE UNCHANGED <<answer, wire>>
  /\ UNCHANGED <<alive, given, stop>>

WriteFails ==
  /\ HttpAt("write") /\ ~alive
  /\ HttpClose
  /\ IF http.reused THEN Retry ELSE HttpReturn(-1)
  /\ UNCHANGED <<answer, given, stop, asked>>

-----------------------------------------------------------------------------
(* The header. *)
HeadStopped ==
  /\ HttpAt("head") /\ stop
  /\ CloseReturn(-2)
  /\ UNCHANGED <<answer, given, stop, asked>>

(* Twelve seconds without a byte.                                          *)
HeadTimeout ==
  /\ HttpAt("head") /\ ~stop
  /\ CloseReturn(-1)
  /\ UNCHANGED <<answer, given, stop, asked>>

HeadClosed ==
  /\ HttpAt("head") /\ ~stop
  /\ ~alive /\ wire = <<>>
  /\ HttpClose
  /\ IF http.hdr = <<>> /\ http.reused THEN Retry ELSE HttpReturn(-1)
  /\ UNCHANGED <<answer, given, stop, asked>>

EndsHead(s) == \E i \in 1..Len(s) : s[i].kind = "headend"
PlaceOfEnd(s) == CHOOSE i \in 1..Len(s) :
                   s[i].kind = "headend" /\ \A j \in 1..(i - 1) : s[j].kind # "headend"

(* Takes the next bytes of the wire: those that are received at once.      *)
HttpReceived(n) == SubSeq(wire, 1, n)
Arrives(n) == n <= Len(wire) /\ wire' = SubSeq(wire, n + 1, Len(wire))

HeadReceive ==
  /\ HttpAt("head") /\ ~stop
  /\ \E n \in 1..HttpReceive :
       /\ Arrives(n)
       /\ LET h == http.hdr \o HttpReceived(n) IN
          http' = IF EndsHead(h)
                  THEN [http EXCEPT !.at = "status", !.hdr = SubSeq(h, 1, PlaceOfEnd(h)),
                                    !.rb = SubSeq(h, PlaceOfEnd(h) + 1, Len(h))]
                  ELSE [http EXCEPT !.hdr = h]
  /\ UNCHANGED <<alive, answer, given, stop, asked>>

(* A header that does not begin with HTTP/ has status 0. *)
HttpStatus == IF http.hdr[1].kind = "head" THEN http.hdr[1].of.status ELSE "none"

(* Mutant: redirections are not counted. *)
StatusRedirectAgain ==
  /\ HttpAt("status") /\ HttpStatus = "redirect"
  /\ HttpClose
  /\ http' = [http EXCEPT !.at = "open", !.allowed = TRUE]
  /\ UNCHANGED <<answer, given, stop, asked>>

(* To where Location says, if there is one.                                *)
StatusRedirect ==
  /\ HttpAt("status") /\ HttpStatus = "redirect"
  /\ HttpClose
  /\ \/ /\ http.redir < 3
        /\ http' = [http EXCEPT !.at = "open", !.redir = @ + 1, !.allowed = TRUE]
     \/ HttpReturn(-1)
  /\ UNCHANGED <<answer, given, stop, asked>>

StatusError ==
  /\ HttpAt("status") /\ HttpStatus \notin {"ok", "redirect"}
  /\ CloseReturn(-1)
  /\ UNCHANGED <<answer, given, stop, asked>>

StatusOk ==
  /\ HttpAt("status") /\ HttpStatus = "ok"
  /\ LET b == http.hdr[1].of IN
     http' = [http EXCEPT
       !.at = "feed", !.done = 0,
       !.body = [chunked |-> b.framing = "chunked", cs |-> 0, csize |-> 0,
                 framed |-> b.framing = "length", remain |-> b.length]]
  /\ UNCHANGED <<wire, alive, answer, given, stop, asked>>

-----------------------------------------------------------------------------
(* body_feed, one byte of what has been received at a time.  Its end       *)
(* leaves what follows in rb, which the next reception overwrites.         *)
Byte1 == http.rb[1]
Feeding == HttpAt("feed") /\ http.rb # <<>> /\ http.done = 0
(* The callback is given a byte, or gives up because of the stop.          *)
Given(b, complete) ==
  \/ /\ given' = Append(given, Byte1)
     /\ http' = [http EXCEPT !.rb = Tail(@), !.body = b,
                             !.done = IF complete THEN 1 ELSE 0]
  \/ /\ stop
     /\ http' = [http EXCEPT !.rb = Tail(@), !.done = -1]
     /\ UNCHANGED given
Skipped(b, complete) ==
  /\ http' = [http EXCEPT !.rb = Tail(@), !.body = b,
                          !.done = IF complete THEN 1 ELSE 0]
  /\ UNCHANGED given

FeedIdentity ==
  /\ Feeding /\ ~http.body.chunked
  /\ IF ~http.body.framed THEN Given(http.body, FALSE)
     ELSE IF http.body.remain = 0 THEN Skipped(http.body, TRUE)
     ELSE Given([http.body EXCEPT !.remain = @ - 1], http.body.remain = 1)
  /\ UNCHANGED <<wire, alive, answer, stop, asked>>

(* Mutant: the digits of an extension are taken for some of the size. *)
FeedSizeExtended ==
  /\ Feeding /\ http.body.chunked /\ http.body.cs \in {0, 1}
  /\ CASE Byte1.kind = "lf" ->
            Skipped([http.body EXCEPT !.cs = IF http.body.csize = 0 THEN 5 ELSE 2], FALSE)
       [] Byte1.kind = "digit" ->
            Skipped([http.body EXCEPT !.csize = @ * HttpBase + Byte1.value], FALSE)
       [] OTHER -> Skipped(http.body, FALSE)
  /\ UNCHANGED <<wire, alive, answer, stop, asked>>

(* Mutant: the body ends with the size of the last chunk. *)
FeedSizeEnds ==
  /\ Feeding /\ http.body.chunked /\ http.body.cs \in {0, 1}
  /\ CASE Byte1.kind = "lf" ->
            Skipped([http.body EXCEPT !.cs = IF http.body.csize = 0 THEN 4 ELSE 2],
                    http.body.csize = 0)
       [] http.body.cs = 0 /\ Byte1.kind = "digit" ->
            Skipped([http.body EXCEPT !.csize = @ * HttpBase + Byte1.value], FALSE)
       [] http.body.cs = 0 /\ Byte1.kind = "semicolon" ->
            Skipped([http.body EXCEPT !.cs = 1], FALSE)
       [] OTHER -> Skipped(http.body, FALSE)
  /\ UNCHANGED <<wire, alive, answer, stop, asked>>

FeedSize ==
  /\ Feeding /\ http.body.chunked /\ http.body.cs \in {0, 1}
  /\ CASE Byte1.kind = "lf" ->
            Skipped([http.body EXCEPT !.cs = IF http.body.csize = 0 THEN 5 ELSE 2], FALSE)
       [] http.body.cs = 0 /\ Byte1.kind = "digit" ->
            Skipped([http.body EXCEPT !.csize = @ * HttpBase + Byte1.value], FALSE)
       [] http.body.cs = 0 /\ Byte1.kind = "semicolon" ->
            Skipped([http.body EXCEPT !.cs = 1], FALSE)
       [] OTHER -> Skipped(http.body, FALSE)
  /\ UNCHANGED <<wire, alive, answer, stop, asked>>

FeedData ==
  /\ Feeding /\ http.body.chunked /\ http.body.cs = 2
  /\ Given([http.body EXCEPT !.csize = @ - 1,
                             !.cs = IF http.body.csize = 1 THEN 3 ELSE 2], FALSE)
  /\ UNCHANGED <<wire, alive, answer, stop, asked>>

FeedCrlf ==
  /\ Feeding /\ http.body.chunked /\ http.body.cs = 3
  /\ Skipped(IF Byte1.kind = "lf" THEN [http.body EXCEPT !.cs = 0, !.csize = 0]
          ELSE http.body, FALSE)
  /\ UNCHANGED <<wire, alive, answer, stop, asked>>

FeedLast ==
  /\ Feeding /\ http.body.chunked /\ http.body.cs = 5
  /\ IF Byte1.kind = "lf" THEN Skipped([http.body EXCEPT !.cs = 4], TRUE)
     ELSE Skipped(http.body, FALSE)
  /\ UNCHANGED <<wire, alive, answer, stop, asked>>

-----------------------------------------------------------------------------
(* More of the body is needed. *)
Needed == HttpAt("feed") /\ http.done = 0 /\ http.rb = <<>>
BodyStopped ==
  /\ Needed /\ stop
  /\ CloseReturn(-2)
  /\ UNCHANGED <<answer, given, stop, asked>>

BodyTimeout ==
  /\ Needed /\ ~stop
  /\ CloseReturn(-1)
  /\ UNCHANGED <<answer, given, stop, asked>>

BodyClosed ==
  /\ Needed /\ ~stop
  /\ ~alive /\ wire = <<>>
  /\ CloseReturn(IF ~http.body.chunked /\ ~http.body.framed THEN 0 ELSE -1)
  /\ UNCHANGED <<answer, given, stop, asked>>

BodyReceive ==
  /\ Needed /\ ~stop
  /\ \E n \in 1..HttpReceive :
       Arrives(n) /\ http' = [http EXCEPT !.rb = HttpReceived(n)]
  /\ UNCHANGED <<alive, answer, given, stop, asked>>

(* The end: the connection is kept if nothing is left to receive on it.    *)
Reusable == http.hdr[1].of.keep /\ (http.body.chunked \/ http.body.framed)
KeepConnection ==
  /\ HttpAt("feed") /\ http.done = 1 /\ Reusable
  /\ http' = [http EXCEPT !.at = "idle", !.kvalid = TRUE, !.result = 0]
  /\ UNCHANGED <<wire, alive, answer, given, stop, asked>>

EndClose ==
  /\ HttpAt("feed")
  /\ \/ http.done = 1 /\ ~Reusable /\ CloseReturn(0)
     \/ http.done = -1 /\ CloseReturn(-1)
  /\ UNCHANGED <<answer, given, stop, asked>>

HttpStep ==
  \/ HttpCall \/ TakeKept \/ OpenNew \/ OpenFails \/ WriteRequest \/ WriteFails
  \/ HeadStopped \/ HeadTimeout \/ HeadClosed \/ HeadReceive
  \/ StatusRedirect \/ StatusError \/ StatusOk
  \/ FeedIdentity \/ FeedSize \/ FeedData \/ FeedCrlf \/ FeedLast
  \/ BodyStopped \/ BodyTimeout \/ BodyClosed \/ BodyReceive
  \/ KeepConnection \/ EndClose

HttpNext == HttpStep \/ HttpStop \/ HttpDrop

HttpSpec == HttpInit /\ [][HttpNext]_httpVars

-----------------------------------------------------------------------------
(* Every variable stays in its domain.                                     *)
HttpTypeOK ==
  /\ http.at \in {"idle", "open", "write", "head", "status", "feed"}
  /\ http.redir \in 0..3 /\ http.result \in {0, 1, -1, -2}
  /\ http.done \in {0, 1, -1} /\ http.body.cs \in 0..5
  /\ http.body.csize \in Nat /\ http.body.remain \in Nat
  /\ alive \in BOOLEAN /\ stop \in BOOLEAN /\ asked \in Nat

(* Whatever the cuts, the drops and the retries: the callback is given the *)
(* payload of one answer, in order and once, and a body delimited by       *)
(* chunks or a length is whole when http_get says so.                      *)
HttpReturnsWhole ==
  /\ HttpAt("feed") => IsPrefix(given, Payload(answer))
  /\ HttpAt("idle") /\ http.result = 0 /\ answer.framing # "close"
       => given = Payload(answer)

(* "consume the final CRLF so the connection can be reused": nothing of an *)
(* answer without a trailer is still to come on a connection that is kept. *)
HttpKeptIsClean == http.kvalid /\ ~answer.trailer => wire = <<>>

(* However the server answers and whenever it drops the connection: a call *)
(* asks once, once more for each of three redirections, and once more when *)
(* a kept connection turns out to be gone.                                 *)
HttpAsksAtMost == asked <= 5
=============================================================================
