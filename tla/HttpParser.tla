----------------------------- MODULE HttpParser -----------------------------
(***************************************************************************)
(* JobHttpParser (job_http_parser.cpp): an HTTP/1.1 response taken apart   *)
(* as it arrives, in pieces of any size.  A symbol <<kind, value>> stands  *)
(* for the text of one line, for "cr", for "lf", or for one body byte; a   *)
(* line is the sequence of symbols before a cr lf.                         *)
(***************************************************************************)
EXTENDS Integers, Sequences, FiniteSets

CONSTANTS
    LineBufferSize,     \* kLineBufferSize (8192), in symbols, cr and lf included
    MaxHeaderFields,    \* kMaxHeaderFields (128)
    MaxTrailerFields    \* kMaxTrailerFields (32)

ASSUME ParserAssumption ==
    LineBufferSize \in Nat \ {0} /\ MaxHeaderFields \in Nat /\ MaxTrailerFields \in Nat

CR == <<"cr", 0>>
LF == <<"lf", 0>>

(* reset(); the header fields received so far, and how many trailer fields *)
NewParser ==
    [state |-> "StatusLine", framing |-> "None", code |-> 0, fields |-> <<>>, trailers |-> 0,
     line |-> <<>>, contentLength |-> 0, chunk |-> 0, body |-> 0]

SetError(p) == [p EXCEPT !.state = "Error"]
Lowest(s) == CHOOSE i \in s : \A j \in s : i <= j

(* Mutant: the part of a line that came in an earlier piece is forgotten. *)
ConsumeLine_Fresh(p, data) ==
    LET ends == {i \in 1..(Len(data) - 1) : data[i] = CR /\ data[i + 1] = LF} IN
    IF ends # {}
    THEN LET i == Lowest(ends) IN
         [got |-> TRUE, p |-> [p EXCEPT !.line = <<>>], line |-> SubSeq(data, 1, i - 1), rest |-> SubSeq(data, i + 2, Len(data))]
    ELSE [got |-> FALSE, p |-> [p EXCEPT !.line = @ \o data], line |-> <<>>, rest |-> <<>>]

(* consumeLine(): a line that is whole in this piece is used in place; one   *)
(* that is not is gathered, up to the size of the line buffer.               *)
ConsumeLine(p, data) ==
    LET ends == {i \in 1..(Len(data) - 1) : data[i] = CR /\ data[i + 1] = LF}
        all  == p.line \o data
        stop == {j \in (Len(p.line) + 1)..Len(all) :
                    \/ j >= 2 /\ all[j - 1] = CR /\ all[j] = LF
                    \/ j = LineBufferSize}
        fail == [got |-> FALSE, p |-> SetError(p), line |-> <<>>, rest |-> data]
    IN  IF p.line = <<>> /\ ends # {}
        THEN LET i == Lowest(ends) IN
             IF i + 1 > LineBufferSize THEN fail
             ELSE [got |-> TRUE, p |-> p, line |-> SubSeq(data, 1, i - 1), rest |-> SubSeq(data, i + 2, Len(data))]
        ELSE IF stop = {}
        THEN [got |-> FALSE, p |-> [p EXCEPT !.line = all], line |-> <<>>, rest |-> <<>>]
        ELSE LET j == Lowest(stop) IN
             IF j >= 2 /\ all[j - 1] = CR /\ all[j] = LF
             THEN [got |-> TRUE, p |-> [p EXCEPT !.line = <<>>], line |-> SubSeq(all, 1, j - 2), rest |-> SubSeq(all, j + 1, Len(all))]
             ELSE fail

(* A line of one symbol of the given kind is well formed. *)
IsLine(line, kinds) == Len(line) = 1 /\ line[1][1] \in kinds
Values(p, kind) == {p.fields[i][2] : i \in {j \in DOMAIN p.fields : p.fields[j][1] = kind}}

ParseStatusLine(p, line) ==
    IF IsLine(line, {"status"}) THEN [p EXCEPT !.code = line[1][2], !.state = "Headers"] ELSE SetError(p)

ParseHeaderLine(p, line) ==
    IF IsLine(line, {"field", "content-length", "transfer-encoding"}) /\ Len(p.fields) < MaxHeaderFields
    THEN [p EXCEPT !.fields = Append(@, line[1])] ELSE SetError(p)

(* parseHeadersComplete(): interim responses start over; what the status or  *)
(* the method settles goes before Transfer-Encoding, which goes before       *)
(* Content-Length.  The coding "chunked" (value 1) must be the last; without *)
(* it the body runs to the close.                                            *)
ParseHeadersComplete(p, method) ==
    LET lengths == Values(p, "content-length")
        codings == SelectSeq(p.fields, LAMBDA f : f[1] = "transfer-encoding")
        chunked == {i \in DOMAIN codings : codings[i][2] = 1}
        To(s, f) == [p EXCEPT !.state = s, !.framing = f, !.contentLength = IF lengths = {} THEN 0 ELSE Lowest(lengths)]
    IN  IF Cardinality(lengths) > 1 THEN SetError(p)
        ELSE IF p.code = 101 THEN To("Complete", "Tunnel")
        ELSE IF p.code < 200 THEN NewParser
        ELSE IF method = "HEAD" THEN To("Complete", "None")
        ELSE IF method = "CONNECT" /\ p.code < 300 THEN To("Complete", "Tunnel")
        ELSE IF p.code \in {204, 304} THEN To("Complete", "None")
        ELSE IF codings # <<>> /\ (lengths # {} \/ chunked \ {Len(codings)} # {}) THEN SetError(p)
        ELSE IF codings # <<>> THEN IF chunked # {} THEN To("ChunkSize", "Chunked") ELSE To("Body", "CloseDelimited")
        ELSE IF lengths = {0} THEN To("Complete", "ContentLength")
        ELSE IF lengths # {} THEN To("Body", "ContentLength")
        ELSE To("Body", "CloseDelimited")

ParseChunkSize(p, line) ==
    IF IsLine(line, {"size"})
    THEN [p EXCEPT !.chunk = line[1][2], !.state = IF line[1][2] = 0 THEN "Trailers" ELSE "ChunkData"]
    ELSE SetError(p)

(* A trailer field is checked, and kept apart from the header's fields,     *)
(* under a limit of its own.                                                *)
ParseTrailer(p, line) ==
    IF line = <<>> THEN [p EXCEPT !.state = "Complete"]
    ELSE IF IsLine(line, {"field"}) /\ p.trailers < MaxTrailerFields THEN [p EXCEPT !.trailers = @ + 1]
    ELSE SetError(p)

ByLine(p, method, line) ==
    CASE p.state = "StatusLine"   -> ParseStatusLine(p, line)
      [] p.state = "Headers"      -> IF line = <<>> THEN ParseHeadersComplete(p, method) ELSE ParseHeaderLine(p, line)
      [] p.state = "ChunkSize"    -> ParseChunkSize(p, line)
      [] p.state = "ChunkDataEnd" -> IF line = <<>> THEN [p EXCEPT !.state = "ChunkSize"] ELSE SetError(p)
      [] p.state = "Trailers"     -> ParseTrailer(p, line)

(* How many bytes of the data are body: Content-Length and chunks take no    *)
(* more than their rest.                                                     *)
BodyTake(p, data) ==
    LET rest == IF p.state = "ChunkData" THEN p.chunk
                ELSE IF p.framing = "ContentLength" THEN p.contentLength - p.body ELSE Len(data)
    IN  IF rest < Len(data) THEN rest ELSE Len(data)

(* consumeBody(), as far as the parser goes *)
ConsumeBody(p, n) == [p EXCEPT !.body = @ + n]

(* What follows consumeBody() in the branch of parse() that called it; p is  *)
(* the parser as consumeBody() and the body callback left it.                *)
AfterBody(p, branch, n) ==
    IF branch = "ChunkData"
    THEN [p EXCEPT !.chunk = @ - n, !.state = IF p.chunk = n THEN "ChunkDataEnd" ELSE @]
    ELSE [p EXCEPT !.state = IF p.framing = "ContentLength" /\ p.body = p.contentLength THEN "Complete" ELSE @]

(* Mutant: whatever body has come is enough at the end of the stream *)
NotifyEof_Enough(p) == IF p.state = "Body" THEN [p EXCEPT !.state = "Complete"] ELSE SetError(p)

(* notifyEof() *)
NotifyEof(p) ==
    IF p.state = "Body" /\ p.framing = "CloseDelimited" THEN [p EXCEPT !.state = "Complete"] ELSE SetError(p)

-----------------------------------------------------------------------------
(* The reference: a response read one symbol at a time, with no pieces.      *)
LineStates == {"StatusLine", "Headers", "ChunkSize", "ChunkDataEnd", "Trailers"}

ReadSymbol(p, method, x) ==
    LET line == Append(p.line, x)
        n == Len(line)
    IN  IF p.state \in LineStates
        THEN IF n >= 2 /\ line[n - 1] = CR /\ x = LF
             THEN ByLine([p EXCEPT !.line = <<>>], method, SubSeq(line, 1, n - 2))
             ELSE IF n = LineBufferSize THEN SetError(p) ELSE [p EXCEPT !.line = line]
        ELSE IF p.state \in {"Body", "ChunkData"} THEN AfterBody(ConsumeBody(p, 1), p.state, 1)
        ELSE p

(* The parser after each prefix of the wire. *)
Prefixes(method, wire) ==
    LET f[i \in 0..Len(wire)] == IF i = 0 THEN NewParser ELSE ReadSymbol(f[i - 1], method, wire[i])
    IN  f
=============================================================================
