--------------------------- MODULE RequestParser ----------------------------
(***************************************************************************)
(* HttpRequestParser: feed() appends what was read to the buffer and takes *)
(* turns until the request is complete, malformed, or more data is needed. *)
(* A parser is a record; its limits are constants, in symbols.             *)
(***************************************************************************)
EXTENDS HttpMessage

CONSTANTS MaxRequestLine,  \* max_request_line_bytes
          MaxHeaderField,  \* max_header_field_bytes
          MaxHeaderCount,  \* max_header_count
          MaxTotalHeader,  \* max_total_header_bytes
          MaxBodyBytes     \* max_body_bytes

ASSUME LimitsAssumption ==
  /\ MaxRequestLine \in Nat /\ MaxHeaderField \in Nat \ {0} /\ MaxHeaderCount \in Nat
  /\ MaxTotalHeader \in Nat
  /\ MaxBodyBytes \in 0..9 \* a length is one numeral

\* HttpRequest().
EmptyRequest ==
  [method |-> "GET", target |-> <<"/">>, version |-> <<"HTTP/", "1.1">>,
   headers |-> NoHeaders, body |-> <<>>]

\* reset: the buffer goes with the rest.
FreshParser ==
  [state |-> "RequestLine", request |-> EmptyRequest, buffer |-> <<>>, count |-> 0, total |-> 0]

-----------------------------------------------------------------------------
(* Turns of the loop in feed() *)

\* The position of the first CR LF, 0 if there is none.
FindCrlf(b) ==
  LET at == {i \in 1..(Len(b) - 1) : b[i] = "CR" /\ b[i + 1] = "LF"}
  IN IF at = {} THEN 0 ELSE CHOOSE i \in at : \A j \in at : i <= j

SetError(p) == [p EXCEPT !.state = "Error"]
ConsumeBytes(p, n) == [p EXCEPT !.buffer = SubSeq(@, n + 1, Len(@))]

\* What istringstream >> takes from the line, word by word.
Words(line) == NonEmpty(SplitAt(line, White))

\* parse_request_line.  Only an unfinished line is held against the limit, and
\* words after the third are ignored.
ParseRequestLine(p) ==
  LET at == FindCrlf(p.buffer)
      words == Words(SubSeq(p.buffer, 1, at - 1))
      rest == ConsumeBytes(p, at + 1)
  IN IF at = 0
     THEN IF Len(p.buffer) > MaxRequestLine THEN SetError(p) ELSE p
     ELSE IF Len(words) >= 3 /\ KnownMethod(words[1]) /\ Head(words[3]) = "HTTP/"
     THEN [rest EXCEPT !.state = "Headers",
                       !.request.method = StringToMethod(words[1]),
                       !.request.target = words[2],
                       !.request.version = words[3]]
     ELSE SetError(rest)

\* parse_header on a line that is not empty: the limits, the colon, the name.
StoreHeader(p, line) ==
  LET colon == SelectInSeq(line, LAMBDA c : c = ":")
      name == Trim(SubSeq(line, 1, colon - 1), {"SP"})
      value == Trim(SubSeq(line, colon + 1, Len(line)), White)
  IN IF /\ p.count < MaxHeaderCount
        /\ colon > 0
        /\ ValidName(name)
        /\ p.total + Len(line) <= MaxTotalHeader
     THEN [p EXCEPT !.request.headers = SetHeader(@, name[1], value),
                    !.count = @ + 1,
                    !.total = @ + Len(line)]
     ELSE SetError(p)

\* The empty line: a body follows for the methods that have one.
EndOfHeaders(p) ==
  IF p.state = "Headers" /\ FindCrlf(p.buffer) = 1
  THEN [ConsumeBytes(p, 2) EXCEPT
          !.state = IF RequiresBody(p.request.method) THEN "Body" ELSE "Complete"]
  ELSE p

\* Mutant of ParseHeader: an unfinished line that begins like the empty line is
\* taken for it.
ParseHeaderEager(p) ==
  LET at == FindCrlf(p.buffer)
  IN IF at = 0
     THEN IF p.buffer = <<"CR">>
          THEN [p EXCEPT !.state = IF RequiresBody(p.request.method) THEN "Body" ELSE "Complete"]
          ELSE IF Len(p.buffer) > MaxHeaderField THEN SetError(p) ELSE p
     ELSE EndOfHeaders(IF at = 1 THEN p
                       ELSE StoreHeader(ConsumeBytes(p, at + 1), SubSeq(p.buffer, 1, at - 1)))

ParseHeader(p) ==
  LET at == FindCrlf(p.buffer)
  IN IF at = 0
     THEN IF Len(p.buffer) > MaxHeaderField THEN SetError(p) ELSE p
     ELSE EndOfHeaders(IF at = 1 THEN p
                       ELSE StoreHeader(ConsumeBytes(p, at + 1), SubSeq(p.buffer, 1, at - 1)))

\* parse_body waits for the whole body.
ParseBody(p) ==
  LET cl == Get(p.request.headers, "content-length")
  IN IF cl = <<>> THEN [p EXCEPT !.state = "Complete"]
     ELSE IF ~IsNumber(cl) \/ Stoul(cl) > MaxBodyBytes THEN SetError(p)
     ELSE IF Len(p.buffer) < Stoul(cl) THEN p
     ELSE [ConsumeBytes(p, Stoul(cl)) EXCEPT
             !.state = "Complete",
             !.request.body = SubSeq(p.buffer, 1, Stoul(cl))]

Turn(p) ==
  CASE p.state = "RequestLine" -> ParseRequestLine(p)
    [] p.state = "Headers" -> ParseHeader(p)
    [] p.state = "Body" -> ParseBody(p)
    [] OTHER -> p

\* Turns enough for whatever is in the buffer: every line has two symbols.
Turns(p) ==
  LET after[k \in 0..(3 + Len(p.buffer) \div 2)] == IF k = 0 THEN p ELSE Turn(after[k - 1])
  IN after[3 + Len(p.buffer) \div 2]

\* A complete parser starts over, a failed one takes no data.
Feed(p, data) ==
  IF p.state = "Error" THEN p
  ELSE Turns([(IF p.state = "Complete" THEN FreshParser ELSE p) EXCEPT !.buffer = @ \o data])

-----------------------------------------------------------------------------
(* Reference: the client's message and what it means, with no regard to   *)
(* how it is cut into segments.  A message has a method, a target, a      *)
(* version, fields (pairs of a name and a value), other lines that are no *)
(* such fields, and a body.                                               *)

Crlf == <<"CR", "LF">>
RequestLine(m) == <<m.method, "SP">> \o m.target \o <<"SP", "HTTP/", m.version>>
FieldLine(f) == <<f[1], ":", "SP">> \o f[2]
FieldLines(fields) == [i \in 1..Len(fields) |-> FieldLine(fields[i])]
HeaderLines(m) == FieldLines(m.fields) \o m.other
Block(lines) == FlattenSeq([i \in 1..Len(lines) |-> lines[i] \o Crlf])
Render(m) == Block(<<RequestLine(m)>> \o HeaderLines(m)) \o (Crlf \o m.body)

\* The last field of a name counts.
LastOf(fields, name) ==
  CHOOSE i \in 1..Len(fields) : /\ fields[i][1] = name
                                /\ \A j \in 1..Len(fields) : fields[j][1] = name => j <= i
HeadersOf(fields) ==
  [n \in {fields[i][1] : i \in 1..Len(fields)} |-> fields[LastOf(fields, n)][2]]
Meaning(m) ==
  [method |-> Spelled[m.method], target |-> m.target, version |-> <<"HTTP/", m.version>>,
   headers |-> HeadersOf(m.fields), body |-> m.body]

\* A message as the grammar has it: a known method, a target that is one word,
\* and fields only, each with a name that is one and a value with no white space
\* at its ends.
Bare(value) == value # <<>> => value[1] \notin White /\ value[Len(value)] \notin White
Proper(m) ==
  /\ m.method \in DOMAIN Spelled /\ m.version \notin White
  /\ m.target # <<>> /\ \A i \in 1..Len(m.target) : m.target[i] \notin White
  /\ m.other = <<>>
  /\ \A i \in 1..Len(m.fields) : ValidName(<<m.fields[i][1]>>) /\ Bare(m.fields[i][2])

\* A message the server promises to read: one with a body exactly where one is
\* due, and every limit kept, with room for the CR of an unfinished line.
WellFormed(m) ==
  LET cl == Get(Meaning(m).headers, "content-length")
  IN /\ Proper(m)
     /\ Len(RequestLine(m)) < MaxRequestLine
     /\ \A i \in 1..Len(m.fields) : Len(FieldLine(m.fields[i])) < MaxHeaderField
     /\ Len(m.fields) <= MaxHeaderCount
     /\ Len(FlattenSeq(FieldLines(m.fields))) <= MaxTotalHeader
     /\ IF RequiresBody(Spelled[m.method]) /\ cl # <<>>
        THEN cl = Decimal(Len(m.body)) /\ Len(m.body) <= MaxBodyBytes
        ELSE m.body = <<>>
=============================================================================
