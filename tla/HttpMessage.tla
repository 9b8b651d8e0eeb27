---------------------------- MODULE HttpMessage -----------------------------
(***************************************************************************)
(* The data that requests and responses are made of: text, header fields,  *)
(* methods, and the response with its serializer.                          *)
(*                                                                         *)
(* Text is a sequence of symbols, each standing for the characters of a    *)
(* word, a delimiter or a numeral; its length is the number of symbols.    *)
(* Header names are kept as the code compares them, in lower case.  A      *)
(* response body is only its length.                                       *)
(***************************************************************************)
EXTENDS Naturals, Sequences, FiniteSets, SequencesExt, Functions

White == {"SP", "CR", "LF"}

\* One symbol more: a symbol of D begins a piece, another belongs to the last.
Extend(parts, c, D) ==
  IF c \in D THEN Append(parts, <<>>) ELSE [parts EXCEPT ![Len(parts)] = Append(@, c)]

\* The pieces of s between symbols of D, empty ones included.
SplitAt(s, D) ==
  LET parts[n \in 0..Len(s)] == IF n = 0 THEN << <<>> >> ELSE Extend(parts[n - 1], s[n], D)
  IN parts[Len(s)]

\* The pieces that are not empty.
Keep(pieces, p) == IF p = <<>> THEN pieces ELSE Append(pieces, p)
NonEmpty(pieces) ==
  LET kept[n \in 0..Len(pieces)] == IF n = 0 THEN <<>> ELSE Keep(kept[n - 1], pieces[n])
  IN kept[Len(pieces)]

\* s without the symbols of D at its ends.
Trim(s, D) ==
  LET kept == {i \in DOMAIN s : s[i] \notin D}
  IN IF kept = {} THEN <<>>
     ELSE SubSeq(s, CHOOSE i \in kept : \A j \in kept : i <= j,
                    CHOOSE i \in kept : \A j \in kept : i >= j)

-----------------------------------------------------------------------------
(* Numbers *)

Numerals == <<"0", "1", "2", "3", "4", "5", "6", "7", "8", "9">>

\* std::to_string.
Decimal(n) == <<Numerals[n + 1]>>

\* std::stoul reads a prefix, with a sign or without, and ignores what follows
\* it.  A minus sign wraps around: Wrapped stands for 2^64 - n and is above every
\* limit.
Wrapped == 1000
IsNumber(v) ==
  \/ v # <<>> /\ v[1] \in Range(Numerals)
  \/ Len(v) > 1 /\ v[1] \in {"+", "-"} /\ v[2] \in Range(Numerals)
Digit(d) == (CHOOSE i \in DOMAIN Numerals : Numerals[i] = d) - 1
Stoul(v) ==
  CASE v[1] = "+" -> Digit(v[2])
    [] v[1] = "-" -> IF v[2] = "0" THEN 0 ELSE Wrapped
    [] OTHER -> Digit(v[1])

-----------------------------------------------------------------------------
(* HttpHeaders: a partial function from names to values *)

NoHeaders == [n \in {} |-> <<>>]

Get(h, name) == IF name \in DOMAIN h THEN h[name] ELSE <<>>

SetHeader(h, name, value) ==
  [n \in DOMAIN h \cup {name} |-> IF n = name THEN value ELSE h[n]]

RemoveHeader(h, name) == Restrict(h, DOMAIN h \ {name})

\* The fields of g and those of h, which come first.
Overlay(h, g) ==
  [n \in DOMAIN h \cup DOMAIN g |-> IF n \in DOMAIN h THEN h[n] ELSE g[n]]

\* is_valid_name: one token, and no white space inside it.
ValidName(name) == Len(name) = 1 /\ name[1] \notin White \cup {":", "bad"}

\* is_valid_value: no control character, and no byte above 0x7f either, since
\* char is signed.
ValidValue(value) == \A i \in DOMAIN value : value[i] # "ctl"

-----------------------------------------------------------------------------
(* HttpMethod *)

Methods == {"GET", "HEAD", "POST", "PUT", "DELETE", "OPTIONS", "PATCH"}

\* string_to_http_method ignores case.
Spelled == [m \in Methods \cup {"get", "post"} |->
              IF m = "get" THEN "GET" ELSE IF m = "post" THEN "POST" ELSE m]
KnownMethod(word) == Len(word) = 1 /\ word[1] \in DOMAIN Spelled
StringToMethod(word) == Spelled[word[1]]

RequiresBody(m) == m \in {"POST", "PUT", "PATCH"}

-----------------------------------------------------------------------------
(* HttpResponse and HttpResponseSerializer *)

\* set_body and update_content_length: no body, no Content-Length.
SetBody(r, n) ==
  [r EXCEPT !.body = n,
            !.headers = IF n > 0 THEN SetHeader(@, "content-length", Decimal(n))
                        ELSE RemoveHeader(@, "content-length")]

NewResponse(status, n) ==
  SetBody([status |-> status, headers |-> NoHeaders, body |-> 0, head |-> FALSE], n)

SetPolicy(r, keep) ==
  [r EXCEPT !.headers = SetHeader(@, "connection", <<IF keep THEN "keep-alive" ELSE "close">>)]

\* is_valid: a Content-Length must be the length of the body, but for HEAD.
IsValid(r) ==
  LET cl == Get(r.headers, "content-length")
  IN /\ \A n \in DOMAIN r.headers : ValidValue(r.headers[n])
     /\ cl # <<>> => IsNumber(cl) /\ (Stoul(cl) = r.body \/ r.head)

\* Mutant of Serialize: head_only is forgotten.
SerializeBody(r) ==
  IF IsValid(r) THEN <<[status |-> r.status, headers |-> r.headers, body |-> r.body]>> ELSE <<>>

\* serialize: nothing at all for an invalid response, no body for head_only.
Serialize(r) ==
  IF IsValid(r)
  THEN <<[status |-> r.status, headers |-> r.headers, body |-> IF r.head THEN 0 ELSE r.body]>>
  ELSE <<>>
=============================================================================
