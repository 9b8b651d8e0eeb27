--------------------- MODULE ProxyResponseParser_proofs ---------------------
(***************************************************************************)
(* Proofs about ProxyResponseParser for every body budget, header budget,  *)
(* set of status codes and set of announced lengths.                       *)
(***************************************************************************)
EXTENDS ProxyResponseParser, TLAPS

Numbers == length \in Nat /\ body \in Nat /\ chunk \in Int /\ code \in Int

\* A 1xx header block has a 1xx code.
InterimCode == interim => code \in 100..199

\* What Content-Length may announce: within the budget, unless no body follows.
LengthChecked ==
  sawCL => \/ length <= MaxBody
           \/ head
           \/ state # "StatusLine" /\ code \in {204, 304}

\* No body before the end of the header block.
NoEarlyBody == state \in {"StatusLine", "Headers"} => body = 0

\* A body of known length is not finished and fits.
LengthBody ==
  state = "Body" /\ framing = "ContentLength" => body < length /\ length <= MaxBody

BodyInv == /\ Numbers /\ InterimCode /\ LengthChecked /\ NoEarlyBody /\ LengthBody
           /\ BodyBounded

\* Init establishes the invariant.
LEMMA BodyInit == Init => BodyInv
  <1> SUFFICES ASSUME Init PROVE BodyInv
    OBVIOUS
  <1>1. ~interim /\ ~sawCL
    BY Zenon DEF Init
  <1> QED
    BY <1>1, ParserAssumption DEF Init, BodyInv, Numbers, InterimCode, LengthChecked,
       NoEarlyBody, LengthBody, BodyBounded

\* Every step preserves it.
LEMMA BodyStep == BodyInv /\ [Next]_vars => BodyInv'
  <1> SUFFICES ASSUME BodyInv, [Next]_vars PROVE BodyInv'
    OBVIOUS
  <1> USE ParserAssumption DEF BodyInv, Numbers, InterimCode, LengthChecked, NoEarlyBody,
          LengthBody, BodyBounded
  <1>1. CASE BadStatusLine \/ BadHeaderLine \/ \E n \in Lengths : ContentLengthRefused(n)
    BY <1>1 DEF BadStatusLine, BadHeaderLine, ContentLengthRefused, Fails, flags, final
  <1>2. ASSUME NEW c \in Codes, InterimStatusLine(c) PROVE BodyInv'
    <2>1. ~sawCL'
      BY <1>2, Zenon DEF InterimStatusLine
    <2> QED
      BY <1>2, <2>1 DEF InterimStatusLine, flags, final
  <1>3. ASSUME NEW c \in Codes, FinalStatusLine(c) PROVE BodyInv'
    <2>1. ~interim'
      BY <1>3, Zenon DEF FinalStatusLine
    <2> QED
      BY <1>3, <2>1 DEF FinalStatusLine, flags, final
  <1>4. CASE PlainHeader
    BY <1>4 DEF PlainHeader, HeaderLine, flags, final
  <1>5. ASSUME NEW n \in Lengths, ContentLength(n) PROVE BodyInv'
    BY <1>5 DEF ContentLength, HeaderLine, AcceptableLength, Bodyless, flags, final
  <1>6. CASE TransferEncoding \/ ConnectionClose
    BY <1>6 DEF TransferEncoding, ConnectionClose, HeaderLine, flags, final
  <1>7. CASE EndOfInterim
    <2>1. interim /\ ~interim'
      BY <1>7, Zenon DEF EndOfInterim
    <2> QED
      BY <1>7, <2>1 DEF EndOfInterim, flags, final
  <1>8. CASE EndOfHeaders
    BY <1>8 DEF EndOfHeaders, Decision, Bodyless, flags, final
  <1>9. CASE LengthBodyByte
    BY <1>9 DEF LengthBodyByte, flags, final
  <1>10. CASE UntilCloseByte
    BY <1>10 DEF UntilCloseByte, Fails, flags, final
  <1>11. ASSUME NEW n \in Lengths, ChunkSize(n) PROVE BodyInv'
    BY <1>11 DEF ChunkSize, Fails, flags, final
  <1>12. CASE ChunkByte
    BY <1>12 DEF ChunkByte, Fails, flags, final
  <1>13. CASE ChunkCrlf \/ BadChunk
    BY <1>13 DEF ChunkCrlf, BadChunk, Fails, flags, final
  <1>14. CASE TrailerLine \/ EndOfTrailer
    BY <1>14 DEF TrailerLine, EndOfTrailer, Fails, flags, final
  <1>15. CASE Eof \/ BufferLimit
    BY <1>15 DEF Eof, BufferLimit, Fails, flags, final
  <1>16. CASE UNCHANGED vars
    BY <1>16 DEF vars, flags, final
  <1> QED
    BY <1>1, <1>2, <1>3, <1>4, <1>5, <1>6, <1>7, <1>8, <1>9, <1>10, <1>11, <1>12, <1>13,
       <1>14, <1>15, <1>16 DEF Next, Finished

\* The parser never buffers more body than its budget, interim responses with
\* framing headers included.
THEOREM BodyAlwaysBounded == Spec => []BodyBounded
  <1>1. Spec => []BodyInv
    BY BodyInit, BodyStep, PTL DEF Spec
  <1> QED
    BY <1>1, PTL DEF BodyInv

-----------------------------------------------------------------------------
(* What a complete response is, when 1xx responses carry no framing        *)
(* headers.  A 1xx header block that has them leaves its flags behind for  *)
(* the final one, and the theorems below fail: run parser_interim.         *)

\* The flags that decide_framing and upstream_keep_alive go by are exactly what
\* the header block in hand has said so far.
FlagsAreFinal ==
  /\ sawCL <=> finalCL # -1
  /\ sawCL => length = finalCL /\ stored = finalCL
  /\ sawTE <=> finalTE
  /\ close <=> finalClose

\* A 1xx header block, and what is left of it before the next status line, has
\* said nothing.
NothingSaid ==
  state = "StatusLine" \/ interim => finalCL = -1 /\ ~finalTE /\ ~finalClose

\* The bytes so far and those of the chunk in hand are what chunks declared.
ChunksAddUp ==
  /\ state \in {"StatusLine", "Headers"} => declared = 0
  /\ state = "ChunkData" => chunk > 0 /\ body + chunk = declared
  /\ state \in {"ChunkSize", "ChunkDataCrlf", "Trailer"} => body = declared

\* After the header block the framing is the one it meant, and the state is one
\* of that framing's.
FramingIsMeant ==
  /\ state \in {"Body", "ChunkSize", "ChunkData", "ChunkDataCrlf", "Trailer", "Complete"} =>
       framing = MeantFraming /\ ~(finalTE /\ finalCL # -1)
  /\ state = "Body" => framing \in {"ContentLength", "UntilClose"}
  /\ state \in {"ChunkSize", "ChunkData", "ChunkDataCrlf", "Trailer"} => framing = "Chunked"

WholeInv == /\ declared \in Nat /\ FlagsAreFinal /\ NothingSaid /\ ChunksAddUp
            /\ FramingIsMeant /\ CompleteMeansWhole

\* Init establishes it.
LEMMA WholeInit == Init => WholeInv
  <1> SUFFICES ASSUME Init PROVE WholeInv
    OBVIOUS
  <1>1. ~interim /\ ~sawCL /\ ~sawTE /\ ~close /\ ~finalTE /\ ~finalClose
    BY Zenon DEF Init
  <1> QED
    BY <1>1 DEF Init, WholeInv, FlagsAreFinal, NothingSaid, ChunksAddUp, FramingIsMeant,
       CompleteMeansWhole

\* Every step preserves it, while framing headers come in final header blocks
\* only.
LEMMA WholeStep ==
  ASSUME InterimHeaders = FALSE, BodyInv, WholeInv, [Next]_vars
  PROVE  WholeInv'
  <1> USE ParserAssumption DEF BodyInv, Numbers, NoEarlyBody, LengthBody, WholeInv,
          FlagsAreFinal, NothingSaid, ChunksAddUp, FramingIsMeant, CompleteMeansWhole,
          MeantFraming, Bodyless
  <1>1. CASE BadStatusLine \/ BadHeaderLine \/ \E n \in Lengths : ContentLengthRefused(n)
    BY <1>1 DEF BadStatusLine, BadHeaderLine, ContentLengthRefused, Fails, flags, final
  <1>2. ASSUME NEW c \in Codes, InterimStatusLine(c) PROVE WholeInv'
    <2>1. ~sawCL' /\ ~sawTE' /\ ~close' /\ ~finalTE' /\ ~finalClose'
      BY <1>2, Zenon DEF InterimStatusLine
    <2> QED
      BY <1>2, <2>1 DEF InterimStatusLine, flags, final
  <1>3. ASSUME NEW c \in Codes, FinalStatusLine(c) PROVE WholeInv'
    <2>1. ~interim' /\ ~finalTE' /\ ~finalClose'
      BY <1>3, Zenon DEF FinalStatusLine
    <2> QED
      BY <1>3, <2>1 DEF FinalStatusLine, flags, final
  <1>4. CASE PlainHeader
    BY <1>4 DEF PlainHeader, HeaderLine, flags, final
  <1>5. ASSUME NEW n \in Lengths, ContentLength(n) PROVE WholeInv'
    <2>1. sawCL' /\ ~interim /\ ~interim'
      BY <1>5, Zenon DEF ContentLength, HeaderLine
    <2> QED
      BY <1>5, <2>1 DEF ContentLength, HeaderLine, AcceptableLength, flags, final
  <1>6. CASE TransferEncoding
    <2>1. sawTE' /\ finalTE' /\ ~interim /\ ~interim'
      BY <1>6, Zenon DEF TransferEncoding, HeaderLine
    <2> QED
      BY <1>6, <2>1 DEF TransferEncoding, HeaderLine, flags, final
  <1>7. CASE ConnectionClose
    <2>1. close' /\ finalClose' /\ ~interim /\ ~interim'
      BY <1>7, Zenon DEF ConnectionClose, HeaderLine
    <2> QED
      BY <1>7, <2>1 DEF ConnectionClose, HeaderLine, flags, final
  <1>8. CASE EndOfInterim
    <2>1. interim /\ ~interim'
      BY <1>8, Zenon DEF EndOfInterim
    <2> QED
      BY <1>8, <2>1 DEF EndOfInterim, flags, final
  <1>9. CASE EndOfHeaders
    BY <1>9 DEF EndOfHeaders, Decision, flags, final
  <1>10. CASE LengthBodyByte
    BY <1>10 DEF LengthBodyByte, flags, final
  <1>11. CASE UntilCloseByte
    BY <1>11 DEF UntilCloseByte, Fails, flags, final
  <1>12. ASSUME NEW n \in Lengths, ChunkSize(n) PROVE WholeInv'
    BY <1>12 DEF ChunkSize, Fails, flags, final
  <1>13. CASE ChunkByte
    BY <1>13 DEF ChunkByte, Fails, flags, final
  <1>14. CASE ChunkCrlf \/ BadChunk
    BY <1>14 DEF ChunkCrlf, BadChunk, Fails, flags, final
  <1>15. CASE TrailerLine \/ EndOfTrailer
    BY <1>15 DEF TrailerLine, EndOfTrailer, Fails, flags, final
  <1>16. CASE Eof \/ BufferLimit
    BY <1>16 DEF Eof, BufferLimit, Fails, flags, final
  <1>17. CASE UNCHANGED vars
    BY <1>17 DEF vars, flags, final
  <1> QED
    BY <1>1, <1>2, <1>3, <1>4, <1>5, <1>6, <1>7, <1>8, <1>9, <1>10, <1>11, <1>12, <1>13,
       <1>14, <1>15, <1>16, <1>17 DEF Next, Finished

\* The invariant holds always.
THEOREM WholeCorrect ==
  ASSUME InterimHeaders = FALSE
  PROVE  Spec => []WholeInv
  <1>1. Spec => []BodyInv
    BY BodyInit, BodyStep, PTL DEF Spec
  <1>2. BodyInv /\ WholeInv /\ [Next]_vars => WholeInv'
    BY WholeStep
  <1> QED
    BY <1>1, <1>2, WholeInit, PTL DEF Spec

\* A response is complete only with exactly the bytes its own header block
\* announced, by length, in chunks, or not at all.
THEOREM CompleteIsWhole ==
  ASSUME InterimHeaders = FALSE
  PROVE  Spec => []CompleteMeansWhole
  BY WholeCorrect, PTL DEF WholeInv

\* upstream_keep_alive: a connection goes back to the pool only after a response
\* that neither asked for a close nor ends with one.
THEOREM ReuseIsAlwaysAgreed ==
  ASSUME InterimHeaders = FALSE
  PROVE  Spec => []ReuseIsAgreed
  <1>1. WholeInv => ReuseIsAgreed
    BY DEF WholeInv, FlagsAreFinal, FramingIsMeant, ReuseIsAgreed, KeepAlive
  <1> QED
    BY <1>1, WholeCorrect, PTL
=============================================================================
