----------------------------- MODULE LineBuffer -----------------------------
(***************************************************************************)
(* The incremental line splitter of providers/sse.rs, fed with a byte      *)
(* stream in chunks of any size.  A byte is a line feed, a carriage return,*)
(* the first or the second byte of a wide character, or something else; a  *)
(* character of UTF-8 has one or two bytes here.  A call of push is Push,  *)
(* then a step for each line that its loop takes off the buffer, then      *)
(* PushReturns; nothing else can happen in between.                        *)
(***************************************************************************)
EXTENDS Integers, Sequences

CONSTANTS
  Other,           \* the other characters of one byte
  MAX_LINE_BYTES,  \* longest partial line that is kept
  MaxChunk,        \* bound: bytes in a chunk
  MaxInput         \* bound: bytes in the stream

ASSUME LineAssumption ==
  /\ {MAX_LINE_BYTES, MaxChunk, MaxInput} \subseteq Nat
  /\ {"CR", "LF", "lead", "trail", "wide", "within", "replacement"} \cap Other = {}

VARIABLES
  input,     \* not program state: the bytes pushed so far
  buffer,    \* LineBuffer.buffer
  draining,  \* push is in its loop
  returned,  \* not program state: the lines returned so far, the running push's included
  valve,     \* not program state: a partial line was dropped
  ended      \* flush was called

lineVars == <<input, buffer, draining, returned, valve, ended>>

Bytes == Other \cup {"CR", "LF", "lead", "trail"}
Characters == Other \cup {"CR", "LF", "wide", "within", "replacement"}

LineInit ==
  /\ input = <<>> /\ buffer = <<>> /\ returned = <<>>
  /\ draining = FALSE /\ valve = FALSE /\ ended = FALSE

\* A line without the carriage return of its end.
strip(line) ==
  IF line # <<>> /\ line[Len(line)] = "CR" THEN SubSeq(line, 1, Len(line) - 1) ELSE line

\* The text of bytes: every character at the place of its first byte, nothing
\* ("within") at that of its second, and a replacement for a byte that belongs to no
\* character.
from_utf8_lossy(bytes) ==
  [i \in DOMAIN bytes |->
     CASE bytes[i] = "lead" -> IF i < Len(bytes) /\ bytes[i + 1] = "trail" THEN "wide" ELSE "replacement"
       [] bytes[i] = "trail" -> IF i > 1 /\ bytes[i - 1] = "lead" THEN "within" ELSE "replacement"
       [] OTHER -> bytes[i]]

\* Faulty: every chunk is decoded when it arrives, so halves of a character are replaced.
extended_decoded(chunk) ==
  buffer \o [i \in DOMAIN chunk |->
               IF from_utf8_lossy(chunk)[i] = "replacement" THEN "replacement" ELSE chunk[i]]

extended(chunk) == buffer \o chunk

Push(chunk) ==
  /\ ~ended /\ ~draining /\ Len(input) + Len(chunk) <= MaxInput
  /\ input' = input \o chunk
  /\ buffer' = extended(chunk)
  /\ draining' = TRUE
  /\ UNCHANGED <<returned, valve, ended>>

\* The first line feed of the buffer.
position(pos) == buffer[pos] = "LF" /\ \A i \in 1..pos - 1 : buffer[i] # "LF"

\* An iteration of push's loop: it takes the first line off the buffer.
Drain ==
  \E pos \in DOMAIN buffer :
    /\ draining /\ position(pos)
    /\ returned' = Append(returned, from_utf8_lossy(strip(SubSeq(buffer, 1, pos - 1))))
    /\ buffer' = SubSeq(buffer, pos + 1, Len(buffer))
    /\ UNCHANGED <<input, draining, valve, ended>>

\* Faulty: a line of the very length that is allowed goes as well.
too_long_off_by_one(buf) == Len(buf) >= MAX_LINE_BYTES

too_long(buf) == Len(buf) > MAX_LINE_BYTES

\* The loop ends, and a partial line that is too long goes.
PushReturns ==
  /\ draining /\ \A i \in DOMAIN buffer : buffer[i] # "LF"
  /\ buffer' = IF too_long(buffer) THEN <<>> ELSE buffer
  /\ valve' = (valve \/ too_long(buffer))
  /\ draining' = FALSE
  /\ UNCHANGED <<input, returned, ended>>

\* At the end of the stream the rest is a line, unless it is empty.
Flush ==
  /\ ~ended /\ ~draining
  /\ returned' = IF strip(buffer) = <<>> THEN returned ELSE Append(returned, from_utf8_lossy(strip(buffer)))
  /\ buffer' = <<>>
  /\ ended' = TRUE
  /\ UNCHANGED <<input, draining, valve>>

LineNext ==
  \/ \E chunk \in UNION {[1..n -> Bytes] : n \in 0..MaxChunk} : Push(chunk)
  \/ Drain \/ PushReturns \/ Flush

LineSpec == LineInit /\ [][LineNext]_lineVars

-----------------------------------------------------------------------------
(* Properties.                                                             *)

\* Reference: the first n bytes, split byte by byte into lines and a rest.
WithByte(before, byte) ==
  IF byte = "LF" THEN [lines |-> Append(before.lines, before.rest), rest |-> <<>>]
  ELSE [lines |-> before.lines, rest |-> Append(before.rest, byte)]
Split(bytes, n) ==
  LET split[i \in 0..n] ==
        IF i = 0 THEN [lines |-> <<>>, rest |-> <<>>] ELSE WithByte(split[i - 1], bytes[i])
  IN split[n]
Whole == Split(input, Len(input))
Text(raw) == IF raw # <<>> /\ raw[Len(raw)] = "CR" THEN SubSeq(raw, 1, Len(raw) - 1) ELSE raw
Shown(raw) == from_utf8_lossy(Text(raw))

\* Where the provider's chunks begin and end does not show, be it within a line, an
\* ending or a character: as long as no partial line was dropped, push and flush
\* return the text of each line of the stream.
ChunkingIsInvisible ==
  ~draining /\ ~valve =>
    LET whole == [i \in DOMAIN Whole.lines |-> Shown(Whole.lines[i])] IN
    IF ended THEN returned = (IF Text(Whole.rest) = <<>> THEN whole ELSE Append(whole, Shown(Whole.rest)))
             ELSE returned = whole /\ buffer = Whole.rest

\* The valve bounds the buffer between two chunks and costs nobody else: every
\* line feed still ends one line and nothing else does but the end, a line within
\* the limit comes back whole, and of a longer one at most its head is missing,
\* whose cut may go through a character.
Unharmed(line, raw) ==
  /\ \E n \in 0..Len(Text(raw)) : line = from_utf8_lossy(SubSeq(Text(raw), n + 1, Len(Text(raw))))
  /\ Len(raw) <= MAX_LINE_BYTES => line = Shown(raw)
OnlyLongLinesSuffer ==
  ~draining =>
    /\ Len(buffer) <= MAX_LINE_BYTES
    /\ Len(returned) - Len(Whole.lines) \in (IF ended THEN 0..1 ELSE {0})
    /\ \A i \in DOMAIN Whole.lines : Unharmed(returned[i], Whole.lines[i])

-----------------------------------------------------------------------------
(* The inductive invariant.                                                *)

\* Inductive: the buffer holds the last bytes of the input, and the lines of those
\* before it were returned; what is left of them is the head of a line that was
\* too long, and nothing if the valve was never used.
LineInv ==
  LET gone == Split(input, Len(input) - Len(buffer)) IN
  /\ input \in Seq(Bytes) /\ buffer \in Seq(Bytes) /\ returned \in Seq(Seq(Characters))
  /\ draining \in BOOLEAN /\ valve \in BOOLEAN /\ ended \in BOOLEAN
  /\ Len(buffer) <= Len(input)
  /\ \A i \in DOMAIN buffer : buffer[i] = input[(Len(input) - Len(buffer)) + i]
  /\ ~draining => Len(buffer) <= MAX_LINE_BYTES /\ \A i \in DOMAIN buffer : buffer[i] # "LF"
  /\ ended => buffer = <<>> /\ ~draining
  /\ Len(returned) - Len(gone.lines) \in (IF ended THEN 0..1 ELSE {0})
  /\ ~ended => gone.rest = <<>> \/ (valve /\ Len(gone.rest) > MAX_LINE_BYTES)
  /\ \A i \in DOMAIN gone.lines :
       Unharmed(returned[i], gone.lines[i]) /\ (~valve => returned[i] = Shown(gone.lines[i]))
  /\ ended /\ ~valve =>
       IF Text(gone.rest) = <<>> THEN Len(returned) = Len(gone.lines)
       ELSE Len(returned) = Len(gone.lines) + 1 /\ returned[Len(returned)] = Shown(gone.rest)
=============================================================================
