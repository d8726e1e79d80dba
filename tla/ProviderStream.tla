--------------------------- MODULE ProviderStream ---------------------------
(***************************************************************************)
(* One streamed completion: stream_chat of the three providers, the reader *)
(* task it spawns, the bounded channel and the consumer in handle_prompt.  *)
(*                                                                         *)
(* The provider's body is a sequence of lines that arrive in chunks; what  *)
(* a chunk boundary does to a line is LineBuffer's.  A line is what        *)
(* parse_line makes of it.  The readers of anthropic.rs, openai.rs and     *)
(* ollama.rs have the same control but for Ollama's last record.           *)
(***************************************************************************)
EXTENDS Integers, Sequences, FiniteSetsExt

CONSTANTS
  Capacity,       \* of the mpsc channel: 32 in the code
  MaxChunkLines,  \* bound: lines that one chunk completes
  MaxLines        \* bound: lines of the body

ASSUME ProviderAssumption ==
  Capacity \in Nat \ {0} /\ MaxChunkLines \in Nat /\ MaxLines \in Nat

VARIABLES
  kind,      \* the configured provider
  wire,      \* not program state: the lines that arrived; "end" closes the body
  pc,        \* of stream_chat and then of its reader task
  lines,     \* lines of the last chunk that the reader has not parsed yet
  events,    \* events of the last line that it has not sent yet
  channel,   \* sent and not received
  received,  \* not program state: what the consumer has taken
  listening  \* "open", "closed" or "dropped": the consumer's end

vars == <<kind, wire, pc, lines, events, channel, received, listening>>

Kinds == {"anthropic", "openai", "ollama"}

\* What a line is to parse_line: a delta, nothing, the end, a reported error;
\* and for Ollama a last delta together with the end.
LineKinds(k) == {"delta", "ignored", "done", "error"} \cup (IF k = "ollama" THEN {"delta_done"} ELSE {})

\* A delta is told apart by the number of its line.
Delta == [type: {"delta"}, line: 1..MaxLines + 1]
Done == [type |-> "done"]
Error == [type |-> "error"]
Terminal == {Done, Error}

Labels == {"request", "read", "parse", "finish", "ended"}

Init ==
  /\ kind \in Kinds
  /\ wire = <<>> /\ pc = "request" /\ lines = <<>> /\ events = <<>>
  /\ channel = <<>> /\ received = <<>> /\ listening = "open"

\* The events of line n of a server-sent event stream: at most one.
sse_events(line, n) ==
  CASE line = "delta" -> <<[type |-> "delta", line |-> n]>>
    [] line = "ignored" -> <<>>
    [] line = "done" -> <<Done>>
    [] line = "error" -> <<Error>>

\* The events of a line: a record of Ollama's may carry a delta and the end.
parse_line(line, n) ==
  IF line = "delta_done" THEN <<[type |-> "delta", line |-> n], Done>> ELSE sse_events(line, n)

-----------------------------------------------------------------------------
(* stream_chat                                                             *)

\* The request fails or its status is not a success: the consumer's only event
\* is the error, and no reader is spawned.
RequestFails ==
  /\ pc = "request"
  /\ pc' = "ended"
  /\ received' = <<Error>>
  /\ wire' = <<"end">>
  /\ UNCHANGED <<kind, lines, events, channel, listening>>

RequestSucceeds ==
  /\ pc = "request"
  /\ pc' = "read"
  /\ UNCHANGED <<kind, wire, lines, events, channel, received, listening>>

-----------------------------------------------------------------------------
(* The reader task.                                                        *)

\* bytes.next() returns a chunk, which completes some lines.
Chunk ==
  \E ls \in UNION {[1..n -> LineKinds(kind)] : n \in 0..MaxChunkLines} :
    /\ pc = "read" /\ Len(wire) + Len(ls) <= MaxLines
    /\ wire' = wire \o ls
    /\ lines' = [i \in DOMAIN ls |-> [text |-> ls[i], number |-> Len(wire) + i]]
    /\ pc' = "parse"
    /\ UNCHANGED <<kind, events, channel, received, listening>>

ParseLine ==
  /\ pc = "parse" /\ events = <<>>
  /\ IF lines = <<>>
     THEN pc' = "read" /\ UNCHANGED <<lines, events>>
     ELSE /\ events' = parse_line(Head(lines).text, Head(lines).number)
          /\ lines' = Tail(lines)
          /\ UNCHANGED pc
  /\ UNCHANGED <<kind, wire, channel, received, listening>>

\* Faulty: the end of the body is taken for the end of the answer.
FinalEventsClean(tail) == <<Done>>

\* What is sent when the body ended without a terminal event.  Only Ollama's
\* reader flushes an unterminated last line.
FinalEvents(tail) ==
  IF kind = "ollama" /\ tail # "none"
  THEN LET es == parse_line(tail, Len(wire) + 1) IN
       IF es # <<>> /\ es[Len(es)] \in Terminal THEN es ELSE Append(es, Error)
  ELSE <<Error>>

EndOfBody ==
  \E tail \in LineKinds(kind) \cup {"none"} :
    /\ pc = "read"
    /\ wire' = wire \o (IF kind = "ollama" /\ tail # "none" THEN <<tail, "end">> ELSE <<"end">>)
    /\ events' = FinalEvents(tail)
    /\ pc' = "finish"
    /\ UNCHANGED <<kind, lines, channel, received, listening>>

\* bytes.next() returns an error.
BodyFails ==
  /\ pc = "read"
  /\ wire' = Append(wire, "end")
  /\ events' = <<Error>>
  /\ pc' = "finish"
  /\ UNCHANGED <<kind, lines, channel, received, listening>>

\* Faulty: the terminal event is not forwarded.
SendDeltasOnly ==
  /\ pc \in {"parse", "finish"} /\ events # <<>>
  /\ listening = "open" /\ Len(channel) < Capacity
  /\ channel' = IF Head(events) \in Terminal THEN channel ELSE Append(channel, Head(events))
  /\ events' = Tail(events)
  /\ pc' = IF Head(events) \in Terminal THEN "ended" ELSE pc
  /\ UNCHANGED <<kind, wire, lines, received, listening>>

\* tx.send: waits for room, and a terminal event ends the task.
Send ==
  /\ pc \in {"parse", "finish"} /\ events # <<>>
  /\ listening = "open" /\ Len(channel) < Capacity
  /\ channel' = Append(channel, Head(events))
  /\ events' = Tail(events)
  /\ pc' = IF Head(events) \in Terminal THEN "ended" ELSE pc
  /\ UNCHANGED <<kind, wire, lines, received, listening>>

\* tx.send: the receiver is gone, and the task ends.
SendFails ==
  /\ pc \in {"parse", "finish"} /\ events # <<>>
  /\ listening # "open"
  /\ pc' = "ended"
  /\ UNCHANGED <<kind, wire, lines, events, channel, received, listening>>

-----------------------------------------------------------------------------
(* The consumer: handle_prompt.                                            *)

\* events.next() returns an event; after a terminal one it is not asked again.
Receive ==
  /\ listening = "open" /\ channel # <<>>
  /\ received' = Append(received, Head(channel))
  /\ channel' = Tail(channel)
  /\ UNCHANGED <<kind, wire, pc, lines, events, listening>>

\* events.next() returns None: the task is over and the channel empty.
ReceiveNone ==
  /\ listening = "open" /\ channel = <<>> /\ pc = "ended"
  /\ listening' = "closed"
  /\ UNCHANGED <<kind, wire, pc, lines, events, channel, received>>

\* handle_prompt returns, because the turn is over or a frame could not be sent.
DropReceiver ==
  /\ listening = "open" /\ pc # "request"
  /\ listening' = "dropped"
  /\ channel' = <<>>
  /\ UNCHANGED <<kind, wire, pc, lines, events, received>>

Reader == ParseLine \/ Send \/ SendFails
Consumer == Receive \/ ReceiveNone

Next ==
  \/ RequestFails \/ RequestSucceeds
  \/ Chunk \/ EndOfBody \/ BodyFails
  \/ Reader \/ Consumer \/ DropReceiver

Spec == Init /\ [][Next]_vars

\* Tokio runs the tasks; nothing is assumed of the provider's body.
FairSpec == Spec /\ WF_vars(Reader) /\ WF_vars(Consumer)

-----------------------------------------------------------------------------
(* Properties.                                                             *)

\* Types; in particular the channel stays within its capacity.
TypeOK ==
  /\ kind \in Kinds /\ pc \in Labels /\ listening \in {"open", "closed", "dropped"}
  /\ wire \in Seq(LineKinds("ollama") \cup {"end"})
  /\ lines \in Seq([text: LineKinds("ollama"), number: 1..MaxLines])
  /\ {events, channel, received} \subseteq Seq(Delta \cup Terminal)
  /\ Len(channel) <= Capacity

\* Reference: the events of all lines, cut after the first terminal one; a body
\* that ends before has an error for its terminal event.
EventsOf(line, n) == IF line = "end" THEN <<Error>> ELSE parse_line(line, n)
EventsIn(body, n) ==
  LET through[i \in 0..n] == IF i = 0 THEN <<>> ELSE through[i - 1] \o EventsOf(body[i], i) IN
  through[n]
UpToTerminal(all) ==
  LET ends == {i \in DOMAIN all : all[i] \in Terminal} IN
  IF ends = {} THEN all ELSE SubSeq(all, 1, Min(ends))
Expected == UpToTerminal(EventsIn(wire, Len(wire)))

Begins(s, t) == \E n \in 0..Len(t) : s = SubSeq(t, 1, n)

Concluded == received # <<>> /\ received[Len(received)] \in Terminal

\* Nothing is lost, invented or reordered between the provider's body and the
\* consumer, whatever the chunks and however slow the consumer is; and when the
\* reader has ended, the consumer has, or will find, the whole answer.  "Closed
\* without [DONE]: truncated response, surface an error": it hears Done only if
\* the provider said so.
StreamIsFaithful ==
  LET seen == received \o channel IN
  /\ listening # "dropped" => Begins(seen, Expected)
  /\ listening = "open" /\ pc = "ended" => seen = Expected

\* The three readers keep the promise of the trait.
Promise == INSTANCE EventStream WITH heard <- received, state <- listening
ImplementsEventStream == Promise!Spec

\* Liveness.  Once the provider's body has ended or said its last word, the
\* reader ends and a consumer that keeps listening hears a terminal event.
AnswerConcludes ==
  (\E i \in DOMAIN wire : wire[i] \in {"done", "delta_done", "error", "end"})
    ~> pc = "ended" /\ (Concluded \/ listening = "dropped")

-----------------------------------------------------------------------------
(* The inductive invariant.                                                *)

\* Only the last event of a sequence may be terminal.
TerminalIsLast(es) == \A i \in DOMAIN es : es[i] \in Terminal => i = Len(es)
EndsTerminal(es) == es # <<>> /\ es[Len(es)] \in Terminal

\* Inductive: a terminal event ends the line it comes from, the reader that sends
\* it and the stream that carries it, and a reader does not end without one
\* unless its consumer is gone.
ProviderInv ==
  /\ TypeOK
  /\ pc \in {"read", "parse"} => Len(wire) <= MaxLines
  /\ pc = "request" => wire = <<>> /\ events = <<>> /\ received = <<>> /\ channel = <<>> /\ listening = "open"
  /\ TerminalIsLast(events) /\ (pc = "finish" => EndsTerminal(events))
  /\ TerminalIsLast(channel) /\ (EndsTerminal(channel) => pc = "ended")
  /\ TerminalIsLast(received) /\ (EndsTerminal(received) => pc = "ended" /\ channel = <<>>)
  /\ listening = "open" /\ pc = "ended" => EndsTerminal(channel) \/ EndsTerminal(received)

\* Inductive, with ProviderInv: the reader holds the last lines that arrived and
\* has parsed the others; what it has and what it sent are the events of those,
\* as long as the body and the consumer are there, and then the answer.
FaithfulInv ==
  LET parsed == Len(wire) - Len(lines)
      seen == received \o channel IN
  /\ pc \in {"request", "read"} => lines = <<>> /\ events = <<>>
  /\ pc = "parse" => /\ parsed >= 0
                     /\ \A i \in DOMAIN lines : lines[i] = [text |-> wire[parsed + i], number |-> parsed + i]
  /\ listening = "closed" => pc = "ended"
  /\ listening # "dropped" =>
       /\ pc \in {"request", "read", "parse"} => seen \o events = EventsIn(wire, parsed)
       /\ pc = "finish" => seen \o events = Expected
       /\ pc = "ended" => seen = Expected
=============================================================================
