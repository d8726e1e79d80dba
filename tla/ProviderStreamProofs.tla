------------------------ MODULE ProviderStreamProofs ------------------------
(***************************************************************************)
(* The readers of the three providers keep the promise of the trait, for   *)
(* every capacity of the channel, every body and every consumer; and the   *)
(* line splitter beneath them returns the provider's lines however its     *)
(* bytes are cut into chunks.                                              *)
(***************************************************************************)
EXTENDS ProviderStream, LineBuffer, SequenceTheorems, WellFoundedInduction, TLAPS

\* An event of a stream.
Event == Delta \cup Terminal

\* The lines of a body, and the lines a reader keeps.
Line == LineKinds("ollama") \cup {"end"}
Numbered == [text: LineKinds("ollama"), number: 1..MaxLines]

\* The operators on sequences, of whatever they are.
LEMMA Sequence ==
  ASSUME NEW S, NEW p \in Seq(S), NEW q \in Seq(S)
  PROVE  /\ p # <<>> => Head(p) \in S /\ Tail(p) \in Seq(S)
         /\ p \o q \in Seq(S) /\ Len(p \o q) = Len(p) + Len(q)
  OBVIOUS

\* A delta is no terminal event.
LEMMA DeltasGoOn == \A e \in Delta : e \notin Terminal
  BY DEF Delta, Terminal, Done, Error

\* parse_line yields events of which only the last may be terminal.
LEMMA LineEvents ==
  ASSUME NEW line \in LineKinds("ollama"), NEW n \in 1..MaxLines + 1
  PROVE  parse_line(line, n) \in Seq(Event) /\ TerminalIsLast(parse_line(line, n))
  <1> DEFINE d == [type |-> "delta", line |-> n]
  <1>1. d \in Delta /\ d \in Event /\ d \notin Terminal
    BY DeltasGoOn DEF Delta, Event
  <1>2. Done \in Event /\ Error \in Event
    BY DEF Event, Terminal
  <1> HIDE DEF d
  <1>3. line \in {"delta", "ignored", "done", "error", "delta_done"}
    BY DEF LineKinds
  <1>4. \/ parse_line(line, n) = <<>> \/ parse_line(line, n) = <<d>>
        \/ parse_line(line, n) = <<Done>> \/ parse_line(line, n) = <<Error>>
        \/ parse_line(line, n) = <<d, Done>>
    BY <1>3 DEF parse_line, sse_events, d
  <1>5. <<>> \in Seq(Event) /\ TerminalIsLast(<<>>)
    BY DEF TerminalIsLast
  <1>6. \A e \in Event : <<e>> \in Seq(Event) /\ TerminalIsLast(<<e>>)
    BY DEF TerminalIsLast
  <1>7. <<d, Done>> \in Seq(Event) /\ TerminalIsLast(<<d, Done>>)
    BY <1>1, <1>2 DEF TerminalIsLast
  <1> QED
    BY <1>1, <1>2, <1>4, <1>5, <1>6, <1>7, Zenon

\* Sending moves the first event; what is left still ends as it did.
LEMMA TailEnds ==
  ASSUME NEW es \in Seq(Event), es # <<>>, TerminalIsLast(es)
  PROVE  /\ Head(es) \in Event /\ Tail(es) \in Seq(Event) /\ TerminalIsLast(Tail(es))
         /\ EndsTerminal(es) /\ Head(es) \notin Terminal => EndsTerminal(Tail(es))
         /\ Head(es) \in Terminal => Tail(es) = <<>>
         /\ EndsTerminal(Tail(es)) => EndsTerminal(es)
  <1>1. Len(es) \in Nat \ {0} /\ Head(es) = es[1] /\ Head(es) \in Event
    OBVIOUS
  <1>2. Tail(es) \in Seq(Event) /\ Len(Tail(es)) = Len(es) - 1
    OBVIOUS
  <1>3. \A i \in 1..Len(es) - 1 : Tail(es)[i] = es[i + 1]
    OBVIOUS
  <1>4. TerminalIsLast(Tail(es))
    BY <1>1, <1>2, <1>3 DEF TerminalIsLast
  <1>5. Head(es) \in Terminal => Tail(es) = <<>>
    <2>1. 1 \in DOMAIN es
      BY <1>1
    <2>2. Head(es) \in Terminal => Len(es) = 1
      BY <1>1, <2>1, Zenon DEF TerminalIsLast
    <2> QED
      BY <2>2, <1>2
  <1>6. Len(es) > 1 => Tail(es)[Len(Tail(es))] = es[Len(es)] /\ Tail(es) # <<>>
    <2>1. Len(es) > 1 => Len(es) - 1 \in 1..Len(es) - 1 /\ Len(Tail(es)) # 0 /\ (Len(es) - 1) + 1 = Len(es)
      BY <1>1, <1>2
    <2>2. Len(es) > 1 => Tail(es)[Len(es) - 1] = es[Len(es)]
      BY <2>1, <1>3
    <2> QED
      BY <2>1, <2>2, <1>2
  <1>7. Tail(es) # <<>> => Len(es) > 1
    BY <1>1, <1>2
  <1> QED
    BY <1>1, <1>2, <1>4, <1>5, <1>6, <1>7 DEF EndsTerminal

\* An event is added to a stream that has not ended.
LEMMA AppendEnds ==
  ASSUME NEW es \in Seq(Event), TerminalIsLast(es), ~EndsTerminal(es), NEW e \in Event
  PROVE  /\ Append(es, e) \in Seq(Event) /\ TerminalIsLast(Append(es, e))
         /\ EndsTerminal(Append(es, e)) <=> e \in Terminal
  <1>1. \A i \in DOMAIN es : es[i] \notin Terminal
    BY DEF TerminalIsLast, EndsTerminal
  <1>2. Append(es, e) \in Seq(Event) /\ Len(Append(es, e)) = Len(es) + 1 /\ Append(es, e)[Len(es) + 1] = e
    OBVIOUS
  <1>3. \A i \in 1..Len(es) : Append(es, e)[i] = es[i]
    OBVIOUS
  <1> QED
    BY <1>1, <1>2, <1>3 DEF TerminalIsLast, EndsTerminal

\* What ProviderInv says of the streams, apart from types and bounds.
LEMMA Invariant ==
  ASSUME ProviderInv
  PROVE  /\ events \in Seq(Event) /\ channel \in Seq(Event) /\ received \in Seq(Event)
         /\ wire \in Seq(Line) /\ Len(wire) \in Nat
         /\ lines \in Seq(Numbered) /\ kind \in Kinds
  BY DEF ProviderInv, TypeOK, Event, Line, Numbered

\* A reader's lines are Ollama's, or a part of them.
LEMMA KindsOfLines == \A k \in Kinds : LineKinds(k) \subseteq LineKinds("ollama")
  BY DEF LineKinds, Kinds

\* What the reader sends when the body has ended closes the stream.
LEMMA FinalEventsEnd ==
  ASSUME ProviderInv, pc = "read", NEW tail \in LineKinds(kind) \cup {"none"}
  PROVE  /\ FinalEvents(tail) \in Seq(Event)
         /\ TerminalIsLast(FinalEvents(tail)) /\ EndsTerminal(FinalEvents(tail))
  <1>1. Error \in Event /\ Error \in Terminal
    BY DEF Event, Terminal
  <1>2. <<Error>> \in Seq(Event) /\ TerminalIsLast(<<Error>>) /\ EndsTerminal(<<Error>>)
    BY <1>1 DEF TerminalIsLast, EndsTerminal
  <1>3. CASE kind = "ollama" /\ tail # "none"
    <2> DEFINE es == parse_line(tail, Len(wire) + 1)
    <2>1. Len(wire) + 1 \in 1..MaxLines + 1
      BY Invariant, ProviderAssumption DEF ProviderInv
    <2>2. tail \in LineKinds("ollama")
      BY <1>3
    <2>3. es \in Seq(Event) /\ TerminalIsLast(es)
      BY <2>1, <2>2, LineEvents
    <2>4. FinalEvents(tail) = IF es # <<>> /\ es[Len(es)] \in Terminal THEN es ELSE Append(es, Error)
      BY <1>3 DEF FinalEvents
    <2> HIDE DEF es
    <2>5. FinalEvents(tail) = IF EndsTerminal(es) THEN es ELSE Append(es, Error)
      BY <2>4 DEF EndsTerminal
    <2> QED
      BY <2>3, <2>5, <1>1, AppendEnds
  <1>4. CASE ~(kind = "ollama" /\ tail # "none")
    BY <1>2, <1>4 DEF FinalEvents
  <1> QED
    BY <1>3, <1>4

-----------------------------------------------------------------------------
(* One lemma for each action.                                              *)

LEMMA RequestKeeps ==
  ASSUME ProviderInv, RequestFails \/ RequestSucceeds
  PROVE  ProviderInv'
  <1>1. Error \in Event /\ Error \in Terminal
    BY DEF Event, Terminal
  <1>2. <<Error>> \in Seq(Event) /\ TerminalIsLast(<<Error>>) /\ EndsTerminal(<<Error>>)
    BY <1>1 DEF TerminalIsLast, EndsTerminal
  <1>3. CASE RequestFails
    <2>1. <<"end">> \in Seq(Line)
      BY DEF Line
    <2>2. received' \in Seq(Event)
      BY <1>2, <1>3 DEF RequestFails
    <2>3. TypeOK'
      BY <1>3, <2>1, <2>2 DEF RequestFails, ProviderInv, TypeOK, Labels, Event, Line
    <2> QED
      BY <1>2, <1>3, <2>3 DEF RequestFails, ProviderInv
  <1>4. CASE RequestSucceeds
    <2>1. TypeOK' /\ Len(wire') <= MaxLines
      BY <1>4, ProviderAssumption DEF RequestSucceeds, ProviderInv, TypeOK, Labels
    <2> QED
      BY <1>4, <2>1 DEF RequestSucceeds, ProviderInv, EndsTerminal
  <1> QED
    BY <1>3, <1>4

LEMMA ChunkKeeps ==
  ASSUME ProviderInv, Chunk
  PROVE  ProviderInv'
  <1> PICK ls \in UNION {[1..n -> LineKinds(kind)] : n \in 0..MaxChunkLines} :
             /\ pc = "read" /\ Len(wire) + Len(ls) <= MaxLines
             /\ wire' = wire \o ls
             /\ lines' = [i \in DOMAIN ls |-> [text |-> ls[i], number |-> Len(wire) + i]]
             /\ pc' = "parse"
             /\ UNCHANGED <<kind, events, channel, received, listening>>
    BY DEF Chunk
  <1> PICK n \in 0..MaxChunkLines : ls \in [1..n -> LineKinds(kind)]
    OBVIOUS
  <1>1. n \in Nat /\ ls \in Seq(LineKinds("ollama")) /\ Len(ls) = n /\ DOMAIN ls = 1..n
    BY KindsOfLines, Invariant, ProviderAssumption
  <1>2. wire' \in Seq(Line) /\ Len(wire') = Len(wire) + n
    <2>1. ls \in Seq(Line)
      BY <1>1, KindsOfLines, Invariant DEF Line
    <2> QED
      BY <1>1, <2>1, Invariant, Sequence, Zenon
  <1>3. \A i \in 1..n : [text |-> ls[i], number |-> Len(wire) + i] \in Numbered
    BY <1>1, Invariant, ProviderAssumption DEF Numbered
  <1>4. lines' \in Seq(Numbered)
    BY <1>1, <1>3
  <1>5. TypeOK' /\ Len(wire') <= MaxLines
    BY <1>1, <1>2, <1>4 DEF ProviderInv, TypeOK, Labels, Line, Numbered
  <1> QED
    BY <1>5 DEF ProviderInv

LEMMA ParseLineKeeps ==
  ASSUME ProviderInv, ParseLine
  PROVE  ProviderInv'
  <1>1. CASE lines = <<>>
    <2>1. TypeOK'
      BY <1>1 DEF ParseLine, ProviderInv, TypeOK, Labels
    <2> QED
      BY <1>1, <2>1 DEF ParseLine, ProviderInv
  <1>2. CASE lines # <<>>
    <2>1. Head(lines).text \in LineKinds("ollama") /\ Head(lines).number \in 1..MaxLines
      <3>1. Head(lines) \in Numbered
        BY <1>2, Invariant, Sequence
      <3> QED
        BY <3>1 DEF Numbered
    <2>2. Head(lines).number \in 1..MaxLines + 1
      BY <2>1, ProviderAssumption
    <2>3. events' \in Seq(Event) /\ TerminalIsLast(events')
      BY <1>2, <2>1, <2>2, LineEvents DEF ParseLine
    <2>4. lines' \in Seq(Numbered)
      BY <1>2, Invariant, Sequence, Zenon DEF ParseLine
    <2>5. TypeOK'
      BY <1>2, <2>3, <2>4 DEF ParseLine, ProviderInv, TypeOK, Event, Numbered
    <2> QED
      BY <1>2, <2>3, <2>5 DEF ParseLine, ProviderInv
  <1> QED
    BY <1>1, <1>2

LEMMA EndKeeps ==
  ASSUME ProviderInv, EndOfBody \/ BodyFails
  PROVE  ProviderInv'
  <1>1. ASSUME NEW es \in Seq(Event), TerminalIsLast(es), EndsTerminal(es), events' = es,
               pc = "read", pc' = "finish", wire' \in Seq(Line),
               UNCHANGED <<kind, lines, channel, received, listening>>
        PROVE  ProviderInv'
    <2>1. TypeOK'
      BY <1>1 DEF ProviderInv, TypeOK, Labels, Event, Line
    <2> QED
      BY <1>1, <2>1 DEF ProviderInv
  <1>2. CASE BodyFails
    <2>1. <<Error>> \in Seq(Event) /\ TerminalIsLast(<<Error>>) /\ EndsTerminal(<<Error>>)
      BY DEF TerminalIsLast, EndsTerminal, Event, Terminal
    <2>2. Append(wire, "end") \in Seq(Line)
      BY Invariant DEF Line
    <2> QED
      BY SMTT(30), <1>1, <1>2, <2>1, <2>2 DEF BodyFails
  <1>3. CASE EndOfBody
    <2> PICK tail \in LineKinds(kind) \cup {"none"} :
               /\ pc = "read"
               /\ wire' = wire \o (IF kind = "ollama" /\ tail # "none" THEN <<tail, "end">> ELSE <<"end">>)
               /\ events' = FinalEvents(tail)
               /\ pc' = "finish"
               /\ UNCHANGED <<kind, lines, channel, received, listening>>
      BY <1>3, Zenon DEF EndOfBody
    <2>1. kind = "ollama" /\ tail # "none" => tail \in LineKinds("ollama")
      OBVIOUS
    <2>2. (IF kind = "ollama" /\ tail # "none" THEN <<tail, "end">> ELSE <<"end">>)
            \in Seq(Line)
      <3>1. <<"end">> \in Seq(Line)
        BY DEF Line
      <3>2. kind = "ollama" /\ tail # "none" => <<tail, "end">> \in Seq(Line)
        BY <2>1 DEF Line
      <3> QED
        BY <3>1, <3>2, Zenon
    <2>3. wire' \in Seq(Line)
      BY <2>2, Invariant, Sequence
    <2> QED
      BY <1>1, <2>3, FinalEventsEnd
  <1> QED
    BY <1>2, <1>3

LEMMA SendKeeps ==
  ASSUME ProviderInv, Send
  PROVE  ProviderInv'
  <1>1. /\ pc \in {"parse", "finish"} /\ events # <<>> /\ listening = "open" /\ Len(channel) < Capacity
        /\ channel' = Append(channel, Head(events)) /\ events' = Tail(events)
        /\ pc' = IF Head(events) \in Terminal THEN "ended" ELSE pc
        /\ UNCHANGED <<kind, wire, lines, received, listening>>
    BY DEF Send
  <1>2. /\ TerminalIsLast(events) /\ TerminalIsLast(channel) /\ TerminalIsLast(received)
        /\ ~EndsTerminal(channel) /\ ~EndsTerminal(received)
        /\ pc = "finish" => EndsTerminal(events)
    BY <1>1 DEF ProviderInv
  <1>3. /\ Head(events) \in Event /\ events' \in Seq(Event) /\ TerminalIsLast(events')
        /\ EndsTerminal(events) /\ Head(events) \notin Terminal => EndsTerminal(events')
    BY <1>1, <1>2, Invariant, TailEnds
  <1>4. /\ channel' \in Seq(Event) /\ TerminalIsLast(channel')
        /\ (EndsTerminal(channel') <=> Head(events) \in Terminal)
    BY <1>1, <1>2, <1>3, Invariant, AppendEnds
  <1>5. Len(channel') <= Capacity
    BY <1>1, <1>3, Invariant, ProviderAssumption
  <1>6. TypeOK'
    BY <1>1, <1>3, <1>4, <1>5 DEF ProviderInv, TypeOK, Labels, Event
  <1> QED
    BY <1>1, <1>2, <1>3, <1>4, <1>6 DEF ProviderInv

LEMMA SendFailsKeeps ==
  ASSUME ProviderInv, SendFails
  PROVE  ProviderInv'
  <1>1. TypeOK'
    BY DEF SendFails, ProviderInv, TypeOK, Labels
  <1> QED
    BY <1>1 DEF SendFails, ProviderInv

LEMMA ReceiveKeeps ==
  ASSUME ProviderInv, Receive
  PROVE  ProviderInv' /\ ~EndsTerminal(received)
  <1>1. /\ listening = "open" /\ channel # <<>>
        /\ received' = Append(received, Head(channel)) /\ channel' = Tail(channel)
        /\ UNCHANGED <<kind, wire, pc, lines, events, listening>>
    BY DEF Receive
  <1>2. /\ TerminalIsLast(channel) /\ TerminalIsLast(received) /\ ~EndsTerminal(received)
        /\ EndsTerminal(channel) => pc = "ended"
        /\ pc = "ended" => EndsTerminal(channel)
    BY <1>1 DEF ProviderInv
  <1>3. /\ Head(channel) \in Event /\ channel' \in Seq(Event) /\ TerminalIsLast(channel')
        /\ EndsTerminal(channel) /\ Head(channel) \notin Terminal => EndsTerminal(channel')
        /\ Head(channel) \in Terminal => channel' = <<>>
        /\ EndsTerminal(channel') => EndsTerminal(channel)
    BY <1>1, <1>2, Invariant, TailEnds
  <1>4. /\ received' \in Seq(Event) /\ TerminalIsLast(received')
        /\ (EndsTerminal(received') <=> Head(channel) \in Terminal)
    BY <1>1, <1>2, <1>3, Invariant, AppendEnds
  <1>5. Len(channel') <= Capacity
    BY <1>1, Invariant, ProviderAssumption DEF ProviderInv, TypeOK
  <1>6. Head(channel) \in Terminal => EndsTerminal(channel)
    BY <1>1, <1>2, Invariant DEF EndsTerminal, TerminalIsLast
  <1>7. TypeOK'
    BY <1>1, <1>3, <1>4, <1>5 DEF ProviderInv, TypeOK, Event
  <1> QED
    BY <1>1, <1>2, <1>3, <1>4, <1>6, <1>7 DEF ProviderInv

LEMMA StopKeeps ==
  ASSUME ProviderInv, ReceiveNone \/ DropReceiver
  PROVE  ProviderInv' /\ (ReceiveNone => EndsTerminal(received))
  <1>1. CASE ReceiveNone
    <2>1. TypeOK'
      BY <1>1 DEF ReceiveNone, ProviderInv, TypeOK
    <2> QED
      BY <1>1, <2>1 DEF ReceiveNone, ProviderInv, EndsTerminal
  <1>2. CASE DropReceiver
    <2>1. <<>> \in Seq(Event) /\ TerminalIsLast(<<>>) /\ ~EndsTerminal(<<>>)
      BY DEF TerminalIsLast, EndsTerminal
    <2>2. TypeOK'
      BY <1>2, <2>1, ProviderAssumption DEF DropReceiver, ProviderInv, TypeOK, Event
    <2>3. ~ReceiveNone
      BY <1>2 DEF DropReceiver, ReceiveNone
    <2> QED
      BY <1>2, <2>1, <2>2, <2>3 DEF DropReceiver, ProviderInv
  <1> QED
    BY <1>1, <1>2

-----------------------------------------------------------------------------
(* The theorems.                                                           *)

\* A terminal event of stream_chat is the last one and ends its reader, for any
\* capacity of the channel and any body, in any chunks.
THEOREM ProviderInvariant == Spec => []ProviderInv
  <1>1. Init => ProviderInv
    <2> SUFFICES ASSUME Init PROVE ProviderInv
      OBVIOUS
    <2>1. TypeOK
      BY ProviderAssumption DEF Init, TypeOK, Labels
    <2> QED
      BY <2>1 DEF Init, ProviderInv, TerminalIsLast, EndsTerminal
  <1>2. ProviderInv /\ [Next]_vars => ProviderInv'
    <2> SUFFICES ASSUME ProviderInv, [Next]_vars PROVE ProviderInv'
      OBVIOUS
    <2>1. CASE UNCHANGED vars
      BY <2>1 DEF vars, ProviderInv, TypeOK
    <2>2. CASE Next
      BY <2>2, RequestKeeps, ChunkKeeps, ParseLineKeeps, EndKeeps, SendKeeps, SendFailsKeeps, ReceiveKeeps,
         StopKeeps DEF Next, Reader, Consumer
    <2> QED
      BY <2>1, <2>2
  <1> QED
    BY <1>1, <1>2, PTL DEF Spec

\* The readers of anthropic.rs, openai.rs and ollama.rs implement the promise of
\* ChatProvider: deltas, then one terminal event, and only then the end.
THEOREM PromiseIsKept == Spec => ImplementsEventStream
  <1>1. Init => Promise!Init
    BY DEF Init, Promise!Init
  <1>2. ProviderInv /\ [Next]_vars => [Promise!Next]_(Promise!vars)
    <2> SUFFICES ASSUME ProviderInv, [Next]_vars, ~(UNCHANGED <<received, listening>>)
                 PROVE  Promise!Next
      BY DEF Promise!vars
    <2>1. CASE RequestFails
      BY <2>1 DEF RequestFails, ProviderInv, Promise!Next, Promise!Hear, Promise!Concluded, Terminal
    <2>2. CASE Receive
      <3>1. Head(channel) \in Delta \cup Terminal
        BY <2>2, Invariant, Sequence DEF Receive, Event
      <3> QED
        BY <2>2, <3>1, ReceiveKeeps DEF Receive, Promise!Next, Promise!Hear, Promise!Concluded, EndsTerminal
    <2>3. CASE ReceiveNone
      BY <2>3, StopKeeps DEF ReceiveNone, Promise!Next, Promise!End, Promise!Concluded, EndsTerminal
    <2>4. CASE DropReceiver
      BY <2>4 DEF DropReceiver, Promise!Next, Promise!Drop
    <2> QED
      BY <2>1, <2>2, <2>3, <2>4 DEF Next, Reader, Consumer, vars, RequestSucceeds, Chunk, EndOfBody,
         BodyFails, ParseLine, Send, SendFails
  <1> QED
    BY <1>1, <1>2, ProviderInvariant, PTL DEF Spec, ImplementsEventStream, Promise!Spec

-----------------------------------------------------------------------------
(* Induction over a set of naturals, and EventsIn line by line.            *)

\* A nonempty set of natural numbers has a least one.
LEMMA Least ==
  ASSUME NEW T, T \subseteq Nat, T # {}
  PROVE  \E x \in T : \A y \in T : x <= y
  <1> DEFINE Below == {ss \in Nat \X Nat : ss[1] < ss[2]}
  <1>1. IsWellFoundedOn(Below, Nat)
    BY NatLessThanWellFounded DEF OpToRel
  <1> HIDE DEF Below
  <1>2. PICK x \in T : \A y \in T : ~(<<y, x>> \in Below)
    BY <1>1, WFMin, Zenon
  <1>3. \A y \in T : x <= y
    <2> SUFFICES ASSUME NEW y \in T PROVE x <= y
      OBVIOUS
    <2>1. x \in Nat /\ y \in Nat
      OBVIOUS
    <2>2. y < x => <<y, x>> \in Below
      BY <2>1 DEF Below
    <2> QED BY <1>2, <2>1, <2>2
  <1> QED BY <1>3

\* Induction over the naturals, for a set.
LEMMA SetInduction ==
  ASSUME NEW T, 0 \in T, \A n \in Nat : n \in T => n + 1 \in T
  PROVE  Nat \subseteq T
  <1> SUFFICES ASSUME Nat \ T # {} PROVE FALSE
    OBVIOUS
  <1>1. PICK x \in Nat \ T : \A y \in Nat \ T : x <= y
    BY Least, Zenon
  <1>2. x # 0 /\ x - 1 \in Nat
    BY <1>1
  <1>3. x - 1 \in T
    BY <1>1, <1>2
  <1> QED BY <1>2, <1>3

\* The function that EventsIn defines recursively, for the first n lines.
Through(f, w, n) == f = [i \in 0..n |-> IF i = 0 THEN <<>> ELSE f[i - 1] \o EventsOf(w[i], i)]

\* Its values.
LEMMA ThroughAt ==
  ASSUME NEW f, NEW w, NEW n, Through(f, w, n)
  PROVE  DOMAIN f = 0..n /\ \A i \in 0..n : f[i] = IF i = 0 THEN <<>> ELSE f[i - 1] \o EventsOf(w[i], i)
  <1> DEFINE h(i) == IF i = 0 THEN <<>> ELSE f[i - 1] \o EventsOf(w[i], i)
  <1>1. f = [i \in 0..n |-> h(i)]
    BY Zenon DEF Through
  <1> HIDE DEF h
  <1>2. DOMAIN f = 0..n /\ \A i \in 0..n : f[i] = h(i)
    BY <1>1
  <1> QED
    BY <1>2, Zenon DEF h

\* There is such a function for every n ...
LEMMA ThroughExists ==
  ASSUME NEW w, NEW m \in Nat
  PROVE  \E f : Through(f, w, m)
  <1> DEFINE T == {n \in Nat : \E f : Through(f, w, n)}
  <1>1. 0 \in T
    <2>1. Through([i \in 0..0 |-> <<>>], w, 0)
      BY DEF Through
    <2> QED
      BY <2>1
  <1>2. ASSUME NEW n \in Nat, n \in T PROVE n + 1 \in T
    <2>1. PICK f : Through(f, w, n)
      BY <1>2
    <2> DEFINE g == [i \in 0..(n + 1) |-> IF i <= n THEN f[i] ELSE f[i - 1] \o EventsOf(w[i], i)]
    <2>2. ASSUME NEW i \in 0..(n + 1)
          PROVE  g[i] = IF i = 0 THEN <<>> ELSE g[i - 1] \o EventsOf(w[i], i)
      <3>1. g[i] = (IF i <= n THEN f[i] ELSE f[i - 1] \o EventsOf(w[i], i)) /\ (i = 0 => i <= n)
        OBVIOUS
      <3>2. i # 0 => g[i - 1] = f[i - 1]
        OBVIOUS
      <3> HIDE DEF g
      <3>3. i <= n => i \in 0..n
        OBVIOUS
      <3>4. i <= n => f[i] = IF i = 0 THEN <<>> ELSE f[i - 1] \o EventsOf(w[i], i)
        <4>1. \A j \in 0..n : f[j] = IF j = 0 THEN <<>> ELSE f[j - 1] \o EventsOf(w[j], j)
          BY <2>1, ThroughAt
        <4> QED
          BY <3>3, <4>1, Zenon
      <3> QED
        BY <3>1, <3>2, <3>4, Zenon
    <2>3. g = [i \in 0..(n + 1) |-> g[i]] /\ n + 1 \in Nat
      OBVIOUS
    <2> HIDE DEF g
    <2>4. Through(g, w, n + 1)
      BY <2>2, <2>3, Zenon DEF Through
    <2> QED
      BY <2>3, <2>4
  <1> HIDE DEF T
  <1>3. m \in T
    BY <1>1, <1>2, SetInduction
  <1> QED
    BY <1>3 DEF T

\* The first n lines are the same.
Alike(w, v, n) == \A i \in 1..n : w[i] = v[i]

\* ... and no other; its first values depend on the first lines only.
LEMMA ThroughUnique ==
  ASSUME NEW w, NEW v, NEW n \in Nat, NEW m \in Nat, n <= m, NEW f, NEW g, Through(f, w, n), Through(g, v, m),
         Alike(w, v, n)
  PROVE  f[n] = g[n]
  <1> DEFINE T == {i \in Nat : i <= n => f[i] = g[i]}
  <1>1. /\ \A i \in 0..n : f[i] = IF i = 0 THEN <<>> ELSE f[i - 1] \o EventsOf(w[i], i)
        /\ \A i \in 0..m : g[i] = IF i = 0 THEN <<>> ELSE g[i - 1] \o EventsOf(v[i], i)
    <2>1. \A i \in 0..n : f[i] = IF i = 0 THEN <<>> ELSE f[i - 1] \o EventsOf(w[i], i)
      BY ThroughAt
    <2>2. \A i \in 0..m : g[i] = IF i = 0 THEN <<>> ELSE g[i - 1] \o EventsOf(v[i], i)
      BY ThroughAt
    <2> QED
      BY <2>1, <2>2, Zenon
  <1>2. 0 \in T
    <2>1. 0 \in 0..n /\ 0 \in 0..m
      OBVIOUS
    <2> QED
      BY <1>1, <2>1
  <1>3. ASSUME NEW i \in Nat, i \in T PROVE i + 1 \in T
    <2> SUFFICES ASSUME i + 1 <= n PROVE f[i + 1] = g[i + 1]
      OBVIOUS
    <2>1. f[i] = g[i]
      BY <1>3
    <2>2. PICK k \in 1..n : k = i + 1 /\ k # 0 /\ k - 1 = i /\ k \in 0..n /\ k \in 0..m
      OBVIOUS
    <2>3. f[k] = f[k - 1] \o EventsOf(w[k], k) /\ g[k] = g[k - 1] \o EventsOf(v[k], k) /\ w[k] = v[k]
      BY <1>1, <2>2, Zenon DEF Alike
    <2> QED
      BY <2>1, <2>2, <2>3, Zenon
  <1> HIDE DEF T
  <1>4. n \in T
    BY <1>2, <1>3, SetInduction
  <1> QED
    BY <1>4 DEF T

\* What EventsIn returns.
LEMMA EventsAre ==
  ASSUME NEW w, NEW n \in Nat
  PROVE  \E f : Through(f, w, n) /\ EventsIn(w, n) = f[n]
  <1> DEFINE c == CHOOSE f : Through(f, w, n)
  <1>1. \E f : Through(f, w, n)
    BY ThroughExists
  <1>2. Through(c, w, n)
    <2> HIDE DEF Through
    <2> QED
      BY <1>1
  <1>3. EventsIn(w, n) = c[n]
    BY DEF EventsIn, Through
  <1> QED
    BY <1>2, <1>3, Zenon

\* Only the lines count.
LEMMA EventsAlike ==
  ASSUME NEW w, NEW v, NEW n \in Nat, Alike(w, v, n)
  PROVE  EventsIn(w, n) = EventsIn(v, n)
  <1>1. PICK f : Through(f, w, n) /\ EventsIn(w, n) = f[n]
    BY EventsAre
  <1>2. PICK g : Through(g, v, n) /\ EventsIn(v, n) = g[n]
    BY EventsAre
  <1>3. n <= n
    OBVIOUS
  <1> QED
    BY <1>1, <1>2, <1>3, ThroughUnique

\* One line more.
LEMMA EventsStep ==
  ASSUME NEW w, NEW n \in Nat
  PROVE  EventsIn(w, 0) = <<>> /\ EventsIn(w, n + 1) = EventsIn(w, n) \o EventsOf(w[n + 1], n + 1)
  <1>1. PICK z : Through(z, w, 0) /\ EventsIn(w, 0) = z[0]
    BY EventsAre
  <1>2. PICK f : Through(f, w, n) /\ EventsIn(w, n) = f[n]
    BY EventsAre
  <1>3. PICK k \in Nat : k = n + 1 /\ n <= k /\ k # 0 /\ k - 1 = n /\ k \in 0..k /\ 0 \in 0..0
    OBVIOUS
  <1>4. PICK g : Through(g, w, k) /\ EventsIn(w, k) = g[k]
    BY EventsAre
  <1>5. z[0] = <<>> /\ g[k] = g[k - 1] \o EventsOf(w[k], k)
    <2>1. \A j \in 0..0 : z[j] = IF j = 0 THEN <<>> ELSE z[j - 1] \o EventsOf(w[j], j)
      BY <1>1, ThroughAt
    <2>2. \A j \in 0..k : g[j] = IF j = 0 THEN <<>> ELSE g[j - 1] \o EventsOf(w[j], j)
      BY <1>4, ThroughAt
    <2> QED
      BY <1>3, <2>1, <2>2, Zenon
  <1>6. f[n] = g[n]
    <2>1. Alike(w, w, n)
      BY DEF Alike
    <2> QED
      BY <1>2, <1>3, <1>4, <2>1, ThroughUnique
  <1> QED
    BY <1>1, <1>2, <1>3, <1>4, <1>5, <1>6, Zenon

-----------------------------------------------------------------------------
(* The events of a body, line by line, and where the answer is cut.        *)

\* An event of any line.
AnyEvent == [type: {"delta"}, line: Nat] \cup Terminal

\* t goes on where s ends.
Continues(t, s) == Len(s) <= Len(t) /\ \A i \in 1..Len(s) : s[i] = t[i]

\* The events of a line, or of the end.
LEMMA AnyLine ==
  ASSUME NEW line \in Line, NEW n \in Nat
  PROVE  EventsOf(line, n) \in Seq(AnyEvent)
  <1> DEFINE d == [type |-> "delta", line |-> n]
  <1>1. d \in AnyEvent /\ Done \in AnyEvent /\ Error \in AnyEvent
    BY DEF AnyEvent, Terminal
  <1> HIDE DEF d
  <1>2. line \in {"delta", "ignored", "done", "error", "delta_done", "end"}
    BY DEF LineKinds, Line
  <1>3. \/ EventsOf(line, n) = <<>> \/ EventsOf(line, n) = <<d>>
        \/ EventsOf(line, n) = <<Done>> \/ EventsOf(line, n) = <<Error>>
        \/ EventsOf(line, n) = <<d, Done>>
    BY <1>2 DEF EventsOf, parse_line, sse_events, d
  <1>4. <<>> \in Seq(AnyEvent) /\ (\A e \in AnyEvent : <<e>> \in Seq(AnyEvent)) /\ <<d, Done>> \in Seq(AnyEvent)
    BY <1>1
  <1> QED BY <1>1, <1>3, <1>4, Zenon

\* Line by line.
LEMMA EventsMore ==
  ASSUME NEW w \in Seq(Line)
  PROVE  /\ EventsIn(w, 0) = <<>>
         /\ \A n \in 0..Len(w) : EventsIn(w, n) \in Seq(AnyEvent)
         /\ \A n \in 0..Len(w) - 1 : EventsIn(w, n + 1) = EventsIn(w, n) \o EventsOf(w[n + 1], n + 1)
  <1> DEFINE T == {n \in Nat : n <= Len(w) => EventsIn(w, n) \in Seq(AnyEvent)}
  <1>2. EventsIn(w, 0) = <<>>
    BY EventsStep
  <1>3. ASSUME NEW n \in Nat, n + 1 <= Len(w)
        PROVE  EventsIn(w, n + 1) = EventsIn(w, n) \o EventsOf(w[n + 1], n + 1)
    BY EventsStep, Zenon
  <1>4. 0 \in T
    <2>1. <<>> \in Seq(AnyEvent)
      OBVIOUS
    <2> QED BY <1>2, <2>1, Zenon
  <1>5. ASSUME NEW n \in Nat, n \in T PROVE n + 1 \in T
    <2> SUFFICES ASSUME n + 1 <= Len(w) PROVE EventsIn(w, n + 1) \in Seq(AnyEvent)
      OBVIOUS
    <2>1. EventsIn(w, n) \in Seq(AnyEvent)
      BY <1>5
    <2>2. EventsOf(w[n + 1], n + 1) \in Seq(AnyEvent)
      BY AnyLine
    <2> QED BY <1>3, <2>1, <2>2, ConcatProperties, Zenon
  <1> HIDE DEF T
  <1>6. Nat \subseteq T
    BY <1>4, <1>5, SetInduction
  <1>7. \A n \in 0..Len(w) : EventsIn(w, n) \in Seq(AnyEvent)
    BY <1>6 DEF T
  <1> QED BY <1>2, <1>3, <1>7

\* The events of more lines go on where those of fewer end.
LEMMA EventsGrow ==
  ASSUME NEW w \in Seq(Line), NEW m \in 0..Len(w)
  PROVE  \E rest \in Seq(AnyEvent) : EventsIn(w, Len(w)) = EventsIn(w, m) \o rest
  <1> DEFINE T == {k \in Nat : m + k <= Len(w) => \E rest \in Seq(AnyEvent) : EventsIn(w, m + k) = EventsIn(w, m) \o rest}
  <1>1. 0 \in T
    <2>1. EventsIn(w, m) = EventsIn(w, m) \o <<>> /\ <<>> \in Seq(AnyEvent) /\ m + 0 = m
      BY EventsMore, ConcatEmptySeq
    <2> QED BY <2>1, Zenon
  <1>2. ASSUME NEW k \in Nat, k \in T PROVE k + 1 \in T
    <2> SUFFICES ASSUME m + (k + 1) <= Len(w)
                 PROVE  \E rest \in Seq(AnyEvent) : EventsIn(w, m + (k + 1)) = EventsIn(w, m) \o rest
      OBVIOUS
    <2>1. PICK rest \in Seq(AnyEvent) : EventsIn(w, m + k) = EventsIn(w, m) \o rest
      BY <1>2
    <2>2. PICK n \in 0..Len(w) - 1 : n = m + k /\ n + 1 = m + (k + 1)
      OBVIOUS
    <2>3. EventsIn(w, n + 1) = EventsIn(w, n) \o EventsOf(w[n + 1], n + 1)
      BY EventsMore
    <2>4. EventsOf(w[n + 1], n + 1) \in Seq(AnyEvent) /\ EventsIn(w, m) \in Seq(AnyEvent)
      <3>1. w[n + 1] \in Line /\ n + 1 \in Nat
        OBVIOUS
      <3> QED BY <3>1, AnyLine, EventsMore, Zenon
    <2> DEFINE more == EventsOf(w[n + 1], n + 1)
    <2>5. (EventsIn(w, m) \o rest) \o more = EventsIn(w, m) \o (rest \o more) /\ rest \o more \in Seq(AnyEvent)
      <3>1. more \in Seq(AnyEvent) /\ EventsIn(w, m) \in Seq(AnyEvent)
        BY <2>4
      <3> HIDE DEF more
      <3>2. rest \o more \in Seq(AnyEvent)
        BY <3>1, ConcatProperties
      <3>3. (EventsIn(w, m) \o rest) \o more = EventsIn(w, m) \o (rest \o more)
        <4>1. rest \in Seq(AnyEvent)
          OBVIOUS
        <4> QED BY ONLY <3>1, <4>1, ConcatAssociative
      <3> QED BY <3>2, <3>3
    <2> HIDE DEF more
    <2>6. EventsIn(w, m + (k + 1)) = EventsIn(w, m) \o (rest \o more)
      BY <2>1, <2>2, <2>3, <2>5, Zenon DEF more
    <2> QED BY <2>5, <2>6, Zenon
  <1> HIDE DEF T
  <1>3. Len(w) - m \in T /\ m + (Len(w) - m) = Len(w)
    BY <1>1, <1>2, SetInduction
  <1> QED BY <1>3 DEF T

\* Lines that arrive later do not change the events of the first ones.
LEMMA EventsStay ==
  ASSUME NEW w \in Seq(Line), NEW v \in Seq(Line)
  PROVE  EventsIn(w \o v, Len(w)) = EventsIn(w, Len(w))
  <1>1. \A i \in 1..Len(w) : (w \o v)[i] = w[i]
    OBVIOUS
  <1>2. Len(w) \in Nat
    OBVIOUS
  <1> QED
    BY <1>1, <1>2, EventsAlike, Zenon DEF Alike

\* A sequence that begins with another.
LEMMA PrefixIs ==
  ASSUME NEW S, NEW a \in Seq(S), NEW t \in Seq(S), Continues(t, a)
  PROVE  Begins(a, t)
  <1>1. Len(a) \in Nat /\ Len(t) \in Nat /\ Len(a) <= Len(t) /\ \A i \in 1..Len(a) : t[i] = a[i]
    BY DEF Continues
  <1>2. SubSeq(t, 1, Len(a)) \in Seq(S) /\ Len(SubSeq(t, 1, Len(a))) = Len(a)
        /\ \A i \in 1..Len(a) : SubSeq(t, 1, Len(a))[i] = t[i]
    BY <1>1
  <1>3. SubSeq(t, 1, Len(a)) = a
    BY <1>1, <1>2, SeqEqual
  <1>4. Len(a) \in 0..Len(t)
    BY <1>1
  <1> QED BY <1>3, <1>4, Zenon DEF Begins

\* UpToTerminal keeps what comes before the first terminal event ...
LEMMA CutAfter ==
  ASSUME NEW a \in Seq(AnyEvent), NEW rest \in Seq(AnyEvent), \A i \in DOMAIN a : a[i] \notin Terminal
  PROVE  Begins(a, UpToTerminal(a \o rest))
  <1> DEFINE all == a \o rest
             ends == {i \in DOMAIN all : all[i] \in Terminal}
  <1>1. /\ all \in Seq(AnyEvent) /\ Len(all) = Len(a) + Len(rest) /\ Len(all) \in Nat /\ Len(a) \in Nat
        /\ Len(rest) \in Nat /\ \A i \in 1..Len(a) : all[i] = a[i]
    OBVIOUS
  <1> HIDE DEF all
  <1>3. CASE ends = {}
    <2>1. UpToTerminal(all) = all /\ Continues(all, a)
      BY <1>1, <1>3 DEF UpToTerminal, Continues
    <2>2. Begins(a, all)
      BY <1>1, <2>1, PrefixIs
    <2> QED BY <2>1, <2>2 DEF all
  <1>4. CASE ends # {}
    <2>1. ends \subseteq Nat /\ \A i \in ends : i \in 1..Len(all) /\ i > Len(a)
      BY <1>1
    <2>2. \E x \in ends : \A y \in ends : x <= y
      <3> HIDE DEF ends
      <3> QED BY <1>4, <2>1, Least, Zenon
    <2>3. Min(ends) \in ends
      <3> HIDE DEF ends
      <3> QED BY <2>2 DEF Min
    <2>4. UpToTerminal(all) = SubSeq(all, 1, Min(ends))
      BY <1>4, Zenon DEF UpToTerminal
    <2> DEFINE m == Min(ends)
    <2>5. m \in 1..Len(all) /\ m > Len(a)
      BY <2>1, <2>3
    <2> HIDE DEF m, ends
    <2>6. /\ SubSeq(all, 1, m) \in Seq(AnyEvent) /\ Len(SubSeq(all, 1, m)) = m
          /\ \A i \in 1..m : SubSeq(all, 1, m)[i] = all[i]
      BY <1>1, <2>5
    <2>7. Begins(a, SubSeq(all, 1, m))
      <3>1. Continues(SubSeq(all, 1, m), a)
        BY <1>1, <2>5, <2>6 DEF Continues
      <3> QED BY <2>6, <3>1, PrefixIs, Zenon
    <2> QED BY <2>4, <2>7 DEF m, all
  <1> QED BY <1>3, <1>4

\* ... and ends with that.
LEMMA CutHere ==
  ASSUME NEW a \in Seq(AnyEvent), NEW rest \in Seq(AnyEvent), EndsTerminal(a), TerminalIsLast(a)
  PROVE  UpToTerminal(a \o rest) = a
  <1> DEFINE all == a \o rest
             ends == {i \in DOMAIN all : all[i] \in Terminal}
  <1>1. /\ all \in Seq(AnyEvent) /\ Len(all) = Len(a) + Len(rest) /\ Len(all) \in Nat /\ Len(a) \in Nat \ {0}
        /\ Len(rest) \in Nat /\ \A i \in 1..Len(a) : all[i] = a[i]
    BY DEF EndsTerminal
  <1> HIDE DEF all
  <1>2. Len(a) \in ends /\ \A i \in ends : i \in Nat /\ Len(a) <= i
    BY <1>1 DEF EndsTerminal, TerminalIsLast
  <1>3. UpToTerminal(all) = SubSeq(all, 1, Min(ends))
    BY <1>2, Zenon DEF UpToTerminal
  <1>4. Min(ends) = Len(a)
    <2> HIDE DEF ends
    <2>1. Min(ends) \in ends /\ Min(ends) <= Len(a)
      BY <1>2 DEF Min
    <2> QED BY <1>1, <1>2, <2>1
  <1> HIDE DEF ends
  <1>5. /\ SubSeq(all, 1, Len(a)) \in Seq(AnyEvent) /\ Len(SubSeq(all, 1, Len(a))) = Len(a)
        /\ \A i \in 1..Len(a) : SubSeq(all, 1, Len(a))[i] = a[i]
    BY <1>1
  <1>6. SubSeq(all, 1, Len(a)) = a
    BY <1>5, SeqEqual
  <1> QED BY <1>3, <1>4, <1>6 DEF all

-----------------------------------------------------------------------------
(* The stream is faithful: what the reader sent and still holds.           *)

\* No event of the sequence is terminal.
Silent(es) == \A i \in DOMAIN es : es[i] \notin Terminal

\* What comes after silence decides how the whole ends.
LEMMA SilentThen ==
  ASSUME NEW a \in Seq(AnyEvent), NEW b \in Seq(AnyEvent), Silent(a)
  PROVE  /\ a \o b \in Seq(AnyEvent)
         /\ Silent(b) => Silent(a \o b)
         /\ TerminalIsLast(b) /\ EndsTerminal(b) => TerminalIsLast(a \o b) /\ EndsTerminal(a \o b)
  <1>1. /\ a \o b \in Seq(AnyEvent) /\ Len(a \o b) = Len(a) + Len(b) /\ Len(a) \in Nat /\ Len(b) \in Nat
        /\ \A i \in 1..Len(a) : (a \o b)[i] = a[i]
        /\ \A i \in 1..Len(a) + Len(b) : i > Len(a) => (a \o b)[i] = b[i - Len(a)]
    OBVIOUS
  <1> DEFINE c == a \o b
  <1>2. DOMAIN c = 1..Len(a) + Len(b) /\ DOMAIN a = 1..Len(a) /\ DOMAIN b = 1..Len(b)
    BY <1>1
  <1>3. \A i \in 1..Len(a) + Len(b) : i > Len(a) => i - Len(a) \in 1..Len(b)
    BY <1>1
  <1>4. Silent(b) => Silent(c)
    BY <1>1, <1>2, <1>3 DEF Silent
  <1>5. TerminalIsLast(b) => TerminalIsLast(c)
    BY <1>1, <1>2, <1>3 DEF TerminalIsLast, Silent
  <1>6. EndsTerminal(b) => EndsTerminal(c)
    BY <1>1 DEF EndsTerminal
  <1> QED BY <1>1, <1>4, <1>5, <1>6

\* An event moves from the reader to the channel, from the channel to the consumer.
LEMMA Moved ==
  ASSUME NEW r \in Seq(AnyEvent), NEW c \in Seq(AnyEvent), NEW e \in Seq(AnyEvent)
  PROVE  /\ e # <<>> => (r \o Append(c, Head(e))) \o Tail(e) = (r \o c) \o e
         /\ c # <<>> => Append(r, Head(c)) \o Tail(c) = r \o c
  <1>1. ASSUME NEW p \in Seq(AnyEvent), NEW q \in Seq(AnyEvent), q # <<>>
        PROVE  Append(p, Head(q)) \o Tail(q) = p \o q
    <2>1. Head(q) \in AnyEvent /\ Tail(q) \in Seq(AnyEvent) /\ Len(q) \in Nat \ {0} /\ Len(p) \in Nat
          /\ Len(Tail(q)) = Len(q) - 1 /\ \A i \in 1..Len(q) - 1 : Tail(q)[i] = q[i + 1]
      BY <1>1
    <2> DEFINE x == Append(p, Head(q)) \o Tail(q)
               y == p \o q
    <2>2. x \in Seq(AnyEvent) /\ y \in Seq(AnyEvent) /\ Len(x) = Len(p) + Len(q) /\ Len(y) = Len(p) + Len(q)
      BY <2>1
    <2>3. \A i \in 1..Len(p) + Len(q) : x[i] = y[i]
      BY <1>1, <2>1
    <2> HIDE DEF x, y
    <2>4. x = y
      BY <2>2, <2>3, SeqEqual
    <2> QED BY <2>4, Zenon DEF x, y
  <1>2. ASSUME e # <<>> PROVE (r \o Append(c, Head(e))) \o Tail(e) = (r \o c) \o e
    <2>1. Head(e) \in AnyEvent /\ Tail(e) \in Seq(AnyEvent)
      BY <1>2
    <2>2. r \o c \in Seq(AnyEvent)
      OBVIOUS
    <2>3. Append(r \o c, Head(e)) = r \o Append(c, Head(e))
      <3>1. Append(r \o c, Head(e)) = (r \o c) \o <<Head(e)>> /\ Append(c, Head(e)) = c \o <<Head(e)>>
            /\ <<Head(e)>> \in Seq(AnyEvent)
        BY <2>1, <2>2, AppendIsConcat
      <3> QED BY <3>1, ConcatAssociative
    <2> QED BY <1>1, <1>2, <2>2, <2>3, Zenon
  <1> QED BY <1>1, <1>2, Zenon

\* The streams; until the reader ends, nothing terminal was sent.
LEMMA Streams ==
  ASSUME ProviderInv
  PROVE  /\ events \in Seq(AnyEvent) /\ channel \in Seq(AnyEvent) /\ received \in Seq(AnyEvent)
         /\ received \o channel \in Seq(AnyEvent)
         /\ pc # "ended" => Silent(received \o channel) /\ Silent(received) /\ Silent(channel)
  <1>1. \A e \in Event : e \in AnyEvent
    BY ProviderAssumption DEF Event, AnyEvent, Delta
  <1>2. events \in Seq(AnyEvent) /\ channel \in Seq(AnyEvent) /\ received \in Seq(AnyEvent)
    BY <1>1, Invariant
  <1>3. pc # "ended" => Silent(received) /\ Silent(channel)
    BY Invariant DEF ProviderInv, Silent, EndsTerminal, TerminalIsLast
  <1> QED BY <1>2, <1>3, SilentThen, ConcatProperties

\* While the reader reads, what it sent and holds are the events of the lines it
\* has parsed, and the answer goes on from there.
LEMMA Going ==
  ASSUME ProviderInv, FaithfulInv, listening # "dropped", pc \in {"request", "read", "parse"},
         NEW seen, seen = received \o channel
  PROVE  /\ Len(wire) - Len(lines) \in 0..Len(wire)
         /\ seen \o events = EventsIn(wire, Len(wire) - Len(lines))
         /\ \E rest \in Seq(AnyEvent) : EventsIn(wire, Len(wire)) = (seen \o events) \o rest
  <1>1. Len(wire) - Len(lines) \in 0..Len(wire)
    <2>1. Len(wire) \in Nat /\ Len(lines) \in Nat
      BY Invariant
    <2>2. pc # "parse" => Len(lines) = 0
      BY DEF FaithfulInv
    <2>3. pc = "parse" => Len(wire) - Len(lines) >= 0
      BY DEF FaithfulInv
    <2> QED BY <2>1, <2>2, <2>3
  <1>2. seen \o events = EventsIn(wire, Len(wire) - Len(lines))
    BY DEF FaithfulInv
  <1> QED BY <1>1, <1>2, Invariant, EventsGrow, Zenon

-----------------------------------------------------------------------------
(* One lemma for each action.                                              *)

\* The answer as an operator of the body, now and after a step.
LEMMA AnswerIs == Expected = UpToTerminal(EventsIn(wire, Len(wire))) /\ Expected' = UpToTerminal(EventsIn(wire', Len(wire')))
  BY DEF Expected

\* The invariant while lines of a chunk are parsed.
LEMMA Parsing ==
  ASSUME NEW p, p >= 0, (pc = "parse")', (listening # "closed")', (Len(wire) - Len(lines) = p)',
         (\A i \in DOMAIN lines : lines[i] = [text |-> wire[p + i], number |-> p + i])',
         (listening # "dropped" => (received \o channel) \o events = EventsIn(wire, Len(wire) - Len(lines)))'
  PROVE  FaithfulInv'
  BY DEF FaithfulInv

LEMMA RequestIsFaithful ==
  ASSUME ProviderInv, FaithfulInv, RequestFails \/ RequestSucceeds
  PROVE  FaithfulInv'
  <1>0. wire = <<>> /\ lines = <<>> /\ events = <<>> /\ received = <<>> /\ channel = <<>> /\ listening = "open"
    BY DEF ProviderInv, FaithfulInv, RequestFails, RequestSucceeds
  <1>1. CASE RequestFails
    <2> DEFINE e == <<Error>>
    <2>1. e \in Seq(AnyEvent) /\ TerminalIsLast(e) /\ EndsTerminal(e) /\ <<>> \in Seq(AnyEvent) /\ e \o <<>> = e
      BY DEF AnyEvent, Terminal, TerminalIsLast, EndsTerminal
    <2>2. <<"end">> \in Seq(Line) /\ Len(<<"end">>) = 1 /\ <<"end">>[1] = "end"
      BY DEF Line
    <2>3. EventsIn(<<"end">>, 1) = e
      <3> DEFINE w == <<"end">>
      <3>1. w \in Seq(Line) /\ 0 \in 0..Len(w) - 1 /\ w[0 + 1] = "end"
        BY <2>2
      <3> HIDE DEF w
      <3>2. EventsIn(w, 0 + 1) = EventsIn(w, 0) \o EventsOf("end", 0 + 1) /\ EventsIn(w, 0) = <<>>
        BY <3>1, EventsMore
      <3>3. EventsOf("end", 0 + 1) = e /\ <<>> \o e = e
        BY <2>1, ConcatEmptySeq DEF EventsOf
      <3> HIDE DEF e
      <3>4. EventsIn(w, 0 + 1) = e
        BY <3>2, <3>3, Zenon
      <3> QED BY <3>4 DEF w
    <2> HIDE DEF e
    <2>4. UpToTerminal(e) = e
      BY <2>1, CutHere, Zenon
    <2>5. Expected' = e
      BY <1>1, <2>2, <2>3, <2>4, AnswerIs DEF RequestFails
    <2>6. received' \o channel' = e
      BY <1>0, <1>1, <2>1 DEF RequestFails, e
    <2> QED BY <1>0, <1>1, <2>5, <2>6 DEF RequestFails, FaithfulInv
  <1>2. CASE RequestSucceeds
    BY <1>2 DEF RequestSucceeds, FaithfulInv
  <1> QED BY <1>1, <1>2

LEMMA ChunkIsFaithful ==
  ASSUME ProviderInv, FaithfulInv, Chunk
  PROVE  FaithfulInv'
  <1> PICK ls \in UNION {[1..n -> LineKinds(kind)] : n \in 0..MaxChunkLines} :
             /\ pc = "read" /\ Len(wire) + Len(ls) <= MaxLines
             /\ wire' = wire \o ls
             /\ lines' = [i \in DOMAIN ls |-> [text |-> ls[i], number |-> Len(wire) + i]]
             /\ pc' = "parse"
             /\ UNCHANGED <<kind, events, channel, received, listening>>
    BY Zenon DEF Chunk
  <1> PICK n \in 0..MaxChunkLines : ls \in [1..n -> LineKinds(kind)]
    OBVIOUS
  <1>1. n \in Nat /\ ls \in Seq(Line) /\ Len(ls) = n /\ DOMAIN ls = 1..n
    BY KindsOfLines, Invariant, ProviderAssumption DEF Line
  <1>2. wire \in Seq(Line) /\ Len(wire) \in Nat /\ lines = <<>> /\ events = <<>> /\ listening # "closed"
    BY Invariant DEF FaithfulInv
  <1>3. Len(wire') = Len(wire) + n /\ \A i \in 1..n : wire'[Len(wire) + i] = ls[i]
    BY <1>1, <1>2
  <1>4. Len(lines') = n /\ DOMAIN lines' = 1..n
    BY <1>1
  <1>5. Len(wire') - Len(lines') = Len(wire)
    BY <1>1, <1>2, <1>3, <1>4
  <1>6. \A i \in DOMAIN lines' : lines'[i] = [text |-> wire'[Len(wire) + i], number |-> Len(wire) + i]
    BY <1>1, <1>3, <1>4
  <1>7. EventsIn(wire', Len(wire)) = EventsIn(wire, Len(wire))
    BY <1>1, <1>2, EventsStay
  <1>8. listening # "dropped" => (received \o channel) \o events = EventsIn(wire, Len(wire))
    <2>1. Len(wire) - Len(lines) = Len(wire)
      BY <1>2
    <2> QED BY <2>1, Going, Zenon
  <1>9. listening' # "dropped" => ((received \o channel) \o events)' = EventsIn(wire', Len(wire') - Len(lines'))
    BY <1>5, <1>7, <1>8, Zenon
  <1>10. pc' = "parse" /\ listening' # "closed" /\ Len(wire) >= 0
    BY <1>2
  <1> QED BY <1>5, <1>6, <1>9, <1>10, Parsing

LEMMA ParseLineIsFaithful ==
  ASSUME ProviderInv, FaithfulInv, ParseLine
  PROVE  FaithfulInv'
  <1>0. /\ pc = "parse" /\ events = <<>> /\ listening # "closed"
        /\ UNCHANGED <<kind, wire, channel, received, listening>>
    BY DEF ParseLine, FaithfulInv
  <1>1. CASE lines = <<>>
    <2>1. pc' = "read" /\ UNCHANGED <<lines, events>>
      BY <1>1 DEF ParseLine
    <2> QED BY <1>0, <1>1, <2>1 DEF FaithfulInv
  <1>2. CASE lines # <<>>
    <2> DEFINE parsed == Len(wire) - Len(lines)
    <2>1. events' = parse_line(Head(lines).text, Head(lines).number) /\ lines' = Tail(lines) /\ pc' = pc
      BY <1>2 DEF ParseLine
    <2>2. lines \in Seq(Numbered) /\ wire \in Seq(Line) /\ Len(wire) \in Nat /\ Len(lines) \in Nat \ {0} /\ parsed >= 0
      BY <1>0, <1>2, Invariant DEF FaithfulInv
    <2>3. \A i \in 1..Len(lines) : lines[i] = [text |-> wire[parsed + i], number |-> parsed + i]
      BY <1>0, <2>2 DEF FaithfulInv
    <2>4. /\ Len(lines') = Len(lines) - 1 /\ DOMAIN lines' = 1..Len(lines) - 1
          /\ \A i \in 1..Len(lines) - 1 : lines'[i] = lines[i + 1]
      BY <1>2, <2>1, <2>2
    <2>5. Len(wire') - Len(lines') = parsed + 1 /\ parsed + 1 >= 0
      BY <1>0, <2>2, <2>4
    <2>6. \A i \in DOMAIN lines' : lines'[i] = [text |-> wire'[(parsed + 1) + i], number |-> (parsed + 1) + i]
      <3> SUFFICES ASSUME NEW i \in 1..Len(lines) - 1
                   PROVE  lines'[i] = [text |-> wire[(parsed + 1) + i], number |-> (parsed + 1) + i]
        BY <1>0, <2>4
      <3>1. i + 1 \in 1..Len(lines) /\ parsed + (i + 1) = (parsed + 1) + i
        BY <2>2
      <3>2. lines[i + 1] = [text |-> wire[parsed + (i + 1)], number |-> parsed + (i + 1)]
        BY <2>3, <3>1
      <3> HIDE DEF parsed
      <3> QED BY <2>4, <3>1, <3>2
    <2>7. Head(lines) = [text |-> wire[parsed + 1], number |-> parsed + 1] /\ Head(lines) \in Numbered
      <3>1. 1 \in 1..Len(lines) /\ Head(lines) = lines[1] /\ Head(lines) \in Numbered
        BY <1>2, <2>2
      <3> HIDE DEF parsed
      <3> QED BY <2>3, <3>1, Zenon
    <2>8. events' = EventsOf(wire[parsed + 1], parsed + 1)
      <3>1. Head(lines).text = wire[parsed + 1] /\ Head(lines).number = parsed + 1 /\ wire[parsed + 1] # "end"
        BY <2>7 DEF Numbered, LineKinds
      <3> QED BY <2>1, <3>1 DEF EventsOf
    <2>9. parsed \in 0..Len(wire) - 1
      BY <2>2
    <2> HIDE DEF parsed
    <2>10. EventsIn(wire, parsed + 1) = EventsIn(wire, parsed) \o events'
      BY <2>2, <2>8, <2>9, EventsMore, Zenon
    <2>11. listening # "dropped" => received \o channel = EventsIn(wire, parsed)
      <3>1. listening # "dropped" => (received \o channel) \o events = EventsIn(wire, parsed)
        BY <1>0, Going, Zenon DEF parsed
      <3>2. (received \o channel) \o events = received \o channel
        BY <1>0, Streams, ConcatEmptySeq
      <3> QED BY <3>1, <3>2
    <2>12. listening' # "dropped" => ((received \o channel) \o events)' = EventsIn(wire', Len(wire') - Len(lines'))
      BY <1>0, <2>5, <2>10, <2>11
    <2> QED BY <1>0, <2>1, <2>5, <2>6, <2>12, Parsing
  <1> QED BY <1>1, <1>2

\* The body ended, after lines whose events are final: those are the answer's last.
LEMMA EndOf ==
  ASSUME ProviderInv, FaithfulInv, pc = "read", listening # "dropped",
         NEW v \in Seq(Line), NEW final \in Seq(AnyEvent), NEW rest \in Seq(AnyEvent),
         TerminalIsLast(final), EndsTerminal(final),
         EventsIn(wire \o v, Len(wire \o v)) = EventsIn(wire, Len(wire)) \o (final \o rest)
  PROVE  UpToTerminal(EventsIn(wire \o v, Len(wire \o v))) = (received \o channel) \o final
  <1> DEFINE seen == received \o channel
  <1>1. lines = <<>> /\ events = <<>> /\ wire \in Seq(Line) /\ Len(wire) - Len(lines) = Len(wire)
    BY Invariant DEF FaithfulInv
  <1>2. seen \in Seq(AnyEvent) /\ Silent(seen)
    BY Streams
  <1>3. seen \o events = EventsIn(wire, Len(wire))
    BY <1>1, Going, Zenon
  <1> HIDE DEF seen
  <1>4. seen = EventsIn(wire, Len(wire))
    BY <1>1, <1>2, <1>3, ConcatEmptySeq
  <1>5. seen \o final \in Seq(AnyEvent) /\ TerminalIsLast(seen \o final) /\ EndsTerminal(seen \o final)
    BY <1>2, SilentThen
  <1>6. EventsIn(wire \o v, Len(wire \o v)) = (seen \o final) \o rest
    <2>1. seen \o (final \o rest) = (seen \o final) \o rest
      <3>1. final \in Seq(AnyEvent) /\ rest \in Seq(AnyEvent)
        OBVIOUS
      <3> QED BY ONLY <1>2, <3>1, ConcatAssociative
    <2> QED BY <1>4, <2>1
  <1>7. UpToTerminal((seen \o final) \o rest) = seen \o final
    BY <1>5, CutHere, Zenon
  <1> QED BY <1>6, <1>7 DEF seen

\* Two elements, one after the other.
LEMMA OneByOne ==
  ASSUME NEW S, NEW x \in S, NEW y \in S
  PROVE  <<x>> \in Seq(S) /\ <<y>> \in Seq(S) /\ <<x>> \o <<y>> = <<x, y>>
  <1>1. <<x>> \in Seq(S) /\ <<y>> \in Seq(S) /\ <<x, y>> \in Seq(S)
    OBVIOUS
  <1>2. <<x>> \o <<y>> \in Seq(S) /\ Len(<<x>> \o <<y>>) = 2 /\ Len(<<x, y>>) = 2
        /\ (<<x>> \o <<y>>)[1] = x /\ (<<x>> \o <<y>>)[2] = y
    OBVIOUS
  <1> DEFINE p == <<x>> \o <<y>>
             q == <<x, y>>
  <1>3. p \in Seq(S) /\ q \in Seq(S) /\ Len(p) = 2 /\ Len(q) = 2 /\ \A i \in 1..2 : p[i] = q[i]
    BY <1>1, <1>2
  <1> HIDE DEF p, q
  <1>4. p = q
    BY <1>3, SeqEqual
  <1> QED BY <1>1, <1>4 DEF p, q

\* The events of a body that gets one or two lines more.
LEMMA EventsOfEnd ==
  ASSUME NEW w \in Seq(Line), NEW x \in Line
  PROVE  /\ EventsIn(w \o <<x>>, Len(w \o <<x>>)) = EventsIn(w, Len(w)) \o EventsOf(x, Len(w) + 1)
         /\ EventsIn(w \o <<x, "end">>, Len(w \o <<x, "end">>))
              = EventsIn(w, Len(w)) \o (EventsOf(x, Len(w) + 1) \o <<Error>>)
  <1> DEFINE n == Len(w)
  <1>0. n \in Nat /\ "end" \in Line
    BY DEF Line
  <1>1. ASSUME NEW u \in Seq(Line), NEW y \in Line
        PROVE  EventsIn(u \o <<y>>, Len(u) + 1) = EventsIn(u, Len(u)) \o EventsOf(y, Len(u) + 1)
    <2> DEFINE v == u \o <<y>>
    <2>1. v \in Seq(Line) /\ Len(v) = Len(u) + 1 /\ v[Len(u) + 1] = y /\ Len(u) \in 0..Len(v) - 1
      OBVIOUS
    <2>2. EventsIn(v, Len(u)) = EventsIn(u, Len(u))
      <3>1. <<y>> \in Seq(Line)
        OBVIOUS
      <3> QED BY <3>1, EventsStay, Zenon
    <2> HIDE DEF v
    <2>3. EventsIn(v, Len(u) + 1) = EventsIn(v, Len(u)) \o EventsOf(v[Len(u) + 1], Len(u) + 1)
      BY <2>1, EventsMore, Zenon
    <2> QED BY <2>1, <2>2, <2>3, Zenon DEF v
  <1>2. w \o <<x>> \in Seq(Line) /\ Len(w \o <<x>>) = n + 1
    BY <1>0
  <1>3. EventsIn(w \o <<x>>, n + 1) = EventsIn(w, n) \o EventsOf(x, n + 1)
    BY <1>1, Zenon
  <1>4. w \o <<x, "end">> = (w \o <<x>>) \o <<"end">> /\ Len(w \o <<x, "end">>) = (n + 1) + 1
    <2>1. <<x>> \in Seq(Line) /\ <<"end">> \in Seq(Line) /\ <<x>> \o <<"end">> = <<x, "end">>
      BY <1>0, OneByOne
    <2>2. (w \o <<x>>) \o <<"end">> = w \o <<x, "end">>
      BY <2>1, ConcatAssociative
    <2>3. Len(w \o <<x, "end">>) = (n + 1) + 1
      BY <1>0
    <2> QED BY <2>2, <2>3
  <1>5. EventsIn((w \o <<x>>) \o <<"end">>, (n + 1) + 1)
          = EventsIn(w \o <<x>>, n + 1) \o EventsOf("end", (n + 1) + 1)
    <2> DEFINE u == w \o <<x>>
    <2>1. u \in Seq(Line) /\ Len(u) = n + 1
      BY <1>2
    <2> HIDE DEF u, n
    <2>2. EventsIn(u \o <<"end">>, (n + 1) + 1) = EventsIn(u, n + 1) \o EventsOf("end", (n + 1) + 1)
      BY <1>0, <1>1, <2>1, Zenon
    <2> QED BY <2>2, Zenon DEF u
  <1>6. EventsOf("end", (n + 1) + 1) = <<Error>> /\ <<Error>> \in Seq(AnyEvent)
    BY DEF EventsOf, AnyEvent, Terminal
  <1>7. EventsIn(w, n) \in Seq(AnyEvent) /\ EventsOf(x, n + 1) \in Seq(AnyEvent)
    <2>1. n \in 0..Len(w) /\ n + 1 \in Nat
      BY <1>0
    <2> QED BY <2>1, EventsMore, AnyLine
  <1> HIDE DEF n
  <1>8. (EventsIn(w, n) \o EventsOf(x, n + 1)) \o <<Error>> = EventsIn(w, n) \o (EventsOf(x, n + 1) \o <<Error>>)
    BY <1>6, <1>7, ConcatAssociative
  <1> QED BY <1>2, <1>3, <1>4, <1>5, <1>6, <1>8, Zenon DEF n

\* The reader has what it will send last.
LEMMA Finishing ==
  ASSUME ProviderInv, FaithfulInv, pc = "read", pc' = "finish",
         UNCHANGED <<kind, lines, channel, received, listening>>,
         listening # "dropped" => (received \o channel) \o events' = Expected'
  PROVE  FaithfulInv'
  BY DEF FaithfulInv

LEMMA EndIsFaithful ==
  ASSUME ProviderInv, FaithfulInv, EndOfBody \/ BodyFails
  PROVE  FaithfulInv'
  <1>0. pc = "read" /\ pc' = "finish" /\ UNCHANGED <<kind, lines, channel, received, listening>>
    BY Zenon DEF EndOfBody, BodyFails
  <1> SUFFICES ASSUME listening # "dropped" PROVE (received \o channel) \o events' = Expected'
    BY <1>0, Finishing
  <1> DEFINE e == <<Error>>
  <1>1. /\ e \in Seq(AnyEvent) /\ TerminalIsLast(e) /\ EndsTerminal(e) /\ <<>> \in Seq(AnyEvent)
        /\ e \o <<>> = e /\ \A n : EventsOf("end", n) = e
    BY DEF AnyEvent, Terminal, TerminalIsLast, EndsTerminal, EventsOf
  <1>2. wire \in Seq(Line) /\ Len(wire) \in Nat /\ "end" \in Line /\ <<"end">> \in Seq(Line)
    BY Invariant DEF Line
  <1>3. ASSUME wire' = wire \o <<"end">>, events' = e
        PROVE  (received \o channel) \o events' = Expected'
    <2>1. EventsIn(wire \o <<"end">>, Len(wire \o <<"end">>)) = EventsIn(wire, Len(wire)) \o (e \o <<>>)
      BY <1>1, <1>2, EventsOfEnd, Zenon
    <2> HIDE DEF e
    <2>2. UpToTerminal(EventsIn(wire \o <<"end">>, Len(wire \o <<"end">>))) = (received \o channel) \o e
      BY <1>0, <1>1, <1>2, <2>1, EndOf, Zenon
    <2> QED BY <1>3, <2>2, AnswerIs
  <1>4. CASE BodyFails
    <2>1. wire' = wire \o <<"end">>
      BY <1>2, <1>4, AppendIsConcat DEF BodyFails
    <2> QED BY <1>3, <1>4, <2>1 DEF BodyFails
  <1>5. CASE EndOfBody
    <2> PICK tail \in LineKinds(kind) \cup {"none"} :
               /\ wire' = wire \o (IF kind = "ollama" /\ tail # "none" THEN <<tail, "end">> ELSE <<"end">>)
               /\ events' = FinalEvents(tail)
      BY <1>5 DEF EndOfBody
    <2>1. CASE ~(kind = "ollama" /\ tail # "none")
      BY <1>3, <2>1, Zenon DEF FinalEvents
    <2>2. CASE kind = "ollama" /\ tail # "none"
      <3> DEFINE es == EventsOf(tail, Len(wire) + 1)
                 v == <<tail, "end">>
      <3>1. tail \in LineKinds("ollama") /\ tail \in Line /\ tail # "end" /\ wire' = wire \o v /\ v \in Seq(Line)
        BY <2>2 DEF Line, LineKinds
      <3>2. es = parse_line(tail, Len(wire) + 1) /\ es \in Seq(AnyEvent)
        BY <1>2, <3>1, AnyLine DEF EventsOf
      <3>3. EventsIn(wire \o v, Len(wire \o v)) = EventsIn(wire, Len(wire)) \o (es \o e)
        BY <1>2, <3>1, EventsOfEnd, Zenon
      <3>4. events' = IF EndsTerminal(es) THEN es ELSE Append(es, Error)
        BY <2>2, <3>2 DEF FinalEvents, EndsTerminal
      <3>5. TerminalIsLast(events') /\ EndsTerminal(events')
        BY <1>0, FinalEventsEnd
      <3>6. Append(es, Error) = es \o e
        BY <3>2, AppendIsConcat DEF AnyEvent, Terminal
      <3> HIDE DEF es, e, v
      <3>7. \E rest \in Seq(AnyEvent) : es \o e = events' \o rest
        <4>1. es \o e \in Seq(AnyEvent)
          BY <1>1, <3>2, ConcatProperties
        <4>2. (es \o e) \o <<>> = es \o e
          BY <4>1, ConcatEmptySeq
        <4> QED BY <1>1, <3>4, <3>6, <4>2, Zenon
      <3>8. events' \in Seq(AnyEvent)
        BY <1>1, <3>2, <3>4, <3>6, ConcatProperties, Zenon
      <3>9. UpToTerminal(EventsIn(wire \o v, Len(wire \o v))) = (received \o channel) \o events'
        BY <1>0, <3>1, <3>3, <3>5, <3>7, <3>8, EndOf, Zenon
      <3> QED BY <3>1, <3>9, AnswerIs
    <2> QED BY <2>1, <2>2
  <1> QED BY <1>4, <1>5

LEMMA SendIsFaithful ==
  ASSUME ProviderInv, FaithfulInv, Send
  PROVE  FaithfulInv'
  <1> DEFINE seen == received \o channel
  <1>1. /\ pc \in {"parse", "finish"} /\ events # <<>> /\ listening = "open"
        /\ channel' = Append(channel, Head(events)) /\ events' = Tail(events)
        /\ pc' = IF Head(events) \in Terminal THEN "ended" ELSE pc
        /\ UNCHANGED <<kind, wire, lines, received, listening>>
    BY DEF Send
  <1>2. (received \o channel)' \o events' = seen \o events
    BY <1>1, Streams, Moved, Zenon
  <1>3. UNCHANGED Expected /\ UNCHANGED EventsIn(wire, Len(wire) - Len(lines))
    BY <1>1 DEF Expected
  <1>4. CASE Head(events) \notin Terminal
    BY <1>1, <1>2, <1>3, <1>4, Zenon DEF FaithfulInv
  <1>5. CASE Head(events) \in Terminal
    <2>1. TerminalIsLast(events) /\ events \in Seq(Event) /\ events' = <<>>
      BY <1>1, <1>5, Invariant, TailEnds DEF ProviderInv
    <2>2. EndsTerminal(events)
      BY <1>1, <1>5, <2>1 DEF TerminalIsLast, EndsTerminal
    <2>3. (received \o channel)' = seen \o events
      <3>1. Append(channel, Head(events)) \in Seq(AnyEvent)
        BY <1>1, Streams
      <3>2. (received \o channel)' \in Seq(AnyEvent)
        BY <1>1, <3>1, Streams, ConcatProperties
      <3> QED BY <1>2, <2>1, <3>2, ConcatEmptySeq
    <2>4. seen \o events = Expected
      <3>1. CASE pc = "finish"
        BY <1>1, <3>1 DEF FaithfulInv
      <3>2. CASE pc = "parse"
        <4>1. PICK rest \in Seq(AnyEvent) : EventsIn(wire, Len(wire)) = (seen \o events) \o rest
          BY <1>1, <3>2, Going, Zenon
        <4>2. seen \in Seq(AnyEvent) /\ Silent(seen) /\ events \in Seq(AnyEvent)
          BY <3>2, Streams
        <4> HIDE DEF seen
        <4>3. seen \o events \in Seq(AnyEvent) /\ TerminalIsLast(seen \o events) /\ EndsTerminal(seen \o events)
          BY <2>1, <2>2, <4>2, SilentThen
        <4>4. UpToTerminal((seen \o events) \o rest) = seen \o events
          BY <4>3, CutHere, Zenon
        <4> QED BY <4>1, <4>4, AnswerIs
      <3> QED BY <1>1, <3>1, <3>2
    <2> QED BY <1>1, <1>3, <1>5, <2>3, <2>4, Zenon DEF FaithfulInv
  <1> QED BY <1>4, <1>5

LEMMA OthersAreFaithful ==
  ASSUME ProviderInv, FaithfulInv, SendFails \/ Receive \/ ReceiveNone \/ DropReceiver
  PROVE  FaithfulInv'
  <1>1. CASE SendFails
    <2>1. listening = "dropped"
      BY <1>1 DEF SendFails, FaithfulInv, ProviderInv, TypeOK
    <2> QED BY <1>1, <2>1 DEF SendFails, FaithfulInv
  <1>2. CASE Receive
    <2>1. (received \o channel)' = received \o channel
      BY <1>2, Streams, Moved DEF Receive
    <2>2. UNCHANGED Expected /\ UNCHANGED EventsIn(wire, Len(wire) - Len(lines))
      BY <1>2 DEF Receive, Expected
    <2> QED BY <1>2, <2>1, <2>2 DEF Receive, FaithfulInv
  <1>3. CASE ReceiveNone
    <2>1. UNCHANGED Expected
      BY <1>3 DEF ReceiveNone, Expected
    <2> QED BY <1>3, <2>1 DEF ReceiveNone, FaithfulInv
  <1>4. CASE DropReceiver
    BY <1>4 DEF DropReceiver, FaithfulInv
  <1> QED BY <1>1, <1>2, <1>3, <1>4

LEMMA FaithfulInitially == Init => FaithfulInv
  <1> SUFFICES ASSUME Init PROVE FaithfulInv
    OBVIOUS
  <1>1. wire = <<>> /\ Len(wire) = 0 /\ Len(lines) = 0 /\ wire \in Seq(Line) /\ Len(wire) - Len(lines) = 0
    BY DEF Init
  <1>2. EventsIn(wire, 0) = <<>>
    BY <1>1, EventsMore, Zenon
  <1>4. (received \o channel) \o events = <<>>
    BY DEF Init
  <1> QED BY <1>1, <1>2, <1>4 DEF Init, FaithfulInv

\* The inductive invariant says what the property says.
LEMMA FaithfulSuffices ==
  ASSUME ProviderInv, FaithfulInv
  PROVE  StreamIsFaithful
  <1> DEFINE seen == received \o channel
  <1>1. seen \in Seq(AnyEvent) /\ events \in Seq(AnyEvent)
    BY Streams
  <1>2. ASSUME listening # "dropped", pc \in {"request", "read", "parse"} PROVE Begins(seen, Expected)
    <2>1. Silent(seen)
      BY <1>2, Streams
    <2>2. PICK rest \in Seq(AnyEvent) : EventsIn(wire, Len(wire)) = (seen \o events) \o rest
      BY <1>2, Going, Zenon
    <2> HIDE DEF seen
    <2>3. (seen \o events) \o rest = seen \o (events \o rest) /\ events \o rest \in Seq(AnyEvent)
      BY <1>1, ConcatAssociative, ConcatProperties
    <2>4. Begins(seen, UpToTerminal(seen \o (events \o rest)))
      BY <1>1, <2>1, <2>3, CutAfter, Zenon DEF Silent
    <2> QED BY <2>2, <2>3, <2>4, AnswerIs, Zenon
  <1>3. ASSUME listening # "dropped", pc \in {"finish", "ended"} PROVE Begins(seen, Expected)
    <2>1. PICK es \in Seq(AnyEvent) : Expected = seen \o es
      <3>1. CASE pc = "finish"
        BY <1>1, <1>3, <3>1, Zenon DEF FaithfulInv
      <3>2. CASE pc = "ended"
        <4>1. Expected = seen \o <<>> /\ <<>> \in Seq(AnyEvent)
          BY <1>1, <1>3, <3>2, ConcatEmptySeq DEF FaithfulInv
        <4> QED BY <4>1, Zenon
      <3> QED BY <1>3, <3>1, <3>2
    <2> HIDE DEF seen
    <2>2. seen \o es \in Seq(AnyEvent) /\ Continues(seen \o es, seen)
      BY <1>1, <2>1 DEF Continues
    <2> QED BY <1>1, <2>1, <2>2, PrefixIs, Zenon
  <1>4. pc \in {"request", "read", "parse", "finish", "ended"}
    BY DEF ProviderInv, TypeOK, Labels
  <1>5. listening = "open" /\ pc = "ended" => seen = Expected
    BY DEF FaithfulInv
  <1> HIDE DEF seen
  <1>6. listening # "dropped" => Begins(seen, Expected)
    BY <1>2, <1>3, <1>4
  <1> QED BY <1>5, <1>6 DEF StreamIsFaithful, seen

\* Whatever the chunks, the capacity of the channel and the pace of the consumer,
\* what handle_prompt hears is the provider's body up to its first terminal event:
\* nothing lost, invented or reordered, and Done only if the provider said so.
THEOREM FaithfulStreams == Spec => []StreamIsFaithful
  <1>1. ProviderInv /\ FaithfulInv /\ [Next]_vars => FaithfulInv'
    <2> SUFFICES ASSUME ProviderInv, FaithfulInv, [Next]_vars PROVE FaithfulInv'
      OBVIOUS
    <2>1. CASE UNCHANGED vars
      BY <2>1 DEF vars, FaithfulInv, Expected
    <2>2. CASE Next
      BY <2>2, RequestIsFaithful, ChunkIsFaithful, ParseLineIsFaithful, EndIsFaithful, SendIsFaithful,
         OthersAreFaithful DEF Next, Reader, Consumer
    <2> QED BY <2>1, <2>2
  <1> QED BY <1>1, FaithfulInitially, FaithfulSuffices, ProviderInvariant, PTL DEF Spec

-----------------------------------------------------------------------------
(* The line splitter: what the reference makes of the bytes.               *)

\* What Split makes of nothing, and of bytes.
Unsplit == [lines |-> <<>>, rest |-> <<>>]
SplitBytes == [lines: Seq(Seq(Bytes)), rest: Seq(Bytes)]

\* The function that Split defines recursively, for the first n bytes.
Splits(f, w, n) == f = [i \in 0..n |-> IF i = 0 THEN Unsplit ELSE WithByte(f[i - 1], w[i])]

\* Its values.
LEMMA SplitsAt ==
  ASSUME NEW f, NEW w, NEW n \in Nat, Splits(f, w, n)
  PROVE  f[0] = Unsplit /\ \A i \in 1..n : f[i] = WithByte(f[i - 1], w[i])
  <1> DEFINE h(i) == IF i = 0 THEN Unsplit ELSE WithByte(f[i - 1], w[i])
  <1>1. f = [i \in 0..n |-> h(i)]
    BY DEF Splits
  <1>2. h(0) = Unsplit /\ \A i \in 1..n : i # 0 /\ i \in 0..n
    OBVIOUS
  <1>3. \A i \in 1..n : h(i) = WithByte(f[i - 1], w[i])
    BY <1>2, Zenon
  <1> HIDE DEF h
  <1>4. 0 \in 0..n /\ \A i \in 0..n : f[i] = h(i)
    BY <1>1
  <1> QED
    BY <1>2, <1>3, <1>4, Zenon

\* There is such a function for every n ...
LEMMA SplitsExists ==
  ASSUME NEW w, NEW m \in Nat
  PROVE  \E f : Splits(f, w, m)
  <1> DEFINE T == {n \in Nat : \E f : Splits(f, w, n)}
  <1>1. 0 \in T
    <2>1. Splits([i \in 0..0 |-> Unsplit], w, 0)
      BY DEF Splits
    <2> QED
      BY <2>1
  <1>2. ASSUME NEW n \in Nat, n \in T PROVE n + 1 \in T
    <2>1. PICK f : Splits(f, w, n)
      BY <1>2
    <2> DEFINE g == [i \in 0..(n + 1) |-> IF i <= n THEN f[i] ELSE WithByte(f[i - 1], w[i])]
    <2>2. ASSUME NEW i \in 0..(n + 1)
          PROVE  g[i] = IF i = 0 THEN Unsplit ELSE WithByte(g[i - 1], w[i])
      <3>1. g[i] = (IF i <= n THEN f[i] ELSE WithByte(f[i - 1], w[i])) /\ (i = 0 => i <= n)
        OBVIOUS
      <3>2. i # 0 => g[i - 1] = f[i - 1]
        OBVIOUS
      <3> HIDE DEF g
      <3>3. i <= n /\ i # 0 => i \in 1..n
        OBVIOUS
      <3>4. f[0] = Unsplit /\ \A j \in 1..n : f[j] = WithByte(f[j - 1], w[j])
        BY <2>1, SplitsAt
      <3> QED
        BY <3>1, <3>2, <3>3, <3>4, Zenon
    <2>3. g = [i \in 0..(n + 1) |-> g[i]] /\ n + 1 \in Nat
      OBVIOUS
    <2> HIDE DEF g
    <2>4. Splits(g, w, n + 1)
      BY <2>2, <2>3, Zenon DEF Splits
    <2> QED
      BY <2>3, <2>4
  <1> HIDE DEF T
  <1>3. m \in T
    BY <1>1, <1>2, SetInduction
  <1> QED
    BY <1>3 DEF T

\* ... and no other; its first values depend on the first bytes only.
LEMMA SplitsUnique ==
  ASSUME NEW w, NEW v, NEW n \in Nat, NEW m \in Nat, n <= m, NEW f, NEW g, Splits(f, w, n), Splits(g, v, m),
         Alike(w, v, n)
  PROVE  f[n] = g[n]
  <1> DEFINE T == {i \in Nat : i <= n => f[i] = g[i]}
  <1>1. /\ f[0] = Unsplit /\ \A i \in 1..n : f[i] = WithByte(f[i - 1], w[i])
        /\ g[0] = Unsplit /\ \A i \in 1..m : g[i] = WithByte(g[i - 1], v[i])
    BY SplitsAt
  <1>2. 0 \in T
    BY <1>1
  <1>3. ASSUME NEW i \in Nat, i \in T PROVE i + 1 \in T
    <2> SUFFICES ASSUME i + 1 <= n PROVE f[i + 1] = g[i + 1]
      OBVIOUS
    <2>1. f[i] = g[i]
      BY <1>3
    <2>2. PICK k \in 1..n : k = i + 1 /\ k - 1 = i /\ k \in 1..m
      OBVIOUS
    <2>3. f[k] = WithByte(f[k - 1], w[k]) /\ g[k] = WithByte(g[k - 1], v[k]) /\ w[k] = v[k]
      BY <1>1, <2>2, Zenon DEF Alike
    <2> QED
      BY <2>1, <2>2, <2>3
  <1> HIDE DEF T
  <1>4. n \in T
    BY <1>2, <1>3, SetInduction
  <1> QED
    BY <1>4 DEF T

\* What Split returns.
LEMMA SplitIs ==
  ASSUME NEW w, NEW n \in Nat
  PROVE  \E f : Splits(f, w, n) /\ Split(w, n) = f[n]
  <1> DEFINE c == CHOOSE f : Splits(f, w, n)
  <1>1. \E f : Splits(f, w, n)
    BY SplitsExists
  <1>2. Splits(c, w, n)
    <2> HIDE DEF Splits
    <2> QED
      BY <1>1
  <1>3. Split(w, n) = c[n]
    BY DEF Split, Splits, Unsplit
  <1> QED
    BY <1>2, <1>3, Zenon

\* Only the bytes count.
LEMMA SplitAlike ==
  ASSUME NEW w, NEW v, NEW n \in Nat, Alike(w, v, n)
  PROVE  Split(w, n) = Split(v, n)
  <1>1. PICK f : Splits(f, w, n) /\ Split(w, n) = f[n]
    BY SplitIs
  <1>2. PICK g : Splits(g, v, n) /\ Split(v, n) = g[n]
    BY SplitIs
  <1>3. n <= n
    OBVIOUS
  <1> QED
    BY <1>1, <1>2, <1>3, SplitsUnique

\* One byte more.
LEMMA SplitStep ==
  ASSUME NEW w, NEW n \in Nat
  PROVE  Split(w, 0) = Unsplit /\ Split(w, n + 1) = WithByte(Split(w, n), w[n + 1])
  <1>1. PICK z : Splits(z, w, 0) /\ Split(w, 0) = z[0]
    BY SplitIs
  <1>2. PICK f : Splits(f, w, n) /\ Split(w, n) = f[n]
    BY SplitIs
  <1>3. PICK k \in Nat : k = n + 1 /\ n <= k /\ k - 1 = n /\ k \in 1..k
    OBVIOUS
  <1>4. PICK g : Splits(g, w, k) /\ Split(w, k) = g[k]
    BY SplitIs
  <1>5. z[0] = Unsplit /\ g[k] = WithByte(g[k - 1], w[k])
    BY <1>1, <1>3, <1>4, SplitsAt
  <1>6. f[n] = g[n]
    <2>1. Alike(w, w, n)
      BY DEF Alike
    <2> QED
      BY <1>2, <1>3, <1>4, <2>1, SplitsUnique
  <1> QED
    BY <1>1, <1>2, <1>3, <1>4, <1>5, <1>6

\* Its type.
LEMMA SplitType ==
  ASSUME NEW w \in Seq(Bytes), NEW m \in 0..Len(w)
  PROVE  Split(w, m) \in SplitBytes
  <1> DEFINE T == {n \in Nat : n <= Len(w) => Split(w, n) \in SplitBytes}
  <1>1. 0 \in T
    <2>1. Unsplit \in SplitBytes
      BY DEF Unsplit, SplitBytes
    <2> QED
      BY <2>1, SplitStep
  <1>2. ASSUME NEW n \in Nat, n \in T PROVE n + 1 \in T
    <2> SUFFICES ASSUME n + 1 <= Len(w) PROVE Split(w, n + 1) \in SplitBytes
      OBVIOUS
    <2>1. Split(w, n) \in SplitBytes /\ w[n + 1] \in Bytes
      BY <1>2
    <2>2. ASSUME NEW s \in SplitBytes, NEW b \in Bytes PROVE WithByte(s, b) \in SplitBytes
      BY <2>2 DEF WithByte, SplitBytes
    <2> QED
      BY <2>1, <2>2, SplitStep
  <1> HIDE DEF T
  <1>3. m \in T
    BY <1>1, <1>2, SetInduction
  <1> QED
    BY <1>3 DEF T

\* A byte that is no line feed goes to the rest.
LEMMA WithOther ==
  ASSUME NEW L, NEW Q, NEW y, y # "LF"
  PROVE  WithByte([lines |-> L, rest |-> Q], y) = [lines |-> L, rest |-> Append(Q, y)]
  BY DEF WithByte

\* Bytes without a line feed go to the rest.
LEMMA SplitRun ==
  ASSUME NEW w \in Seq(Bytes), NEW c \in Nat, NEW b \in Seq(Bytes), c + Len(b) <= Len(w),
         \A i \in 1..Len(b) : b[i] = w[c + i] /\ b[i] # "LF"
  PROVE  Split(w, c + Len(b)) = [lines |-> Split(w, c).lines, rest |-> Split(w, c).rest \o b]
  <1> DEFINE L == Split(w, c).lines
             R == Split(w, c).rest
             T == {k \in Nat : k <= Len(b) => Split(w, c + k) = [lines |-> L, rest |-> R \o SubSeq(b, 1, k)]}
  <1>1. Split(w, c) = [lines |-> L, rest |-> R] /\ R \in Seq(Bytes)
    <2>1. c \in 0..Len(w)
      OBVIOUS
    <2> QED
      BY <2>1, SplitType DEF SplitBytes
  <1> HIDE DEF L, R
  <1>2. 0 \in T
    <2>1. SubSeq(b, 1, 0) = <<>> /\ R \o <<>> = R /\ c + 0 = c
      BY <1>1, ConcatEmptySeq
    <2> QED
      BY <1>1, <2>1
  <1>3. ASSUME NEW k \in Nat, k \in T PROVE k + 1 \in T
    <2> SUFFICES ASSUME k + 1 <= Len(b)
                 PROVE  Split(w, c + (k + 1)) = [lines |-> L, rest |-> R \o SubSeq(b, 1, k + 1)]
      OBVIOUS
    <2>1. Split(w, c + k) = [lines |-> L, rest |-> R \o SubSeq(b, 1, k)]
      BY <1>3
    <2>2. c + k \in Nat /\ (c + k) + 1 = c + (k + 1) /\ k + 1 \in 1..Len(b)
      OBVIOUS
    <2>3. w[c + (k + 1)] = b[k + 1] /\ b[k + 1] # "LF" /\ b[k + 1] \in Bytes
      BY <2>2
    <2>4. Split(w, c + (k + 1)) = WithByte(Split(w, c + k), b[k + 1])
      BY <2>2, <2>3, SplitStep
    <2>5. Append(R \o SubSeq(b, 1, k), b[k + 1]) = R \o SubSeq(b, 1, k + 1)
      <3>1. SubSeq(b, 1, k) \in Seq(Bytes) /\ SubSeq(b, 1, k + 1) = Append(SubSeq(b, 1, k), b[k + 1])
        OBVIOUS
      <3> DEFINE x == SubSeq(b, 1, k)
                 y == b[k + 1]
      <3>2. x \in Seq(Bytes) /\ y \in Bytes
        BY <2>3, <3>1
      <3> HIDE DEF x, y
      <3>3. Append(R \o x, y) = R \o Append(x, y)
        <4>1. R \o x \in Seq(Bytes) /\ <<y>> \in Seq(Bytes) /\ R \in Seq(Bytes)
          BY <1>1, <3>2
        <4>2. Append(R \o x, y) = (R \o x) \o <<y>> /\ Append(x, y) = x \o <<y>>
          BY ONLY <3>2, <4>1, AppendIsConcat
        <4> QED
          BY ONLY SMTT(30), <3>2, <4>1, <4>2, ConcatAssociative
      <3> QED
        BY <3>1, <3>3, Zenon DEF x, y
    <2> HIDE DEF T
    <2> QED
      BY ONLY <2>1, <2>3, <2>4, <2>5, WithOther, Zenon
  <1> HIDE DEF T
  <1>4. Len(b) \in T
    <2>1. Len(b) \in Nat
      OBVIOUS
    <2> QED
      BY <1>2, <1>3, <2>1, SetInduction
  <1>5. SubSeq(b, 1, Len(b)) = b /\ Len(b) <= Len(b)
    BY SubSeqFull
  <1>6. Split(w, c + Len(b)) = [lines |-> L, rest |-> R \o SubSeq(b, 1, Len(b))]
    BY <1>4, <1>5 DEF T
  <1> QED
    BY <1>5, <1>6, Zenon DEF L, R

\* One sequence ends another.
Ends(s, t) == \E n \in 0..Len(t) : s = SubSeq(t, n + 1, Len(t))

\* By its elements.
LEMMA EndsIs ==
  ASSUME NEW s \in Seq(Bytes), NEW t \in Seq(Bytes), Len(s) <= Len(t),
         \A i \in 1..Len(s) : s[i] = t[(Len(t) - Len(s)) + i]
  PROVE  Ends(s, t)
  <1> DEFINE n == Len(t) - Len(s)
             u == SubSeq(t, n + 1, Len(t))
  <1>1. n \in 0..Len(t) /\ Len(s) \in Nat /\ Len(t) \in Nat
    OBVIOUS
  <1>2. u \in Seq(Bytes) /\ Len(u) = Len(s) /\ \A i \in 1..Len(s) : u[i] = t[n + i]
    BY <1>1
  <1> HIDE DEF n
  <1>3. \A i \in 1..Len(s) : s[i] = t[n + i]
    BY DEF n
  <1> HIDE DEF u
  <1>4. s = u
    BY <1>2, <1>3, SeqEqual
  <1> QED
    BY <1>1, <1>4 DEF Ends, u

\* strip is what Text says.
LEMMA TextIs ==
  ASSUME NEW y \in Seq(Bytes)
  PROVE  /\ strip(y) = Text(y) /\ Text(y) \in Seq(Bytes)
         /\ y # <<>> /\ y[Len(y)] = "CR" => Len(Text(y)) = Len(y) - 1 /\ \A i \in 1..Len(y) - 1 : Text(y)[i] = y[i]
         /\ ~(y # <<>> /\ y[Len(y)] = "CR") => Text(y) = y
  <1>1. strip(y) = Text(y)
    BY DEF strip, Text
  <1>2. CASE y # <<>> /\ y[Len(y)] = "CR"
    <2>1. Len(y) \in Nat \ {0} /\ Text(y) = SubSeq(y, 1, Len(y) - 1)
      BY <1>2 DEF Text
    <2>2. /\ SubSeq(y, 1, Len(y) - 1) \in Seq(Bytes) /\ Len(SubSeq(y, 1, Len(y) - 1)) = Len(y) - 1
          /\ \A i \in 1..Len(y) - 1 : SubSeq(y, 1, Len(y) - 1)[i] = y[i]
      <3>1. PICK n \in Nat : n = Len(y) - 1
        BY <2>1
      <3>2. \A i \in 1..n : y[i] \in Bytes
        BY <2>1, <3>1
      <3>3. SubSeq(y, 1, n) \in Seq(Bytes) /\ Len(SubSeq(y, 1, n)) = n /\ \A i \in 1..n : SubSeq(y, 1, n)[i] = y[i]
        BY <3>2
      <3> QED
        BY <3>1, <3>3
    <2> QED
      BY <1>1, <1>2, <2>1, <2>2
  <1>3. CASE ~(y # <<>> /\ y[Len(y)] = "CR")
    BY <1>1, <1>3 DEF Text
  <1> QED
    BY <1>2, <1>3

\* What is left of a line without its head ends the line.
LEMMA TextEnds ==
  ASSUME NEW r \in Seq(Bytes), NEW y \in Seq(Bytes)
  PROVE  Ends(Text(y), Text(r \o y))
  <1> DEFINE raw == r \o y
  <1>1. /\ raw \in Seq(Bytes) /\ Len(raw) = Len(r) + Len(y) /\ Len(r) \in Nat /\ Len(y) \in Nat
        /\ \A i \in 1..Len(y) : raw[Len(r) + i] = y[i]
    OBVIOUS
  <1> HIDE DEF raw
  <1>2. CASE y = <<>>
    <2>1. Text(y) = <<>> /\ Text(raw) \in Seq(Bytes) /\ <<>> \in Seq(Bytes)
      BY <1>1, <1>2, TextIs DEF Text
    <2>2. ASSUME NEW t \in Seq(Bytes) PROVE Ends(<<>>, t)
      <3>1. Len(<<>>) <= Len(t) /\ <<>> \in Seq(Bytes) /\ \A i \in 1..Len(<<>>) : FALSE
        OBVIOUS
      <3> QED
        BY <3>1, EndsIs, Zenon
    <2> QED
      BY <2>1, <2>2 DEF raw
  <1>3. CASE y # <<>>
    <2>1. Len(y) \in 1..Len(y) /\ Len(raw) # 0
      BY <1>1, <1>3
    <2>2. raw # <<>> /\ raw[Len(raw)] = y[Len(y)]
      BY <1>1, <2>1
    <2>3. CASE y[Len(y)] = "CR"
      <3>1. /\ Text(y) \in Seq(Bytes) /\ Len(Text(y)) = Len(y) - 1
            /\ \A i \in 1..Len(y) - 1 : Text(y)[i] = y[i]
        BY <1>3, <2>3, TextIs
      <3>2. /\ Text(raw) \in Seq(Bytes) /\ Len(Text(raw)) = Len(raw) - 1
            /\ \A i \in 1..Len(raw) - 1 : Text(raw)[i] = raw[i]
        BY <1>1, <2>2, <2>3, TextIs, Zenon
      <3>3. Len(Text(raw)) - Len(Text(y)) = Len(r) /\ Len(Text(y)) <= Len(Text(raw))
        BY <1>1, <3>1, <3>2
      <3>4. \A i \in 1..Len(y) - 1 : Text(y)[i] = Text(raw)[Len(r) + i]
        BY <1>1, <3>1, <3>2
      <3> QED
        BY <3>1, <3>2, <3>3, <3>4, EndsIs, Zenon DEF raw
    <2>4. CASE y[Len(y)] # "CR"
      <3>1. Text(y) = y /\ Text(raw) = raw
        BY <1>1, <2>2, <2>4, TextIs, Zenon
      <3>2. Len(raw) - Len(y) = Len(r) /\ Len(y) <= Len(raw)
        BY <1>1
      <3>3. Ends(y, raw)
        BY <1>1, <3>2, EndsIs, Zenon
      <3> QED
        BY <3>1, <3>3 DEF raw
    <2> QED
      BY <2>3, <2>4
  <1> QED
    BY <1>2, <1>3

\* Bytes become characters.
LEMMA LossyType ==
  ASSUME NEW y \in Seq(Bytes)
  PROVE  from_utf8_lossy(y) \in Seq(Characters)
  <1> DEFINE character(i) ==
        CASE y[i] = "lead" -> IF i < Len(y) /\ y[i + 1] = "trail" THEN "wide" ELSE "replacement"
          [] y[i] = "trail" -> IF i > 1 /\ y[i - 1] = "lead" THEN "within" ELSE "replacement"
          [] OTHER -> y[i]
  <1>1. DOMAIN y = 1..Len(y) /\ Len(y) \in Nat /\ \A i \in 1..Len(y) : y[i] \in Bytes
    OBVIOUS
  <1>2. ASSUME NEW i \in 1..Len(y) PROVE character(i) \in Characters
    BY <1>1 DEF Bytes, Characters
  <1>3. from_utf8_lossy(y) = [i \in 1..Len(y) |-> character(i)]
    BY <1>1 DEF from_utf8_lossy
  <1> HIDE DEF character
  <1> QED
    BY <1>1, <1>2, <1>3

\* What push returns of a line whose head is missing, if it was too long, or not.
LEMMA LineUnharmed ==
  ASSUME NEW r \in Seq(Bytes), NEW y \in Seq(Bytes), r = <<>> \/ Len(r) > MAX_LINE_BYTES
  PROVE  /\ Unharmed(from_utf8_lossy(strip(y)), r \o y)
         /\ r = <<>> => from_utf8_lossy(strip(y)) = Shown(r \o y)
  <1>1. strip(y) = Text(y) /\ Ends(Text(y), Text(r \o y))
    BY TextIs, TextEnds
  <1>1a. PICK n \in 0..Len(Text(r \o y)) : Text(y) = SubSeq(Text(r \o y), n + 1, Len(Text(r \o y)))
    BY <1>1, Zenon DEF Ends
  <1>2. r = <<>> => r \o y = y
    BY ConcatEmptySeq
  <1>3. Len(r) > MAX_LINE_BYTES => ~(Len(r \o y) <= MAX_LINE_BYTES)
    <2>1. Len(r \o y) = Len(r) + Len(y) /\ Len(r) \in Nat /\ Len(y) \in Nat /\ MAX_LINE_BYTES \in Nat
      BY LineAssumption
    <2> QED
      BY <2>1
  <1> QED
    BY <1>1, <1>1a, <1>2, <1>3, Zenon DEF Unharmed, Shown

-----------------------------------------------------------------------------
(* Its inductive invariant.                                                *)

\* At first nothing was pushed.
LEMMA LineInitially == LineInit => LineInv
  <1> SUFFICES ASSUME LineInit PROVE LineInv
    OBVIOUS
  <1>1. /\ input = <<>> /\ buffer = <<>> /\ returned = <<>> /\ draining = FALSE /\ valve = FALSE /\ ended = FALSE
        /\ Len(input) = 0 /\ Len(buffer) = 0 /\ Len(input) - Len(buffer) = 0 /\ Len(returned) = 0
    BY DEF LineInit
  <1>2. Split(input, Len(input) - Len(buffer)) = [lines |-> <<>>, rest |-> <<>>]
    BY <1>1, SplitStep DEF Unsplit
  <1>3. <<>> \in Seq(Bytes) /\ <<>> \in Seq(Seq(Characters)) /\ MAX_LINE_BYTES \in Nat
    BY LineAssumption
  <1> DEFINE gone == Split(input, Len(input) - Len(buffer))
  <1>4. gone.lines = <<>> /\ gone.rest = <<>> /\ Len(gone.lines) = 0 /\ DOMAIN gone.lines = {} /\ DOMAIN buffer = {}
    BY <1>1, <1>2
  <1>5. Len(returned) - Len(gone.lines) \in (IF ended THEN 0..1 ELSE {0})
    BY <1>1, <1>4
  <1> HIDE DEF gone
  <1>6. /\ input \in Seq(Bytes) /\ buffer \in Seq(Bytes) /\ returned \in Seq(Seq(Characters))
        /\ draining \in BOOLEAN /\ valve \in BOOLEAN /\ ended = FALSE
        /\ Len(buffer) <= Len(input) /\ Len(buffer) <= MAX_LINE_BYTES
    <2>1. Len(buffer) <= Len(input) /\ Len(buffer) <= MAX_LINE_BYTES
      BY <1>1, <1>3
    <2> QED
      BY ONLY <1>1, <1>3, <2>1, Zenon
  <1> QED
    BY ONLY <1>1, <1>4, <1>5, <1>6, Zenon DEF LineInv, gone

\* The invariant with its lines and its rest named, and quantifiers over indices.
Gone(M, Q) ==
  /\ Split(input, Len(input) - Len(buffer)) = [lines |-> M, rest |-> Q]
  /\ input \in Seq(Bytes) /\ buffer \in Seq(Bytes) /\ returned \in Seq(Seq(Characters))
  /\ draining \in BOOLEAN /\ valve \in BOOLEAN /\ ended \in BOOLEAN
  /\ Len(buffer) <= Len(input)
  /\ \A i \in 1..Len(buffer) : buffer[i] = input[(Len(input) - Len(buffer)) + i]
  /\ ~draining => Len(buffer) <= MAX_LINE_BYTES /\ \A i \in 1..Len(buffer) : buffer[i] # "LF"
  /\ ended => buffer = <<>> /\ ~draining
  /\ Len(returned) = Len(M) \/ (ended /\ Len(returned) = Len(M) + 1)
  /\ ~ended => Q = <<>> \/ (valve /\ Len(Q) > MAX_LINE_BYTES)
  /\ \A i \in 1..Len(M) : Unharmed(returned[i], M[i]) /\ (~valve => returned[i] = Shown(M[i]))
  /\ ended /\ ~valve => IF Text(Q) = <<>> THEN Len(returned) = Len(M)
                        ELSE Len(returned) = Len(M) + 1 /\ returned[Len(returned)] = Shown(Q)

\* It is the invariant of the next state ...
LEMMA LineInvNext ==
  ASSUME NEW M \in Seq(Seq(Bytes)), NEW Q \in Seq(Bytes), Gone(M, Q)'
  PROVE  LineInv'
  <1> DEFINE gone == Split(input', Len(input') - Len(buffer'))
  <1>1. gone.lines = M /\ gone.rest = Q /\ DOMAIN M = 1..Len(M) /\ Len(M) \in Nat
    BY DEF Gone
  <1>2. DOMAIN buffer' = 1..Len(buffer')
    BY DEF Gone
  <1>3. Len(returned') - Len(M) \in (IF ended' THEN 0..1 ELSE {0})
    <2>1. Len(returned') = Len(M) \/ (ended' /\ Len(returned') = Len(M) + 1)
      BY DEF Gone
    <2>2. CASE Len(returned') = Len(M)
      BY ONLY <1>1, <2>2
    <2>3. CASE ended' /\ Len(returned') = Len(M) + 1
      BY ONLY <1>1, <2>3
    <2> QED
      BY <2>1, <2>2, <2>3
  <1> HIDE DEF gone
  <1> QED
    BY <1>1, <1>2, <1>3, Zenon DEF LineInv, gone, Gone

\* ... and of this one.
LEMMA LineSome ==
  ASSUME LineInv
  PROVE  \E L \in Seq(Seq(Bytes)), R \in Seq(Bytes) : Gone(L, R)
  <1>1. PICK c, L, R : c = Len(input) - Len(buffer) /\ L = Split(input, c).lines /\ R = Split(input, c).rest
    OBVIOUS
  <1>2. input \in Seq(Bytes) /\ buffer \in Seq(Bytes) /\ returned \in Seq(Seq(Characters)) /\ Len(buffer) <= Len(input)
    BY DEF LineInv
  <1>3. c \in Nat /\ c \in 0..Len(input)
    BY <1>1, <1>2
  <1>4. L \in Seq(Seq(Bytes)) /\ R \in Seq(Bytes) /\ Split(input, c) = [lines |-> L, rest |-> R]
    BY <1>1, <1>2, <1>3, SplitType, Zenon DEF SplitBytes
  <1>5. DOMAIN L = 1..Len(L) /\ DOMAIN buffer = 1..Len(buffer) /\ Len(L) \in Nat /\ Len(returned) \in Nat
    BY <1>2, <1>4
  <1>6. Len(returned) - Len(L) \in (IF ended THEN 0..1 ELSE {0})
    BY <1>1, Zenon DEF LineInv
  <1>7. Len(returned) = Len(L) \/ (ended /\ Len(returned) = Len(L) + 1)
    BY <1>5, <1>6
  <1>8. Gone(L, R)
    BY <1>1, <1>4, <1>5, <1>7, Zenon DEF LineInv, Gone
  <1> QED
    BY <1>4, <1>8, Zenon

\* A line of the buffer, and what follows it.
LEMMA FirstLine ==
  ASSUME NEW buf \in Seq(Bytes), NEW pos \in 1..Len(buf)
  PROVE  /\ SubSeq(buf, 1, pos - 1) \in Seq(Bytes) /\ Len(SubSeq(buf, 1, pos - 1)) = pos - 1
         /\ \A i \in 1..pos - 1 : SubSeq(buf, 1, pos - 1)[i] = buf[i]
         /\ SubSeq(buf, pos + 1, Len(buf)) \in Seq(Bytes) /\ Len(SubSeq(buf, pos + 1, Len(buf))) = Len(buf) - pos
         /\ \A i \in 1..Len(buf) - pos : SubSeq(buf, pos + 1, Len(buf))[i] = buf[pos + i]
  <1>0. Len(buf) \in Nat /\ \A i \in 1..Len(buf) : buf[i] \in Bytes
    OBVIOUS
  <1>1. PICK n \in Int : n = pos - 1
    OBVIOUS
  <1>2. PICK m \in Int : m = pos + 1
    OBVIOUS
  <1>3. PICK k \in Int : k = Len(buf)
    BY <1>0
  <1>4. \A i \in 1..n : buf[i] \in Bytes
    BY <1>0, <1>1
  <1>5. \A i \in m..k : buf[i] \in Bytes
    BY <1>0, <1>2, <1>3
  <1>6. /\ SubSeq(buf, 1, n) \in Seq(Bytes) /\ Len(SubSeq(buf, 1, n)) = IF 1 <= n THEN n - 1 + 1 ELSE 0
        /\ \A i \in 1..n - 1 + 1 : SubSeq(buf, 1, n)[i] = buf[1 + i - 1]
    BY <1>4, SubSeqProperties
  <1>7. /\ SubSeq(buf, m, k) \in Seq(Bytes) /\ Len(SubSeq(buf, m, k)) = IF m <= k THEN k - m + 1 ELSE 0
        /\ \A i \in 1..k - m + 1 : SubSeq(buf, m, k)[i] = buf[m + i - 1]
    BY <1>5, SubSeqProperties
  <1>8. /\ SubSeq(buf, 1, pos - 1) \in Seq(Bytes) /\ Len(SubSeq(buf, 1, pos - 1)) = pos - 1
        /\ \A i \in 1..pos - 1 : SubSeq(buf, 1, pos - 1)[i] = buf[i]
    BY <1>1, <1>6
  <1>9. /\ SubSeq(buf, pos + 1, Len(buf)) \in Seq(Bytes) /\ Len(SubSeq(buf, pos + 1, Len(buf))) = Len(buf) - pos
        /\ \A i \in 1..Len(buf) - pos : SubSeq(buf, pos + 1, Len(buf))[i] = buf[pos + i]
    BY <1>0, <1>2, <1>3, <1>7
  <1> QED
    BY <1>8, <1>9

\* A chunk joins the input and the buffer.
LEMMA PushKeeps ==
  ASSUME LineInv, NEW chunk \in UNION {[1..n -> Bytes] : n \in 0..MaxChunk}, Push(chunk)
  PROVE  LineInv'
  <1> DEFINE c == Len(input) - Len(buffer)
  <1>1. /\ ~ended /\ ~draining /\ input' = input \o chunk /\ buffer' = buffer \o chunk /\ draining' = TRUE
        /\ UNCHANGED <<returned, valve, ended>>
    BY DEF Push, extended
  <1>2. /\ input \in Seq(Bytes) /\ buffer \in Seq(Bytes) /\ c \in Nat /\ c + Len(buffer) = Len(input)
        /\ \A i \in 1..Len(buffer) : buffer[i] = input[c + i]
    <2>1. input \in Seq(Bytes) /\ buffer \in Seq(Bytes) /\ Len(buffer) <= Len(input)
      BY DEF LineInv
    <2>2. DOMAIN buffer = 1..Len(buffer) /\ Len(buffer) \in Nat /\ Len(input) \in Nat
      BY ONLY <2>1
    <2>3. \A i \in 1..Len(buffer) : buffer[i] = input[c + i]
      BY <2>2 DEF LineInv
    <2> QED
      BY <2>1, <2>2, <2>3
  <1>3. chunk \in Seq(Bytes)
    <2>1. PICK n \in 0..MaxChunk : chunk \in [1..n -> Bytes]
      OBVIOUS
    <2> QED
      BY <2>1, LineAssumption
  <1>4. /\ input' \in Seq(Bytes) /\ Len(input') = Len(input) + Len(chunk)
        /\ buffer' \in Seq(Bytes) /\ Len(buffer') = Len(buffer) + Len(chunk)
        /\ Len(input') - Len(buffer') = c /\ Len(buffer') <= Len(input')
    BY <1>1, <1>2, <1>3
  <1>5. Split(input', c) = Split(input, c)
    <2>1. \A i \in 1..c : input'[i] = input[i]
      BY <1>1, <1>2, <1>3
    <2> HIDE DEF c
    <2> QED
      BY <1>2, <2>1, SplitAlike DEF Alike
  <1>6. DOMAIN buffer' = 1..Len(buffer') /\ \A i \in 1..Len(buffer') : buffer'[i] = input'[c + i]
    <2> SUFFICES ASSUME NEW i \in 1..(Len(buffer) + Len(chunk)) PROVE buffer'[i] = input'[c + i]
      BY <1>4
    <2> HIDE DEF c
    <2>1. CASE i <= Len(buffer)
      BY <1>1, <1>2, <1>3, <2>1
    <2>2. CASE i > Len(buffer)
      <3>0. Len(input) \in Nat /\ Len(chunk) \in Nat /\ Len(buffer) \in Nat
        BY <1>2, <1>3
      <3>1. c + i \in 1..Len(input) + Len(chunk) /\ c + i > Len(input) /\ (c + i) - Len(input) = i - Len(buffer)
        <4>1. c \in Nat /\ c + Len(buffer) = Len(input)
          BY <1>2, <3>0
        <4>2. i \in Nat /\ i > Len(buffer) /\ i <= Len(buffer) + Len(chunk)
          BY <2>2, <3>0
        <4> HIDE DEF c
        <4> QED
          BY ONLY <3>0, <4>1, <4>2
      <3>2. (input \o chunk)[c + i] = chunk[(c + i) - Len(input)] /\ (buffer \o chunk)[i] = chunk[i - Len(buffer)]
        BY SMTT(30), <1>2, <1>3, <2>2, <3>1
      <3> QED
        BY <1>1, <3>1, <3>2
    <2> QED
      BY <2>1, <2>2
  <1> HIDE DEF c
  <1>7. Split(input', Len(input') - Len(buffer')) = Split(input, Len(input) - Len(buffer))
    BY <1>4, <1>5 DEF c
  <1>8. \A i \in DOMAIN buffer' : buffer'[i] = input'[(Len(input') - Len(buffer')) + i]
    BY <1>4, <1>6
  <1> QED
    BY <1>1, <1>4, <1>7, <1>8 DEF LineInv

\* An iteration of the loop completes the line that was begun.
LEMMA DrainKeeps ==
  ASSUME LineInv, Drain
  PROVE  LineInv'
  <1>0. PICK L \in Seq(Seq(Bytes)), R \in Seq(Bytes) : Gone(L, R)
    BY LineSome
  <1>0c. PICK c : c = Len(input) - Len(buffer)
    OBVIOUS
  <1>1. /\ input \in Seq(Bytes) /\ buffer \in Seq(Bytes) /\ c \in Nat /\ c + Len(buffer) = Len(input)
        /\ Len(buffer) \in Nat /\ Len(input) \in Nat /\ Split(input, c) = [lines |-> L, rest |-> R]
        /\ \A i \in 1..Len(buffer) : buffer[i] = input[c + i]
    <2>1. /\ input \in Seq(Bytes) /\ buffer \in Seq(Bytes) /\ Len(buffer) <= Len(input)
          /\ Split(input, c) = [lines |-> L, rest |-> R] /\ \A i \in 1..Len(buffer) : buffer[i] = input[c + i]
      BY <1>0, <1>0c, Zenon DEF Gone
    <2>2. Len(buffer) \in Nat /\ Len(input) \in Nat
      BY ONLY <2>1
    <2>3. c \in Nat /\ c + Len(buffer) = Len(input)
      BY ONLY <1>0c, <2>1, <2>2
    <2> QED
      BY <2>1, <2>2, <2>3
  <1>2. PICK pos \in 1..Len(buffer) :
          /\ draining /\ buffer[pos] = "LF" /\ \A i \in 1..pos - 1 : buffer[i] # "LF"
          /\ returned' = Append(returned, from_utf8_lossy(strip(SubSeq(buffer, 1, pos - 1))))
          /\ buffer' = SubSeq(buffer, pos + 1, Len(buffer))
          /\ UNCHANGED <<input, draining, valve, ended>>
    <2>1. DOMAIN buffer = 1..Len(buffer)
      BY <1>1
    <2> QED
      BY <2>1, Zenon DEF Drain, position
  <1>3. /\ L \in Seq(Seq(Bytes)) /\ R \in Seq(Bytes) /\ returned \in Seq(Seq(Characters))
        /\ ~ended /\ Len(returned) = Len(L) /\ (R = <<>> \/ (valve /\ Len(R) > MAX_LINE_BYTES))
        /\ \A i \in 1..Len(L) : Unharmed(returned[i], L[i]) /\ (~valve => returned[i] = Shown(L[i]))
    BY <1>0, <1>2, Zenon DEF Gone
  <1>3a. PICK b, raw, M, line :
           /\ b = SubSeq(buffer, 1, pos - 1) /\ raw = R \o b /\ M = Append(L, raw)
           /\ line = from_utf8_lossy(strip(b))
    BY Zenon
  <1>4. b \in Seq(Bytes) /\ Len(b) = pos - 1 /\ \A i \in 1..pos - 1 : b[i] = buffer[i]
    BY <1>1, <1>3a, FirstLine
  <1>5. /\ buffer' \in Seq(Bytes) /\ Len(buffer') = Len(buffer) - pos
        /\ \A i \in 1..Len(buffer) - pos : buffer'[i] = buffer[pos + i]
    BY <1>1, <1>2, FirstLine
  <1>6. Split(input, c + (pos - 1)) = [lines |-> L, rest |-> raw]
    <2>1. c + Len(b) <= Len(input) /\ \A i \in 1..Len(b) : b[i] = input[c + i] /\ b[i] # "LF"
      <3>1. pos \in Nat /\ pos >= 1 /\ pos <= Len(buffer)
        BY <1>1
      <3>2. c + (pos - 1) <= Len(input) /\ \A i \in 1..pos - 1 : i \in 1..Len(buffer)
        BY <1>1, <3>1
      <3>3. \A i \in 1..pos - 1 : b[i] = input[c + i] /\ b[i] # "LF"
        BY <1>1, <1>2, <1>4, <3>2, Zenon
      <3> QED
        BY <1>4, <3>2, <3>3
    <2>2. Split(input, c + Len(b)) = [lines |-> Split(input, c).lines, rest |-> Split(input, c).rest \o b]
      BY <1>1, <1>4, <2>1, SplitRun, Zenon
    <2> QED
      BY <1>1, <1>3a, <1>4, <2>2
  <1>7. Split(input, c + pos) = [lines |-> M, rest |-> <<>>]
    <2>0. c + (pos - 1) \in Nat /\ (c + (pos - 1)) + 1 = c + pos
      <3>1. c \in Nat /\ pos \in Nat /\ pos >= 1
        BY <1>1
      <3> QED
        BY ONLY <3>1
    <2>1. PICK n \in Nat : n = c + (pos - 1) /\ n + 1 = c + pos
      BY ONLY <2>0, Zenon
    <2>2. input[n + 1] = "LF"
      BY <1>1, <1>2, <2>1
    <2>3. Split(input, n + 1) = WithByte(Split(input, n), "LF")
      BY <2>2, SplitStep
    <2>4. WithByte([lines |-> L, rest |-> raw], "LF") = [lines |-> M, rest |-> <<>>]
      BY <1>3a DEF WithByte
    <2> QED
      BY ONLY <1>6, <2>1, <2>3, <2>4, Zenon
  <1>8. Len(input) - Len(buffer') = c + pos /\ Len(buffer') <= Len(input)
    <2>1. pos \in Nat /\ pos <= Len(buffer)
      BY <1>1
    <2>2. /\ c \in Nat /\ c + Len(buffer) = Len(input) /\ Len(buffer) \in Nat /\ Len(input) \in Nat
          /\ Len(buffer') = Len(buffer) - pos
      BY <1>1, <1>5
    <2>3. PICK k \in Nat, l \in Nat : k = Len(buffer) /\ l = Len(input)
      BY <2>2
    <2>4. k \in Nat /\ l \in Nat /\ c \in Nat /\ pos \in Nat /\ pos <= k /\ c + k = l /\ Len(buffer') = k - pos
      BY <2>1, <2>2, <2>3
    <2>5. l - (k - pos) = c + pos /\ k - pos <= l
      BY ONLY <2>4
    <2> QED
      BY <2>3, <2>4, <2>5
  <1>9. \A i \in 1..Len(buffer') : buffer'[i] = input[(c + pos) + i]
    <2> SUFFICES ASSUME NEW i \in 1..Len(buffer) - pos PROVE buffer'[i] = input[(c + pos) + i]
      BY <1>5
    <2>1. pos + i \in 1..Len(buffer) /\ c + (pos + i) = (c + pos) + i
      BY <1>1
    <2> QED
      BY <1>1, <1>5, <2>1
  <1>10. Unharmed(line, raw) /\ (~valve => line = Shown(raw)) /\ line \in Seq(Characters) /\ raw \in Seq(Bytes)
    BY <1>3, <1>3a, <1>4, LineUnharmed, LossyType, TextIs, ConcatProperties, Zenon
  <1>11. /\ M \in Seq(Seq(Bytes)) /\ Len(M) = Len(L) + 1 /\ M[Len(L) + 1] = raw
         /\ \A i \in 1..Len(L) : M[i] = L[i]
    <2>1. L \in Seq(Seq(Bytes)) /\ raw \in Seq(Bytes) /\ M = Append(L, raw)
      BY <1>3, <1>3a, <1>10
    <2> QED
      BY ONLY <2>1, AppendProperties
  <1>12. /\ returned' \in Seq(Seq(Characters)) /\ Len(returned') = Len(L) + 1
         /\ returned'[Len(L) + 1] = line /\ \A i \in 1..Len(L) : returned'[i] = returned[i]
    <2>1. /\ Append(returned, line) \in Seq(Seq(Characters)) /\ Len(Append(returned, line)) = Len(returned) + 1
          /\ \A i \in 1..Len(returned) : Append(returned, line)[i] = returned[i]
          /\ Append(returned, line)[Len(returned) + 1] = line
      <3>1. returned \in Seq(Seq(Characters)) /\ line \in Seq(Characters)
        BY <1>3, <1>10
      <3> QED
        BY ONLY SMTT(30), <3>1, AppendProperties
    <2>2. returned' = Append(returned, line)
      BY <1>2, <1>3a
    <2> QED
      BY ONLY <1>3, <2>1, <2>2, Zenon
  <1>13. \A i \in 1..Len(M) : Unharmed(returned'[i], M[i]) /\ (~valve => returned'[i] = Shown(M[i]))
    <2>1. \A i \in 1..Len(M) : i \in 1..Len(L) \/ i = Len(L) + 1
      BY <1>3, <1>11
    <2> QED
      BY <1>3, <1>10, <1>11, <1>12, <2>1, Zenon
  <1>14. /\ draining' \in BOOLEAN /\ draining' = TRUE /\ valve' \in BOOLEAN /\ (valve' <=> valve)
         /\ ended' = FALSE /\ input' = input
    BY <1>2, <1>3, Zenon DEF LineInv
  <1>15. <<>> \in Seq(Bytes)
    OBVIOUS
  <1>16. Gone(M, <<>>)'
    <2>1. (Split(input, Len(input) - Len(buffer)) = [lines |-> M, rest |-> <<>>])'
      BY <1>7, <1>8, <1>14
    <2>2. (\A i \in 1..Len(buffer) : buffer[i] = input[(Len(input) - Len(buffer)) + i])'
      BY <1>8, <1>9, <1>14
    <2> QED
      BY ONLY <1>1, <1>5, <1>8, <1>11, <1>12, <1>13, <1>14, <2>1, <2>2, Zenon DEF Gone
  <1> QED
    BY <1>11, <1>15, <1>16, LineInvNext, Zenon

\* At the end of push's loop, all that was pushed.
LEMMA WholeIs ==
  ASSUME NEW L \in Seq(Seq(Bytes)), NEW R \in Seq(Bytes), Gone(L, R), \A i \in 1..Len(buffer) : buffer[i] # "LF"
  PROVE  Split(input, Len(input)) = [lines |-> L, rest |-> R \o buffer]
  <1>1. PICK c : c = Len(input) - Len(buffer)
    OBVIOUS
  <1>2. /\ input \in Seq(Bytes) /\ buffer \in Seq(Bytes) /\ Len(buffer) <= Len(input)
        /\ Split(input, c) = [lines |-> L, rest |-> R] /\ \A i \in 1..Len(buffer) : buffer[i] = input[c + i]
    BY <1>1, Zenon DEF Gone
  <1>3. Len(buffer) \in Nat /\ Len(input) \in Nat
    BY ONLY <1>2
  <1>4. c \in Nat /\ c + Len(buffer) = Len(input)
    BY ONLY <1>1, <1>2, <1>3
  <1>5. c + Len(buffer) <= Len(input) /\ \A i \in 1..Len(buffer) : buffer[i] = input[c + i] /\ buffer[i] # "LF"
    BY <1>2, <1>3, <1>4
  <1>6. Split(input, c + Len(buffer)) = [lines |-> Split(input, c).lines, rest |-> Split(input, c).rest \o buffer]
    BY <1>2, <1>4, <1>5, SplitRun, Zenon
  <1> QED
    BY <1>2, <1>4, <1>6

\* The valve leaves the head of a line that is too long.
LEMMA PushReturnsKeeps ==
  ASSUME LineInv, PushReturns
  PROVE  LineInv'
  <1>1. PICK L \in Seq(Seq(Bytes)), R \in Seq(Bytes) : Gone(L, R)
    BY LineSome
  <1>2. /\ input \in Seq(Bytes) /\ buffer \in Seq(Bytes) /\ Len(buffer) \in Nat /\ Len(input) \in Nat
        /\ DOMAIN buffer = 1..Len(buffer) /\ MAX_LINE_BYTES \in Nat
    BY <1>1, LineAssumption DEF Gone
  <1>3. /\ draining' = FALSE /\ input' = input /\ returned' = returned /\ (ended' <=> ended) /\ ~ended
        /\ buffer' = (IF too_long(buffer) THEN <<>> ELSE buffer) /\ (valve' <=> valve \/ too_long(buffer))
        /\ valve' \in BOOLEAN /\ ended' \in BOOLEAN
        /\ \A i \in 1..Len(buffer) : buffer[i] # "LF"
    BY <1>1, <1>2, Zenon DEF PushReturns, Gone
  <1>4. CASE too_long(buffer)
    <2>1. buffer' = <<>> /\ Len(buffer') = 0 /\ valve' /\ Len(input') - Len(buffer') = Len(input)
      BY <1>2, <1>3, <1>4
    <2>2. PICK q : q = R \o buffer
      BY Zenon
    <2>3. Split(input, Len(input)) = [lines |-> L, rest |-> q]
      BY <1>1, <1>3, <2>2, WholeIs
    <2>4. q \in Seq(Bytes) /\ Len(q) = Len(R) + Len(buffer) /\ Len(R) \in Nat
      BY <1>2, <2>2, ConcatProperties
    <2>5. Len(q) > MAX_LINE_BYTES
      BY <1>2, <1>4, <2>4 DEF too_long
    <2>6. Gone(L, q)'
      <3>1. (Split(input, Len(input) - Len(buffer)) = [lines |-> L, rest |-> q])'
        BY <1>3, <2>1, <2>3
      <3>2. (Len(buffer) <= Len(input))' /\ (Len(buffer) <= MAX_LINE_BYTES)' /\ 1..Len(buffer') = {} /\ <<>> \in Seq(Bytes)
        BY <1>2, <1>3, <2>1
      <3>3. /\ returned \in Seq(Seq(Characters)) /\ Len(returned) = Len(L)
            /\ \A i \in 1..Len(L) : Unharmed(returned[i], L[i])
        BY <1>1, <1>3, Zenon DEF Gone
      <3> QED
        BY ONLY <1>2, <1>3, <2>1, <2>5, <3>1, <3>2, <3>3, Zenon DEF Gone
    <2> QED
      BY <2>4, <2>6, LineInvNext
  <1>5. CASE ~too_long(buffer)
    <2>1. buffer' = buffer /\ (valve' <=> valve) /\ Len(buffer) <= MAX_LINE_BYTES
      BY <1>2, <1>3, <1>5 DEF too_long
    <2>2. Gone(L, R)'
      BY ONLY <1>1, <1>2, <1>3, <2>1, Zenon DEF Gone
    <2> QED
      BY <2>2, LineInvNext
  <1> QED
    BY <1>4, <1>5

\* The rest of the stream is its last line.
LEMMA FlushKeeps ==
  ASSUME LineInv, Flush
  PROVE  LineInv'
  <1>1. PICK L \in Seq(Seq(Bytes)), R \in Seq(Bytes) : Gone(L, R)
    BY LineSome
  <1>2. /\ input \in Seq(Bytes) /\ buffer \in Seq(Bytes) /\ Len(buffer) \in Nat /\ Len(input) \in Nat
        /\ MAX_LINE_BYTES \in Nat
    BY <1>1, LineAssumption DEF Gone
  <1>3. /\ ~draining' /\ draining' \in BOOLEAN /\ input' = input /\ ended' /\ ended' = TRUE /\ buffer' = <<>>
        /\ (valve' <=> valve) /\ valve' \in BOOLEAN
        /\ returned' = (IF strip(buffer) = <<>> THEN returned ELSE Append(returned, from_utf8_lossy(strip(buffer))))
        /\ \A i \in 1..Len(buffer) : buffer[i] # "LF"
        /\ (~valve => R = <<>>)
        /\ returned \in Seq(Seq(Characters)) /\ Len(returned) = Len(L)
        /\ \A i \in 1..Len(L) : Unharmed(returned[i], L[i]) /\ (~valve => returned[i] = Shown(L[i]))
    BY <1>1, <1>2, Zenon DEF Flush, Gone
  <1>4. PICK q, y, line : q = R \o buffer /\ y = strip(buffer) /\ line = from_utf8_lossy(y)
    BY Zenon
  <1>5. Split(input, Len(input)) = [lines |-> L, rest |-> q]
    BY <1>1, <1>3, <1>4, WholeIs
  <1>6. q \in Seq(Bytes) /\ line \in Seq(Characters) /\ (~valve => y = Text(q) /\ line = Shown(q))
    <2>1. q \in Seq(Bytes) /\ (~valve => q = buffer)
      BY <1>2, <1>3, <1>4, ConcatProperties, ConcatEmptySeq
    <2>2. y = Text(buffer) /\ y \in Seq(Bytes)
      BY <1>2, <1>4, TextIs
    <2> QED
      BY <1>4, <2>1, <2>2, LossyType, Zenon DEF Shown
  <1>7. /\ returned' \in Seq(Seq(Characters)) /\ \A i \in 1..Len(L) : returned'[i] = returned[i]
        /\ y = <<>> => Len(returned') = Len(L)
        /\ y # <<>> => Len(returned') = Len(L) + 1 /\ returned'[Len(returned')] = line
    <2>1. y = <<>> => returned' = returned
      BY <1>3, <1>4
    <2>2. y # <<>> => returned' = Append(returned, line)
      BY <1>3, <1>4
    <2>3. /\ Append(returned, line) \in Seq(Seq(Characters)) /\ Len(Append(returned, line)) = Len(returned) + 1
          /\ \A i \in 1..Len(returned) : Append(returned, line)[i] = returned[i]
          /\ Append(returned, line)[Len(returned) + 1] = line
      BY ONLY <1>3, <1>6, AppendProperties
    <2> QED
      BY ONLY <1>3, <2>1, <2>2, <2>3, Zenon
  <1>8. Gone(L, q)'
    <2>1. Len(buffer') = 0 /\ Len(input') - Len(buffer') = Len(input)
      BY <1>2, <1>3
    <2>2. (Split(input, Len(input) - Len(buffer)) = [lines |-> L, rest |-> q])'
      BY <1>3, <1>5, <2>1
    <2>3. (Len(buffer) <= Len(input))' /\ (Len(buffer) <= MAX_LINE_BYTES)' /\ 1..Len(buffer') = {} /\ <<>> \in Seq(Bytes)
      BY <1>2, <1>3, <2>1
    <2>4. (\A i \in 1..Len(L) : Unharmed(returned[i], L[i]) /\ (~valve => returned[i] = Shown(L[i])))'
      BY <1>3, <1>7, Zenon
    <2> QED
      BY ONLY <1>2, <1>3, <1>6, <1>7, <2>2, <2>3, <2>4, Zenon DEF Gone
  <1> QED
    BY <1>6, <1>8, LineInvNext

\* Every step keeps the invariant.
LEMMA LineStep == LineInv /\ [LineNext]_lineVars => LineInv'
  <1> SUFFICES ASSUME LineInv, [LineNext]_lineVars PROVE LineInv'
    OBVIOUS
  <1>1. CASE \E chunk \in UNION {[1..n -> Bytes] : n \in 0..MaxChunk} : Push(chunk)
    BY <1>1, PushKeeps
  <1>2. CASE Drain
    BY <1>2, DrainKeeps
  <1>3. CASE PushReturns
    BY <1>3, PushReturnsKeeps
  <1>4. CASE Flush
    BY <1>4, FlushKeeps
  <1>5. CASE UNCHANGED lineVars
    BY <1>5, Zenon DEF LineInv, lineVars
  <1> QED
    BY <1>1, <1>2, <1>3, <1>4, <1>5 DEF LineNext

\* The invariant holds.
LEMMA LineSafe == LineSpec => []LineInv
  BY LineInitially, LineStep, PTL DEF LineSpec

\* Between two calls it says what the lines of the whole stream are.
LEMMA InvisibleSuffices == LineInv => ChunkingIsInvisible
  <1> SUFFICES ASSUME LineInv, ~draining, ~valve PROVE ChunkingIsInvisible
    BY DEF ChunkingIsInvisible
  <1>1. PICK L \in Seq(Seq(Bytes)), R \in Seq(Bytes) : Gone(L, R)
    BY LineSome
  <1>2. /\ buffer \in Seq(Bytes) /\ returned \in Seq(Seq(Characters)) /\ \A i \in 1..Len(buffer) : buffer[i] # "LF"
        /\ \A i \in 1..Len(L) : returned[i] = Shown(L[i])
    BY <1>1, Zenon DEF Gone
  <1>3. Whole = [lines |-> L, rest |-> R \o buffer]
    BY <1>1, <1>2, WholeIs DEF Whole
  <1>4. DOMAIN L = 1..Len(L) /\ Len(L) \in Nat /\ \A i \in 1..Len(L) : L[i] \in Seq(Bytes)
    OBVIOUS
  <1>5. PICK whole : whole = [i \in 1..Len(L) |-> Shown(L[i])]
    BY Zenon
  <1>6. whole \in Seq(Seq(Characters)) /\ Len(whole) = Len(L) /\ \A i \in 1..Len(L) : whole[i] = Shown(L[i])
    <2>1. \A i \in 1..Len(L) : Shown(L[i]) \in Seq(Characters)
      BY <1>4, TextIs, LossyType DEF Shown
    <2> QED
      BY <1>4, <1>5, <2>1
  <1>7. CASE ~ended
    <2>1. R = <<>> /\ Len(returned) = Len(L)
      BY <1>1, <1>7, Zenon DEF Gone
    <2>2. returned = whole
      BY <1>2, <1>6, <2>1, SeqEqual
    <2>3. R \o buffer = buffer
      BY <1>2, <2>1, ConcatEmptySeq
    <2> QED
      BY <1>3, <1>4, <1>5, <1>7, <2>2, <2>3 DEF ChunkingIsInvisible
  <1>8. CASE ended
    <2>1. /\ buffer = <<>>
          /\ IF Text(R) = <<>> THEN Len(returned) = Len(L)
             ELSE Len(returned) = Len(L) + 1 /\ returned[Len(returned)] = Shown(R)
      BY <1>1, <1>8, Zenon DEF Gone
    <2>2. R \o buffer = R
      BY <2>1, ConcatEmptySeq
    <2>3. Text(R) = <<>> => returned = whole
      BY <1>2, <1>6, <2>1, SeqEqual
    <2>4. Text(R) # <<>> => returned = Append(whole, Shown(R))
      <3> SUFFICES ASSUME Text(R) # <<>> PROVE returned = Append(whole, Shown(R))
        OBVIOUS
      <3>1. Len(returned) = Len(L) + 1 /\ returned[Len(L) + 1] = Shown(R) /\ Shown(R) \in Seq(Characters)
        BY <2>1, TextIs, LossyType DEF Shown
      <3>2. /\ Append(whole, Shown(R)) \in Seq(Seq(Characters)) /\ Len(Append(whole, Shown(R))) = Len(L) + 1
            /\ Append(whole, Shown(R))[Len(L) + 1] = Shown(R)
            /\ \A i \in 1..Len(L) : Append(whole, Shown(R))[i] = whole[i]
        BY ONLY <1>4, <1>6, <3>1, AppendProperties
      <3>3. \A i \in 1..Len(L) + 1 : returned[i] = Append(whole, Shown(R))[i]
        <4>1. \A i \in 1..Len(L) + 1 : i \in 1..Len(L) \/ i = Len(L) + 1
          BY <1>4
        <4> QED
          BY ONLY <1>2, <1>6, <3>1, <3>2, <4>1, Zenon
      <3>4. PICK n \in Nat : n = Len(L) + 1
        BY <1>4
      <3>5. Len(returned) = n /\ Len(Append(whole, Shown(R))) = n /\ \A i \in 1..n : returned[i] = Append(whole, Shown(R))[i]
        BY ONLY <3>1, <3>2, <3>3, <3>4
      <3> QED
        BY ONLY <1>2, <3>2, <3>5, SeqEqual
    <2> QED
      BY <1>3, <1>4, <1>5, <1>8, <2>2, <2>3, <2>4, Zenon DEF ChunkingIsInvisible
  <1> QED
    BY <1>7, <1>8

\* And what became of each.
LEMMA SufferSuffices == LineInv => OnlyLongLinesSuffer
  <1> SUFFICES ASSUME LineInv, ~draining PROVE OnlyLongLinesSuffer
    BY DEF OnlyLongLinesSuffer
  <1>1. PICK L \in Seq(Seq(Bytes)), R \in Seq(Bytes) : Gone(L, R)
    BY LineSome
  <1>2. /\ Len(buffer) <= MAX_LINE_BYTES /\ \A i \in 1..Len(buffer) : buffer[i] # "LF"
        /\ Len(returned) = Len(L) \/ (ended /\ Len(returned) = Len(L) + 1)
        /\ \A i \in 1..Len(L) : Unharmed(returned[i], L[i])
    BY <1>1, Zenon DEF Gone
  <1>3. Whole.lines = L
    BY <1>1, <1>2, WholeIs DEF Whole
  <1>4. DOMAIN L = 1..Len(L) /\ Len(L) \in Nat
    OBVIOUS
  <1>5. Len(returned) - Len(L) \in (IF ended THEN 0..1 ELSE {0})
    <2>1. CASE Len(returned) = Len(L)
      BY ONLY <1>4, <2>1
    <2>2. CASE ended /\ Len(returned) = Len(L) + 1
      BY ONLY <1>4, <2>2
    <2> QED
      BY <1>2, <2>1, <2>2
  <1> QED
    BY <1>2, <1>3, <1>4, <1>5, Zenon DEF OnlyLongLinesSuffer

\* However the provider's bytes are cut into chunks, and whatever the limit: as long
\* as no partial line was dropped, push and flush return the texts of the stream's lines,
\* in order and without their ends, and the buffer holds the beginning of the next one.
THEOREM ChunksDoNotShow == LineSpec => []ChunkingIsInvisible
  BY LineSafe, InvisibleSuffices, PTL

\* The safety valve of push bounds the buffer between two chunks, and a stream of any
\* lines and chunks loses to it nothing but the heads of lines beyond the limit.
THEOREM LongLinesOnly == LineSpec => []OnlyLongLinesSuffer
  BY LineSafe, SufferSuffices, PTL
=============================================================================
