----------------------------- MODULE EventStream -----------------------------
(***************************************************************************)
(* The framing of server-sent events in A2AClient::streamCall: chunks of   *)
(* the response body, cut wherever the network cut them, are appended to a *)
(* buffer and complete events are taken off its front.                     *)
(*                                                                         *)
(* A text is a sequence of line contents and line ends.  "data" is a data: *)
(* line, "end" a data: line with a terminal task, "note" any other line    *)
(* (event:, id:, a comment, a [DONE]); LF and CR are the characters.  The  *)
(* buffer only ever grows at its end, so a cut inside a line is the same   *)
(* as one after it.  An event is the sequence of its data lines; JSON that *)
(* does not parse is dropped by the code and is not sent here.             *)
(***************************************************************************)
EXTENDS Naturals, Sequences, FiniteSetsExt

Symbols == {"data", "end", "note", "LF", "CR"}

IsData(s) == s \in {"data", "end"}

\* A loop over a text: what is left of it without carriage returns.
\* pending.erase(std::remove(..., '\r'))
Unix(text) ==
    LET kept[k \in 0..Len(text)] ==
            IF k = 0 THEN <<>>
            ELSE IF text[k] = "CR" THEN kept[k - 1] ELSE Append(kept[k - 1], text[k])
    IN kept[Len(text)]

\* The loop of getline() over a block of lines, which gathers its data: lines.
DataLines(block) ==
    LET data[k \in 0..Len(block)] ==
            IF k = 0 THEN <<>>
            ELSE IF IsData(block[k]) /\ (k = 1 \/ block[k - 1] = "LF")
                 THEN Append(data[k - 1], block[k]) ELSE data[k - 1]
    IN data[Len(block)]

\* Where an empty line follows a line.
Boundaries(buffer) ==
    {k \in 1..(Len(buffer) - 1) : buffer[k] = "LF" /\ buffer[k + 1] = "LF"}

\* The events of blocks: those with data.
Plus(events, data) == IF data = <<>> THEN events ELSE Append(events, data)

\* One turn of the loop of consume(): the event before the first boundary is cut
\* off the front; a block without data is skipped.
Turn(drained) ==
    LET k == Min(Boundaries(drained.rest))
    IN IF Boundaries(drained.rest) = {} THEN drained
       ELSE [events |-> Plus(drained.events, DataLines(SubSeq(drained.rest, 1, k - 1))),
             rest |-> SubSeq(drained.rest, k + 2, Len(drained.rest))]

\* The loop ends when there is no boundary, at the latest when every symbol is gone.
Drained(events, buffer) ==
    LET turns[k \in 0..Len(buffer)] ==
            IF k = 0 THEN [events |-> events, rest |-> buffer] ELSE Turn(turns[k - 1])
    IN turns[Len(buffer)]

Fresh == [pending |-> <<>>, delivered |-> <<>>, stopped |-> FALSE]

\* A terminal task in one data line; in a longer event such a line is a fragment.
Ends(event) == event = <<"end">>

ConsumeAfresh(stream, chunk) ==
    IF stream.stopped THEN stream
    ELSE LET d == Drained(stream.delivered, Unix(chunk))
         IN [pending |-> d.rest, delivered |-> d.events,
             stopped |-> \E k \in DOMAIN d.events : Ends(d.events[k])]
\* consume(): nothing more is read once the callback has asked to stop, which it
\* does when a task has ended; the events of the same chunk are still handed on.
Consume(stream, chunk) ==
    IF stream.stopped THEN stream
    ELSE LET d == Drained(stream.delivered, Unix(stream.pending \o chunk))
         IN [pending |-> d.rest, delivered |-> d.events,
             stopped |-> \E k \in DOMAIN d.events : Ends(d.events[k])]

-----------------------------------------------------------------------------

\* What a text says, symbol by symbol and without a buffer: the events so far, the
\* data lines of the block that is open, and whether a line begins here.  An empty
\* line closes the block.
Blank == [events |-> <<>>, block |-> <<>>, begins |-> TRUE]

Seen(said, s) ==
    CASE s = "CR" -> said
      [] s = "LF" -> IF said.begins
                     THEN [events |-> Plus(said.events, said.block), block |-> <<>>, begins |-> TRUE]
                     ELSE [said EXCEPT !.begins = TRUE]
      [] OTHER -> [events |-> said.events, begins |-> FALSE,
                   block |-> IF IsData(s) /\ said.begins THEN Append(said.block, s) ELSE said.block]

Reading(from, text) ==
    LET said[k \in 0..Len(text)] == IF k = 0 THEN from ELSE Seen(said[k - 1], text[k])
    IN said[Len(text)]

EventsOf(text) == Reading(Blank, text).events
=============================================================================
