---------------------------- MODULE CodexResponse ----------------------------
(***************************************************************************)
(* The accumulator of a streamed response (codex_response.rs): chunks go   *)
(* into a line buffer, each complete line is taken out and, if it carries  *)
(* an event, changes the summary of the response.                          *)
(*                                                                         *)
(* A body is a sequence of lines.  Each line has three pieces, the first   *)
(* and the second half of its text and its newline, so a chunk is a number *)
(* of pieces and may end anywhere in a line.  Lines are taken out from the *)
(* front only, so line_buffer is determined by two numbers: `taken`, the   *)
(* lines that are out, and `received`, the pieces that came in.            *)
(***************************************************************************)
EXTENDS Integers, SequencesExt

CONSTANT None  \* Option::None

ASSUME NoneAssumption == None \notin Int

Pieces == 3

\* What a line can be: a JSON event with its `type`, data that is not JSON,
\* the end marker, an empty line, or a line without the "data:" prefix.
TerminalEvents == {"completed", "failed", "incomplete"}
Events == TerminalEvents \cup {"created", "item", "text", "input", "unhandled"}
IsData(line) == line.kind \in Events \cup {"malformed", "done"}

NoUsage == [input |-> 0, cached |-> 0, output |-> 0, reasoning |-> 0, total |-> 0]

NewSummary ==
  [http_status |-> None, status |-> "unknown", response_id |-> None,
   served_model |-> None, output_text |-> <<>>, tools |-> <<>>,
   usage |-> NoUsage, error_message |-> None, incomplete_reason |-> None]

NewBuffer == [taken |-> 0, received |-> 0]

\* or(a, b) of two options.
OrElse(a, b) == IF a # None THEN a ELSE b

\* apply_response_metadata: the first id and the first model stay.
ApplyMetadata(acc, line) ==
  [acc EXCEPT !.response_id = OrElse(@, line.id),
              !.served_model = OrElse(@, line.model)]

\* apply_headers: a model header comes before every event.
ApplyHeaders(acc, status, model) ==
  [acc EXCEPT !.http_status = OrElse(status, @),
              !.served_model = OrElse(model, @)]

\* tool_entry: the place of a tool call, a new one at the end.
ToolEntry(tools, id) ==
  LET known == SelectInSeq(tools, LAMBDA t : t.id = id) IN
  IF known # 0 THEN [tools |-> tools, at |-> known]
  ELSE [tools |-> Append(tools, [id |-> id, name |-> None, input |-> <<>>]),
        at |-> Len(tools) + 1]

\* apply_output_item: a complete input replaces what the deltas collected.
ApplyOutputItem(acc, line) ==
  LET entry == ToolEntry(acc.tools, line.tool) IN
  [acc EXCEPT !.tools =
     [entry.tools EXCEPT
        ![entry.at].name = OrElse(line.name, @),
        ![entry.at].input = IF line.text # None THEN <<line.text>> ELSE @]]

\* response.custom_tool_call_input.delta: one more piece of input.
ApplyInput(acc, line) ==
  LET entry == ToolEntry(acc.tools, line.tool) IN
  [acc EXCEPT !.tools =
     [entry.tools EXCEPT ![entry.at].input = Append(@, line.text)]]

\* fill_text_from_response_if_needed
FillText(acc, line) ==
  [acc EXCEPT !.output_text =
     IF @ = <<>> /\ line.text # None THEN <<line.text>> ELSE @]

\* apply_usage: a usage object replaces the numbers as a whole.
ApplyUsage(acc, line) ==
  [acc EXCEPT !.usage = IF line.usage # None THEN line.usage ELSE @]

\* response.completed, response.failed, response.incomplete
ApplyTerminal(acc, line) ==
  [FillText(ApplyUsage(ApplyMetadata(acc, line), line), line) EXCEPT
     !.status = line.kind,
     !.error_message = IF line.kind = "failed" THEN line.reason ELSE @,
     !.incomplete_reason = IF line.kind = "incomplete" THEN line.reason ELSE @]

ProcessEvent(acc, line) ==
  CASE line.kind = "created" -> ApplyMetadata(acc, line)
    [] line.kind = "item" -> ApplyOutputItem(acc, line)
    [] line.kind = "text" -> [acc EXCEPT !.output_text = Append(@, line.text)]
    [] line.kind = "input" -> ApplyInput(acc, line)
    [] line.kind \in TerminalEvents -> ApplyTerminal(acc, line)
    [] OTHER -> acc

\* The events of lines from..to, one after the other.
ProcessLines(acc, body, from, to) ==
  LET upTo[i \in (from - 1)..to] ==
        IF i < from THEN acc ELSE ProcessEvent(upTo[i - 1], body[i])
  IN upTo[to]

\* The complete lines in the buffer once n pieces are in.
Complete(buffer, n) == (buffer.taken + 1)..(n \div Pieces)

\* The line at which the loop over the buffer ends: the first malformed one
\* returns early, `?`, and leaves what is behind it in the buffer.
LastTaken(buffer, body, n) ==
  LET bad == {i \in Complete(buffer, n) : body[i].kind = "malformed"}
  IN IF bad # {} THEN Min(bad)
     ELSE IF Complete(buffer, n) # {} THEN n \div Pieces ELSE buffer.taken

\* Mutation: the line that a chunk ends in is dropped from the buffer.
BufferAfterDropping(buffer, body, count) ==
  LET n == buffer.received + count
      last == LastTaken(buffer, body, n)
  IN [received |-> n, taken |-> IF last * Pieces < n THEN last + 1 ELSE last]

\* process_chunk of the next `count` pieces: what it leaves in the buffer, and
\* the summary after the events of the lines it took out.
BufferAfter(buffer, body, count) ==
  LET n == buffer.received + count
  IN [received |-> n, taken |-> LastTaken(buffer, body, n)]

SummaryAfter(acc, buffer, body, count) ==
  ProcessLines(acc, body, buffer.taken + 1,
               LastTaken(buffer, body, buffer.received + count))

\* finish: all that is left is one line.  It begins with the text of the line
\* after `taken`.  Without the prefix it is ignored; with it, it is JSON only
\* if that text is whole and nothing but blank lines follows.
BufferEmpty(buffer) == buffer.received <= buffer.taken * Pieces
TextOf(i) == (i - 1) * Pieces + 2
FirstLeft(buffer) == buffer.taken + 1
RestIsBlank(buffer, body) ==
  \A i \in DOMAIN body :
    (FirstLeft(buffer) < i /\ (i - 1) * Pieces < buffer.received)
      => body[i].kind = "blank"

FinishFails(buffer, body) ==
  /\ ~BufferEmpty(buffer)
  /\ IsData(body[FirstLeft(buffer)])
  /\ \/ body[FirstLeft(buffer)].kind = "malformed"
     \/ buffer.received < TextOf(FirstLeft(buffer))
     \/ ~RestIsBlank(buffer, body)
     \/ /\ body[FirstLeft(buffer)].kind = "done"
        /\ buffer.received > TextOf(FirstLeft(buffer))

Finish(acc, buffer, body) ==
  IF BufferEmpty(buffer) \/ ~IsData(body[FirstLeft(buffer)]) THEN acc
  ELSE ProcessEvent(acc, body[FirstLeft(buffer)])
=============================================================================
