--------------------------- MODULE MCExtProcStream ---------------------------
(***************************************************************************)
(* Two tasks, one session, and responses short enough for every split into *)
(* chunks: one whose total is not the sum, one with a malformed line, one  *)
(* with a wide tool input, and an error.  Two exchanges at once and one    *)
(* after them are the fewest that repeat a tool event before and after its *)
(* time to live.                                                           *)
(***************************************************************************)
EXTENDS ExtProcStream

Text(words, user) == [words |-> words, user |-> user, preamble |-> FALSE]
Body(json) ==
  [json |-> json, zstd |-> json, encoding |-> "zstd", model |-> "m", input |-> <<Text("p", TRUE)>>,
   client_id |-> None, metadata_cwd |-> None, client_cwd |-> "d",
   preamble_cwd |-> None]
Headers(id) == [session_id |-> None, session_dash_id |-> id, client_request_id |-> None]
Kind(json, auxiliary) ==
  [body |-> Body(json), headers |-> Headers("s"), auxiliary |-> auxiliary]
Kinds == {Kind(TRUE, FALSE), Kind(FALSE, FALSE), Kind(TRUE, TRUE)}

Line == [kind |-> "created", id |-> None, model |-> None, tool |-> None,
         name |-> None, text |-> None, usage |-> None, reason |-> None]
Item(text) == [Line EXCEPT !.kind = "item", !.tool = "t", !.name = "sh", !.text = text]
Completed(input, cached, total) ==
  [Line EXCEPT !.kind = "completed", !.id = "i", !.model = "m",
     !.usage = [input |-> input, cached |-> cached, output |-> 1,
                reasoning |-> 0, total |-> total]]
Malformed == [Line EXCEPT !.kind = "malformed"]

Reply200(lines, total) ==
  [status |-> 200, model |-> None, lines |-> lines, total |-> total]
Answers ==
  {Reply200(<<Item("ls"), Completed(1, 0, 1)>>, 6),
   Reply200(<<Malformed, Completed(1, 2, 2)>>, 5),
   Reply200(<<Item("wide")>>, 2),
   [status |-> 500, model |-> None, lines |-> <<>>, total |-> 1]}

Prices == [input |-> 1, cache_read |-> 1, output |-> 2]
PriceFile ==
  [named |-> TRUE, readable |-> TRUE, trusted |-> TRUE,
   exact |-> ("m" :> Prices), family |-> <<>>]
NoPrices == <<>>
Families == ("m" :> None)

Symmetry == Permutations(Stream)
=============================================================================
