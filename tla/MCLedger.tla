------------------------------ MODULE MCLedger -------------------------------
(***************************************************************************)
(* Two sessions and two days, a Monday and the first of a month, so that   *)
(* the week reaches back behind the month.                                 *)
(***************************************************************************)
EXTENDS Ledger

CONSTANTS s1, s2

Price(c, s, t) == [cost |-> c, source |-> s, trusted |-> t]
Stored == [stored |-> Price(4, "file", TRUE), estimate |-> Price(6, "builtin", FALSE),
           input |-> 10, cached |-> 2]
Legacy == [Stored EXCEPT !.stored = None]
Charges == {Stored}
Old == <<[session |-> s1, day |-> 0, charge |-> Legacy]>>

Bill(s, at, amount) == [session |-> s, at |-> at, amount |-> amount, valid |-> TRUE]
Batches ==
  {<<>>, <<Bill(s1, 0, 30), Bill(s2, None, 20)>>,
   <<Bill(s1, 1, 40), [Bill(s2, 1, 50) EXCEPT !.valid = FALSE]>>}

Prices == [source |-> "builtin", trusted |-> FALSE]
WeekOf == [d \in 0..1 |-> 0]
MonthOf == [d \in 0..1 |-> d]
=============================================================================
