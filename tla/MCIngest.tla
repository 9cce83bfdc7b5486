------------------------------- MODULE MCIngest -------------------------------
(* One bank account in two months: a transaction, a statement row that looks   *)
(* like it at first, and the contents five and nine of month 1, late of month  *)
(* 2, and zero, whose amount is zero.                                          *)
EXTENDS Ingest

CONSTANTS five, nine, late, zero, r1

MCContents == {five, nine, late}
MCWithZero == {five, nine, late, zero}
MCZero     == {zero}

MCMonthOf    == [x \in Contents |-> IF x \in {five, nine} THEN 1 ELSE 2]
MCRowContent == [r \in Rows |-> five]
=============================================================================
