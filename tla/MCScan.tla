------------------------------- MODULE MCScan -------------------------------
(***************************************************************************)
(* Scan on a small instance: a range of two pages, which is a chunk, and   *)
(* one of one page, which is less than a chunk, with a gap between them.   *)
(***************************************************************************)
EXTENDS Scan

TwoAndOne      == {1, 2}
TwoAndOneBase  == <<1, 4>>
TwoAndOneSize  == <<2, 1>>
=============================================================================
