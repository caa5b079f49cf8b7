----------------------------- MODULE MCPageRows -----------------------------
(***************************************************************************)
(* PageRows for TLC: pages of 32 bytes of which executeInsert wants 17     *)
(* free, so that rows of up to 7 bytes are small.                          *)
(***************************************************************************)
EXTENDS PageRows

MCInt(n) == [tag |-> INT, value |-> << 0, 0, 0, n >>]
MCString(s) == [tag |-> VARCHAR, value |-> s]

\* Of 7, 24 and 25 bytes.  A page with the first and one of the others is full or
\* nearly so; once it is saved, the last byte of the row makes the usedBytes in the
\* next header too large for a page, or negative.
MCLarge(n, last) == << MCInt(3), MCString([i \in 1 .. n |-> 66]), MCInt(last) >>
MCRows == {<< MCString(<< 65, 66, 67 >>) >>, MCLarge(10, 1), MCLarge(11, 200)}
=============================================================================
