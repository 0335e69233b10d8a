------------------------------ MODULE Framing -------------------------------
(***************************************************************************)
(* JSON texts on a TCP stream.  A stream is a sequence of units, a message *)
(* is one unit or several, and a read takes any number of the units that   *)
(* have arrived, with no regard to where messages begin and end.           *)
(*                                                                         *)
(* What json::parse makes of what was read is in JsonText.                 *)
(***************************************************************************)
EXTENDS Naturals, Sequences

(* The text of m in n units. *)
Units(m, n) == [i \in 1..n |-> [msg |-> m, part |-> i, of |-> n]]

Stream(M) == Seq([msg : M, part : Nat \ {0}, of : Nat \ {0}])

Drop(stream, n) == SubSeq(stream, n + 1, Len(stream))
Take(stream, n) == SubSeq(stream, 1, n)

(***************************************************************************)
(* json::parse accepts one object and nothing else: a text that is cut     *)
(* off, begins in the middle of a message, or has another one behind it    *)
(* throws, and so does the empty text.                                     *)
(***************************************************************************)
Parses(text) == text # <<>> /\ text = Units(text[1].msg, text[1].of)

(* A text whose messages end with a zero byte: parse stops at the first.   *)
ParsesFirst(text) ==
  /\ text # <<>> /\ text[1].of <= Len(text)
  /\ Parses(Take(text, text[1].of))
=============================================================================
