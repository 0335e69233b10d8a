--------------------------- MODULE MCChatService ---------------------------
(* Small instances of ChatService for TLC. *)
EXTENDS ChatServiceMail, TLC, SequencesExt

CONSTANTS a, b, c1, c2

Uses_ab == c1 :> {a} @@ c2 :> {b}
Uses_aa == c1 :> {a} @@ c2 :> {a}
Uses_move == c1 :> {a, b} @@ c2 :> {a}
Uses_sw == c1 :> {a, b} @@ c2 :> {b}

(* Every user is a member of the one group, in the order MySQL returns. *)
Rows == [u \in User |-> SelectSeq(SetToSeq(User), LAMBDA v : v # u)]
ServerSymmetry == Permutations(Server)
NoRows == [u \in User |-> <<>>]
=============================================================================
