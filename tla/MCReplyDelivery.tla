--------------------------- MODULE MCReplyDelivery ---------------------------
(* A small instance of ReplyDelivery for TLC: all replies of up to three      *)
(* paragraphs, from empty ones to some that fill three messages.              *)
EXTENDS ReplyDelivery

Lengths == 0..9

SmallAnswers == UNION {[1..n -> Lengths] : n \in 1..3}
=============================================================================
