---------------------------- MODULE MCTokenizer ----------------------------
(* An instance of Tokenizer for TLC. *)
EXTENDS Tokenizer, TLC

CONSTANTS o1, o2

MCOrders   == {o1, o2}
MCSymmetry == Permutations(MCOrders)

(* What the next steps depend on. At a commit nothing is left of the batch  *)
(* before it; in a batch only its cause so far and the prices before it     *)
(* matter, and not even those once it cleared the book; nothing follows the *)
(* end of the tool.                                                         *)
MCView ==
  IF stage \in {"written", "failed"} THEN <<stage>>
  ELSE <<stage, orders, levels,
         IF batch.closed THEN <<>>
         ELSE IF batch.clear THEN <<"clear">>
         ELSE <<Cause(mask), [s \in Sides |-> PriceOf(prev[s])]>> >>

(* Every size has the bucket that the source gives it. *)
ASSUME \A n \in 0 .. 300 :
  LET b == DecodeSize(EncodeSize(n))
  IN  b <= n /\ (b < 128 => n < 2 * b \/ n = b)
=============================================================================
