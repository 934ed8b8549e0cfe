--------------------------- MODULE MCPipelineFeed ---------------------------
(* Instances of PipelineFeed for TLC. *)
EXTENDS PipelineFeed

CONSTANTS i1, t1, t2, e

MCInstruments == {i1}
MCTops == {t1, t2}
MCPayloads == {e}
=============================================================================
