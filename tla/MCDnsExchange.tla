--------------------------- MODULE MCDnsExchange ----------------------------
(* Bytes of two values, every stream of up to MaxStream of them, messages  *)
(* of every length that two such bytes can tell.                           *)
EXTENDS DnsExchange, SequencesExt

CONSTANT MaxStream

MCStreams == BoundedSeq(0 .. 1, MaxStream)

MCQueries == {<<>>, <<1>>, <<0, 1>>, <<1, 0, 1>>}
=============================================================================
