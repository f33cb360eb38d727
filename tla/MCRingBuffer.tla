---------------------------- MODULE MCRingBuffer ----------------------------
(***************************************************************************)
(* RingBuffer with four slots (three elements fit), two elements and        *)
(* blocks of up to three: long enough to wrap round inside a block, to fill *)
(* the buffer exactly and to be refused half way through.                   *)
(***************************************************************************)
EXTENDS RingBuffer

CONSTANTS a, b

MCData == {a, b}
MCBlocks == {<<>>, <<a>>, <<b>>, <<a, b>>, <<b, a, a>>}
=============================================================================
