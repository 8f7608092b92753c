-------------------------- MODULE MCConsumerGroup --------------------------
(***************************************************************************)
(* ConsumerGroup for TLC.                                                  *)
(***************************************************************************)
EXTENDS ConsumerGroup

CONSTANTS m1, m2

SecondRecord == {<<1, 1>>}
=============================================================================
