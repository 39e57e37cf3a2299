-------------------------- MODULE MCInsertPipeline --------------------------
(***************************************************************************)
(* InsertPipeline with the batches a few partitions, or the windows of one *)
(* sweep, decode.                                                          *)
(***************************************************************************)
EXTENDS InsertPipelineInv

Plain(size)   == [size |-> size, nulls |-> FALSE, kept |-> TRUE]
Checked(size) == [size |-> size, nulls |-> TRUE, kept |-> TRUE]
LeftOut       == [size |-> 0, nulls |-> TRUE, kept |-> FALSE]

\* Three partitions: one of batches of different sizes, one of a batch larger
\* than a ceiling of 3, one whose last batch has NULLs.
ThreePartitions ==
  [sweep |-> FALSE, keyed |-> 0,
   batches |-> <<<<Plain(1), Plain(2), Plain(1)>>, <<Plain(4), LeftOut>>,
                 <<Plain(2), Checked(1), Plain(1)>>>>]

\* A sweep of six keys in windows, and the batch of its IS NULL window.
OneSweep ==
  [sweep |-> TRUE, keyed |-> 6,
   batches |-> <<<<Plain(1), Checked(1), LeftOut, Plain(2), Plain(1), Checked(1),
                 Checked(2)>>>>]

\* A sweep of a key that is never NULL, one of whose batches is larger than
\* the ceiling.
KeyedSweep ==
  [sweep |-> TRUE, keyed |-> 6,
   batches |-> <<<<Checked(1), Plain(1), Plain(1), Plain(4), Checked(2), Plain(1)>>>>]

SeveralReads == {ThreePartitions, OneSweep, KeyedSweep}
=============================================================================
