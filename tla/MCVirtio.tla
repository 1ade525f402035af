------------------------------- MODULE MCVirtio -------------------------------
EXTENDS Virtio

(* A request is a chain of 3 descriptors on blk, 2 on gpu and 1 on tx. *)
MCChainLength == [tx |-> 1, gpu |-> 2, blk |-> 3]

(* The second block device offers too few descriptors for a request. *)
MCQueueSizes ==
  {[tx |-> 2, rx |-> 2, gpu |-> 2, blk |-> 4], [tx |-> 1, rx |-> 1, gpu |-> 4, blk |-> 2]}
=============================================================================
