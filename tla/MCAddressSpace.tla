---------------------------- MODULE MCAddressSpace ----------------------------
EXTENDS AddressSpace

Bank(b, n) == [base |-> b, size |-> n]

(* No bank; one unaligned bank; a small bank before the large one; two banks *)
(* of equal size, of which the last is taken.                               *)
MCMemoryMaps ==
  {<<>>, <<Bank(3, 8)>>, <<Bank(2, 2), Bank(5, 9)>>, <<Bank(2, 6), Bank(10, 6)>>}

(* Inside the first bank, inside a later one, or elsewhere. *)
MCKernelEnds == {0, 7, 11}
=============================================================================
