----------------------- MODULE MCConcurrentDatabase -----------------------
(***************************************************************************)
(* A small instance of ConcurrentDatabase: one list of three versions, the *)
(* first two of which hold the same.                                       *)
(***************************************************************************)
EXTENDS ConcurrentDatabase

MCWidth == [n \in Names |-> 4]
MCContent == [n \in Names |-> << {1, 3}, {1, 3}, {2, 3} >>]

\* The first version, received at time 1.
MCLoaded ==
  {[n \in Names |-> ListState(HashList(4, {1, 3}), 1, <<4, {1, 3}>>, 0, 1, TRUE)]}
===========================================================================
