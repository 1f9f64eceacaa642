---------------------------- MODULE MCBankPlanner ----------------------------
(***************************************************************************)
(* Windows at the bottom, at an odd address and at the very top of the     *)
(* address space; geometries that are refused; two banks, and three.       *)
(***************************************************************************)
EXTENDS BankPlanner

Geometry(window, capacity, ids) ==
  [window_address |-> window, capacity |-> capacity, bank_ids |-> ids]

MCGeometries ==
  {Geometry(w, 5, <<7, 3>>) : w \in {0, 1, 11, 12}}
  \cup {Geometry(2, 4, <<1, 2, 3>>), Geometry(0, 0, <<1>>), Geometry(0, 4, <<>>),
        Geometry(0, 4, <<3, 3>>)}

MCImages == [bank_id : {3, 7}, size : {0, 3, 5, 6}, sealed : BOOLEAN]

MCCandidates == [size : {0, 1, 2, 3, 5}, align : {1, 2, 3, 4}] \cup {[size |-> 1, align |-> 0]}
=============================================================================
