------------------------------ MODULE MCContext ------------------------------
(***************************************************************************)
(* Context for TLC: kernels of a few operations.                           *)
(***************************************************************************)
EXTENDS Context

OpT(type, comp, prev, next, lat, line) ==
  [type |-> type, comp |-> comp, prev |-> prev, next |-> next, lat |-> lat, line |-> line]

(***************************************************************************)
(* A load feeds two loads, one of which feeds a store that computes first. *)
(***************************************************************************)
Gather == << OpT("LOAD", 0, 0, <<1, 2>>, 0, 0), OpT("LOAD", 1, 1, <<2>>, 0, 1),
             OpT("LOAD", 0, 1, <<>>, 2, 1), OpT("STORE", 2, 1, <<>>, 0, 0) >>
=============================================================================
