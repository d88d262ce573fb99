------------------------------ MODULE MCEngine ------------------------------
(***************************************************************************)
(* Engine for TLC.                                                         *)
(***************************************************************************)
EXTENDS Engine

OpT(type, comp, prev, next, lat, line) ==
  [type |-> type, comp |-> comp, prev |-> prev, next |-> next, lat |-> lat, line |-> line]

(***************************************************************************)
(* Loads of two lines answered by the memory, the first of them loaded     *)
(* four times; a hit that waits for the first load, and a store that waits *)
(* for the last.                                                           *)
(***************************************************************************)
Row == << OpT("LOAD", 0, 0, <<5>>, 0, 0), OpT("LOAD", 0, 0, <<>>, 0, 0),
          OpT("LOAD", 0, 0, <<>>, 0, 0), OpT("LOAD", 0, 0, <<>>, 0, 0),
          OpT("LOAD", 0, 0, <<2>>, 0, 1), OpT("LOAD", 0, 1, <<>>, 2, 2),
          OpT("STORE", 1, 1, <<>>, 0, 0) >>
=============================================================================
