----------------------------- MODULE LruPolicy -----------------------------
(***************************************************************************)
(* What one set of a Siena cache promises its caller, without blocks,      *)
(* timestamps or a search order: it holds at most Assoc lines, a new line  *)
(* displaces nothing while there is room and otherwise the line whose last *)
(* use is the oldest, and the caller is told of every line displaced and   *)
(* of whether it was dirty.  LruSet (the code of CACHE_SET::LRU) is shown  *)
(* to implement this specification.                                        *)
(***************************************************************************)
EXTENDS Integers, FiniteSets

CONSTANTS
  Tags,   \* the line tags that map to this set
  Assoc,  \* the associativity
  NoTag   \* "nothing was displaced"

VARIABLES
  resident,  \* the tags the set holds
  dirty,     \* the resident tags whose line was written since it came in
  older,     \* <<t, u>> \in older: t was last used before u
  outcome    \* what the last access told its caller

policyVars == <<resident, dirty, older, outcome>>

NothingYet == [hit |-> FALSE, victim |-> NoTag, writeback |-> FALSE]

PolicyInit ==
  /\ resident = {}
  /\ dirty = {}
  /\ older = {}
  /\ outcome = NothingYet

(***************************************************************************)
(* After t is used, every other line of `lines` is older than t and the    *)
(* order among the others is what it was.                                  *)
(***************************************************************************)
OrderAfterUse(lines, t) ==
  LET others == lines \ {t}
  IN  (older \cap (others \X others)) \cup (others \X {t})

Hit(t, isWrite) ==
  /\ t \in resident
  /\ dirty' = IF isWrite THEN dirty \cup {t} ELSE dirty
  /\ older' = OrderAfterUse(resident, t)
  /\ outcome' = [hit |-> TRUE, victim |-> NoTag, writeback |-> FALSE]
  /\ UNCHANGED resident

(***************************************************************************)
(* A miss while the set has room, and a miss that displaces the oldest.    *)
(***************************************************************************)
Fill(t, isWrite) ==
  /\ t \notin resident
  /\ Cardinality(resident) < Assoc
  /\ resident' = resident \cup {t}
  /\ dirty' = IF isWrite THEN dirty \cup {t} ELSE dirty
  /\ older' = OrderAfterUse(resident, t)
  /\ outcome' = NothingYet

Replace(t, isWrite) ==
  /\ t \notin resident
  /\ Cardinality(resident) = Assoc
  /\ \E v \in resident :
       /\ \A u \in resident \ {v} : <<v, u>> \in older
       /\ resident' = (resident \ {v}) \cup {t}
       /\ dirty' = (dirty \ {v}) \cup (IF isWrite THEN {t} ELSE {})
       /\ older' = OrderAfterUse(resident \ {v}, t)
       /\ outcome' = [hit |-> FALSE, victim |-> v, writeback |-> v \in dirty]

PolicyNext ==
  \E t \in Tags, isWrite \in BOOLEAN :
    Hit(t, isWrite) \/ Fill(t, isWrite) \/ Replace(t, isWrite)

PolicySpec == PolicyInit /\ [][PolicyNext]_policyVars
=============================================================================
