----------------------------- MODULE MemService -----------------------------
(***************************************************************************)
(* What a memory promises the caches: every load is answered once, all     *)
(* loads of a line that wait together are answered together, and not       *)
(* before the first of them could have been sent.                          *)
(***************************************************************************)
EXTENDS Naturals

CONSTANTS Line

VARIABLES
  waiting,  \* waiting[a]: the loads of the line, as records with `id` and `at`
  log       \* the answers, as records with `id`, `at` and `done`

Init == waiting = [a \in Line |-> {}] /\ log = {}

Ids(loads) == {r.id : r \in loads}

Ask(a, r) ==
  /\ r.id \in Nat /\ r.at \in Nat
  /\ r.id \notin Ids(log) \cup UNION {Ids(waiting[b]) : b \in Line}
  /\ waiting' = [waiting EXCEPT ![a] = @ \cup {r}]
  /\ UNCHANGED log

(***************************************************************************)
(* The lines of a set are answered at the same time.                       *)
(***************************************************************************)
Answer(lines, done) ==
  /\ \A a \in lines : \E r \in waiting[a] : r.at <= done
  /\ waiting' = [a \in Line |-> IF a \in lines THEN {} ELSE waiting[a]]
  /\ log' = log \cup {[id |-> r.id, at |-> r.at, done |-> done] :
                        r \in UNION {waiting[a] : a \in lines}}

AskSome == \E a \in Line : \E r \in waiting'[a] : Ask(a, r)
AnswerSome == \E a \in SUBSET Line : \E l \in log' : Answer(a, l.done)

Spec == Init /\ [][AskSome \/ AnswerSome]_<<waiting, log>>
=============================================================================
