------------------------------- MODULE LruSet -------------------------------
(***************************************************************************)
(* One set of a Siena cache: CACHE_SET::LRU<WRITE_BACK, WRITE_ALLOCATE>,   *)
(* driven by CACHE::lookup_evict_update (src/engine/ar_cache.h), which is  *)
(* the only caller.  A tag is the whole line address (address >> shift),   *)
(* so it also stands for the block's `addr`.                               *)
(***************************************************************************)
EXTENDS Integers, FiniteSets

CONSTANTS
  Tags,    \* the tags of the addresses the program accesses in this set
  Assoc,   \* _associativity
  MaxTimestamp, \* bound of the model on the 64-bit _timestamp
  NoTag    \* "no line"

(***************************************************************************)
(* Every tag of the program differs from 0, the tag a fresh block carries: *)
(* data are placed from address 4096 on.                                   *)
(***************************************************************************)
ASSUME LruConstants ==
  /\ Tags \subseteq Nat \ {0}
  /\ Assoc \in Nat \ {0}
  /\ MaxTimestamp \in Nat
  /\ NoTag \notin Nat

Ways == 0 .. Assoc - 1

VARIABLES
  blocks,     \* _blocks
  timestamp,  \* _timestamp
  result      \* the CACHEBLOCK the last lookup_evict_update returned

lruVars == <<blocks, timestamp, result>>

Block == [valid : BOOLEAN, dirty : BOOLEAN, tag : Nat, timestamp : 0 .. MaxTimestamp]

(***************************************************************************)
(* lookup_evict_update overloads the tag of what it returns: 1 for a hit,  *)
(* 0 for a miss.                                                           *)
(***************************************************************************)
Result == [hit : BOOLEAN, valid : BOOLEAN, dirty : BOOLEAN, addr : Nat \cup {NoTag}]

(***************************************************************************)
(* The constructor clears valid, dirty and tag and leaves a block's        *)
(* timestamp as it finds it.                                               *)
(***************************************************************************)
LruInit ==
  /\ blocks \in [Ways -> [valid : {FALSE}, dirty : {FALSE}, tag : {0},
                          timestamp : 0 .. MaxTimestamp]]
  /\ timestamp = 0
  /\ result = [hit |-> FALSE, valid |-> FALSE, dirty |-> FALSE, addr |-> NoTag]

(***************************************************************************)
(* The search of Find_and_Update ignores the valid bit and the last match  *)
(* wins.                                                                   *)
(***************************************************************************)
IsMatch(i, t) ==
  /\ blocks[i].tag = t
  /\ \A j \in Ways : blocks[j].tag = t => j <= i

NoMatch(t) == \A i \in Ways : blocks[i].tag # t

(***************************************************************************)
(* The way Evict_and_Update picks: the first invalid one, else the first   *)
(* of those with the least timestamp.                                      *)
(***************************************************************************)
FirstInvalid(i) ==
  /\ ~blocks[i].valid
  /\ \A j \in Ways : j < i => blocks[j].valid

Oldest(i) ==
  /\ \A j \in Ways : blocks[j].valid
  /\ \A j \in Ways : /\ blocks[i].timestamp <= blocks[j].timestamp
                     /\ j < i => blocks[i].timestamp < blocks[j].timestamp

OldestOrInvalid(i) == \A j \in Ways : blocks[i].timestamp <= blocks[j].timestamp  \* mutant
IsVictim(i) == FirstInvalid(i) \/ Oldest(i)

(***************************************************************************)
(* The clock is advanced once per access.                                  *)
(***************************************************************************)
NewTime == timestamp + 1

(***************************************************************************)
(* Find_and_Update finds the tag.  lookup_evict_update then fills `tag`    *)
(* and `valid` of the record it returns and leaves `dirty` and `addr`      *)
(* uninitialised: whatever the stack holds.                                *)
(***************************************************************************)
AccessHit(t, isWrite) ==
  /\ timestamp < MaxTimestamp
  /\ timestamp' = NewTime
  /\ \E i \in Ways :
       /\ IsMatch(i, t)
       /\ blocks' = [blocks EXCEPT ![i] =
            [valid |-> isWrite \/ blocks[i].valid, dirty |-> isWrite \/ blocks[i].dirty,
             tag |-> t, timestamp |-> NewTime]]
       /\ \E d \in BOOLEAN, a \in Tags \cup {NoTag} :
            result' = [hit |-> TRUE, valid |-> isWrite \/ blocks[i].valid,
                       dirty |-> d, addr |-> a]

(***************************************************************************)
(* Find_and_Update fails and Evict_and_Update replaces a block; the caller *)
(* gets the block as it was.                                               *)
(***************************************************************************)
AccessMiss(t, isWrite) ==
  /\ timestamp < MaxTimestamp
  /\ timestamp' = NewTime
  /\ NoMatch(t)
  /\ \E i \in Ways :
       /\ IsVictim(i)
       /\ blocks' = [blocks EXCEPT ![i] =
            [valid |-> TRUE, dirty |-> isWrite, tag |-> t, timestamp |-> NewTime]]
       /\ result' = [hit |-> FALSE, valid |-> blocks[i].valid, dirty |-> blocks[i].dirty,
                     addr |-> IF blocks[i].valid THEN blocks[i].tag ELSE NoTag]

LruNext ==
  \E t \in Tags, isWrite \in BOOLEAN : AccessHit(t, isWrite) \/ AccessMiss(t, isWrite)

LruSpec == LruInit /\ [][LruNext]_lruVars

-----------------------------------------------------------------------------
(***************************************************************************)
(* Type correctness: the blocks, the clock and the returned record of      *)
(* CACHE_SET::LRU keep their shape.                                        *)
(***************************************************************************)
LruTypeOK ==
  /\ blocks \in [Ways -> Block]
  /\ timestamp \in 0 .. MaxTimestamp
  /\ result \in Result

ValidWays == {i \in Ways : blocks[i].valid}

(***************************************************************************)
(* No line is held twice: the search of Find_and_Update, which keeps the   *)
(* last of several matches, never has two to choose from, so no update     *)
(* goes to a stale copy.                                                   *)
(***************************************************************************)
UniqueTags ==
  \A i, j \in ValidWays : blocks[i].tag = blocks[j].tag => i = j

(***************************************************************************)
(* The blocks in use have distinct timestamps, so the least one, which     *)
(* Evict_and_Update takes, is the least recently used line whatever order  *)
(* the ways are scanned in; none is ahead of the clock, and a block that   *)
(* is not in use is clean and carries the tag no program address has.      *)
(***************************************************************************)
RecencyOrder ==
  /\ \A i, j \in ValidWays : blocks[i].timestamp = blocks[j].timestamp => i = j
  /\ \A i \in ValidWays : blocks[i].timestamp <= timestamp /\ blocks[i].tag \in Tags
  /\ \A i \in Ways \ ValidWays : blocks[i].tag = 0 /\ ~blocks[i].dirty

(***************************************************************************)
(* The set implements the least-recently-used policy.                      *)
(***************************************************************************)
residentTags == {blocks[i].tag : i \in ValidWays}
dirtyTags == {blocks[i].tag : i \in {w \in ValidWays : blocks[w].dirty}}
olderTags ==
  {p \in residentTags \X residentTags :
     \E i, j \in ValidWays :
        /\ blocks[i].tag = p[1]
        /\ blocks[j].tag = p[2]
        /\ blocks[i].timestamp < blocks[j].timestamp}
outcomeOfLast ==
  [hit |-> result.hit,
   victim |-> IF result.hit \/ ~result.valid THEN NoTag ELSE result.addr,
   writeback |-> ~result.hit /\ result.valid /\ result.dirty]

Policy == INSTANCE LruPolicy WITH
  resident <- residentTags, dirty <- dirtyTags,
  older <- olderTags, outcome <- outcomeOfLast

(***************************************************************************)
(* Every behaviour of CACHE_SET::LRU is one of the policy: a hit displaces *)
(* nothing, a miss displaces nothing while a way is free and otherwise the *)
(* line used longest ago, and the caller learns of it and of its dirty bit *)
(* exactly when there is something to write back.                          *)
(***************************************************************************)
ImplementsPolicy == Policy!PolicySpec
=============================================================================
