------------------------------- MODULE LRUCache -------------------------------
(***************************************************************************)
(* The LRUCache of pow.cpp: m_list, front first, with the value m_map      *)
(* keeps for each key.  Every operation holds m_mutex from beginning to    *)
(* end, so each is one step of its caller.                                 *)
(***************************************************************************)
EXTENDS Sequences, Integers

(* Entry(key, value) is one node of m_list with its m_map entry. *)
Entry(key, val) == [key |-> key, value |-> val]

keys(cache) == {cache[i].key : i \in DOMAIN cache}

contains(cache, key) == key \in keys(cache)

(* The iterator that m_map keeps for a key that is present. *)
Node(cache, key) == CHOOSE i \in DOMAIN cache : cache[i].key = key

(* The value of a key that is present. *)
value(cache, key) == cache[Node(cache, key)].value

(* m_list.splice(m_list.begin(), m_list, it) *)
Spliced(cache, it) ==
  [i \in 1..Len(cache) |-> IF i = 1 THEN cache[it] ELSE IF i <= it THEN cache[i - 1] ELSE cache[i]]

(* get and try_get; on an absent key they change nothing. *)
Touched(cache, key) ==
  IF contains(cache, key) THEN Spliced(cache, Node(cache, key)) ELSE cache

(* A key that is present gets the new value and comes first; a new one     *)
(* pushes the last entry out of a full cache.                              *)
insert(cache, capacity, key, val) ==
  IF contains(cache, key)
  THEN [Spliced(cache, Node(cache, key)) EXCEPT ![1] = Entry(key, val)]
  ELSE LET pushed == <<Entry(key, val)>> \o cache
       IN  IF Len(pushed) > capacity THEN SubSeq(pushed, 1, Len(pushed) - 1) ELSE pushed

(* What a cache may be: every key once, and never more than capacity. *)
LRU(Keys, Values, capacity) ==
  {s \in Seq([key : Keys, value : Values]) :
     Len(s) <= capacity /\ \A i, j \in 1..Len(s) : s[i].key = s[j].key => i = j}

(* No key has another value after a step than before. *)
Stable(cache, next) ==
  \A e \in keys(cache) \cap keys(next) : value(next, e) = value(cache, e)
===============================================================================
