------------------------------ MODULE ArpCache ------------------------------
(***************************************************************************)
(* ArpCache (src/network/arp.cpp): a hash map whose entries hold iterators *)
(* into a list that is kept in the order of use, front first.  One thread  *)
(* uses a cache.                                                           *)
(*                                                                         *)
(* An iterator is the list node it points to.  Nodes are allocated by      *)
(* push_front, keep their identity under splice, and may be allocated      *)
(* again once they are erased.                                             *)
(***************************************************************************)
EXTENDS Naturals, SequencesExt

CONSTANTS
  Ips,        \* ip addresses, the keys
  Macs,       \* mac addresses
  Capacity,   \* capacity_limit
  Positions,  \* list nodes
  NoMac       \* {false, ""}

\* The constructor throws when the capacity is 0.
ASSUME ArpAssumption ==
  /\ Capacity \in Nat \ {0}
  /\ Ips # {}
  /\ NoMac \notin Macs

VARIABLES
  cache_map,   \* ip -> [mac, pos]: a CacheNode
  usage_list,  \* the nodes of the list, most recently used first
  key,         \* node -> the ip stored in it
  ret          \* what the latest get() or invalidate() returned

vars == <<cache_map, usage_list, key, ret>>

Init ==
  /\ cache_map = <<>>
  /\ usage_list = <<>>
  /\ key = [p \in Positions |-> CHOOSE ip \in Ips : TRUE]
  /\ ret = NoMac

\* The list without the node that an iterator points to.
Unlinked(pos) == RemoveAt(usage_list, CHOOSE i \in 1..Len(usage_list) : usage_list[i] = pos)

\* splice(begin(), usage_list, list_position)
Spliced(pos) == <<pos>> \o Unlinked(pos)

-----------------------------------------------------------------------------
\* Mutated form of GetHit: the list is left alone.
GetHitWithoutSplice(ip) ==
  /\ ip \in DOMAIN cache_map
  /\ ret' = cache_map[ip].mac
  /\ UNCHANGED <<cache_map, usage_list, key>>

GetHit(ip) ==
  /\ ip \in DOMAIN cache_map
  /\ usage_list' = Spliced(cache_map[ip].pos)
  /\ ret' = cache_map[ip].mac
  /\ UNCHANGED <<cache_map, key>>

GetMiss(ip) ==
  /\ ip \notin DOMAIN cache_map
  /\ ret' = NoMac
  /\ UNCHANGED <<cache_map, usage_list, key>>

PutUpdate(ip, mac) ==
  /\ ip \in DOMAIN cache_map
  /\ cache_map' = [cache_map EXCEPT ![ip].mac = mac]
  /\ usage_list' = Spliced(cache_map[ip].pos)
  /\ UNCHANGED <<key, ret>>

\* Mutated form of Saturated: > instead of >=.
SaturatedLate == Cardinality(DOMAIN cache_map) > Capacity

Saturated == Cardinality(DOMAIN cache_map) >= Capacity

\* What eviction leaves of the map and of the list: the key is read from the
\* back of the list before the node goes.
Kept == IF Saturated THEN Restrict(cache_map, DOMAIN cache_map \ {key[Last(usage_list)]}) ELSE cache_map
KeptList == IF Saturated THEN Front(usage_list) ELSE usage_list

PutInsert(ip, mac) ==
  /\ ip \notin DOMAIN cache_map
  /\ \E pos \in Positions \ Range(KeptList) :
       /\ usage_list' = <<pos>> \o KeptList
       /\ key' = [key EXCEPT ![pos] = ip]
       /\ cache_map' = [j \in DOMAIN Kept \union {ip} |->
                          IF j = ip THEN [mac |-> mac, pos |-> pos] ELSE Kept[j]]
  /\ UNCHANGED ret

Invalidate(ip) ==
  /\ ip \in DOMAIN cache_map
  /\ usage_list' = Unlinked(cache_map[ip].pos)
  /\ cache_map' = Restrict(cache_map, DOMAIN cache_map \ {ip})
  /\ ret' = TRUE
  /\ UNCHANGED key

InvalidateMiss(ip) ==
  /\ ip \notin DOMAIN cache_map
  /\ ret' = FALSE
  /\ UNCHANGED <<cache_map, usage_list, key>>

Next ==
  \E ip \in Ips :
    \/ GetHit(ip) \/ GetMiss(ip)
    \/ Invalidate(ip) \/ InvalidateMiss(ip)
    \/ \E mac \in Macs : PutUpdate(ip, mac) \/ PutInsert(ip, mac)

Spec == Init /\ [][Next]_vars

-----------------------------------------------------------------------------
(* Types.                                                                  *)
TypeOK ==
  /\ DOMAIN cache_map \subseteq Ips
  /\ \A ip \in DOMAIN cache_map : cache_map[ip] \in [mac : Macs, pos : Positions]
  /\ usage_list \in Seq(Positions)
  /\ key \in [Positions -> Ips]
  /\ ret \in Macs \union {NoMac} \union BOOLEAN

(* Map and list describe the same entries: every entry's iterator points   *)
(* to the one list node that holds its key, no node is left over, and the  *)
(* capacity is kept, after any sequence of put, get and invalidate.        *)
Agreement ==
  /\ IsInjective(usage_list)
  /\ \A ip \in DOMAIN cache_map :
       cache_map[ip].pos \in Range(usage_list) /\ key[cache_map[ip].pos] = ip
  /\ \A pos \in Range(usage_list) :
       key[pos] \in DOMAIN cache_map /\ cache_map[key[pos]].pos = pos
  /\ IsFiniteSet(DOMAIN cache_map) /\ Cardinality(DOMAIN cache_map) <= Capacity

(* The inductive invariant: types, and the agreement of map and list.      *)
CacheInv == TypeOK /\ Agreement

(* The refinement mapping: the entries, and the order of their nodes.      *)
Entries == [ip \in DOMAIN cache_map |-> cache_map[ip].mac]
Order(s) == UNION {{<<s[i], s[j]>> : j \in i+1..Len(s)} : i \in 1..Len(s)}
Newer == {<<key[p[1]], key[p[2]]>> : p \in Order(usage_list)}

Lru == INSTANCE LruCache WITH entries <- Entries, newer <- Newer

(* The cache is a bounded LRU map: what is evicted is always the entry     *)
(* that was used least recently, and a hit returns the latest put.         *)
ImplementsLru == Lru!Spec
=============================================================================
