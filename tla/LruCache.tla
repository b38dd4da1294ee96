------------------------------ MODULE LruCache ------------------------------
(***************************************************************************)
(* What ArpCache promises (README.md: "ARP cache simulation with bounded   *)
(* LRU eviction"): a map of at most Capacity entries that makes room by    *)
(* giving up the entry that was used least recently.  The order of use is  *)
(* a relation: <<j, k>> \in newer when j was used after k.                 *)
(***************************************************************************)
EXTENDS Naturals, FiniteSets

CONSTANTS
  Ips,        \* the keys
  Macs,       \* the values
  Capacity,   \* capacity_limit
  NoMac       \* what get() of an absent key returns

VARIABLES
  entries,    \* key -> value, for the keys that are present
  newer,      \* the order of use
  ret         \* what the latest get() or invalidate() returned

vars == <<entries, newer, ret>>

Keys == DOMAIN entries

Init ==
  /\ entries = <<>>
  /\ newer = {}
  /\ ret = NoMac

\* The relation without k, and with k as the most recently used of keys.
Without(k) == {p \in newer : p[1] # k /\ p[2] # k}
Touched(k, keys) == Without(k) \union ({k} \X (keys \ {k}))

Hit(k) ==
  /\ k \in Keys
  /\ ret' = entries[k]
  /\ newer' = Touched(k, Keys)
  /\ UNCHANGED entries

Miss(k) ==
  /\ k \notin Keys
  /\ ret' = NoMac
  /\ UNCHANGED <<entries, newer>>

Update(k, mac) ==
  /\ k \in Keys
  /\ entries' = [entries EXCEPT ![k] = mac]
  /\ newer' = Touched(k, Keys)
  /\ UNCHANGED ret

Insert(k, mac) ==
  /\ k \notin Keys
  /\ Cardinality(Keys) < Capacity
  /\ entries' = [j \in Keys \union {k} |-> IF j = k THEN mac ELSE entries[j]]
  /\ newer' = Touched(k, Keys)
  /\ UNCHANGED ret

\* The entry that is newer than no other makes room.
Replace(k, mac) ==
  /\ k \notin Keys
  /\ Cardinality(Keys) = Capacity
  /\ \E old \in Keys :
       /\ \A j \in Keys : <<old, j>> \notin newer
       /\ entries' = [j \in (Keys \ {old}) \union {k} |-> IF j = k THEN mac ELSE entries[j]]
       /\ newer' = Without(old) \union ({k} \X (Keys \ {old}))
  /\ UNCHANGED ret

Remove(k) ==
  /\ k \in Keys
  /\ entries' = [j \in Keys \ {k} |-> entries[j]]
  /\ newer' = Without(k)
  /\ ret' = TRUE

RemoveNothing(k) ==
  /\ k \notin Keys
  /\ ret' = FALSE
  /\ UNCHANGED <<entries, newer>>

Next ==
  \E k \in Ips :
    \/ Hit(k) \/ Miss(k)
    \/ Remove(k) \/ RemoveNothing(k)
    \/ \E mac \in Macs : Update(k, mac) \/ Insert(k, mac) \/ Replace(k, mac)

Spec == Init /\ [][Next]_vars
=============================================================================
