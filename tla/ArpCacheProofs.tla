--------------------------- MODULE ArpCacheProofs ---------------------------
(***************************************************************************)
(* For any keys, capacity and allocation of list nodes: map and list of    *)
(* ArpCache always describe the same entries.                              *)
(***************************************************************************)
EXTENDS ArpCache, FiniteSetTheorems, TLAPS

-----------------------------------------------------------------------------
(* Taking an element out of a sequence: what remains, by index.            *)
LEMMA RemoveAtIndex ==
  ASSUME NEW S, NEW s \in Seq(S), NEW i \in 1..Len(s)
  PROVE  /\ RemoveAt(s, i) \in Seq(S)
         /\ Len(RemoveAt(s, i)) = Len(s) - 1
         /\ \A k \in 1..Len(s)-1 : RemoveAt(s, i)[k] = IF k < i THEN s[k] ELSE s[k+1]
<1> DEFINE front == SubSeq(s, 1, i-1)
           back  == SubSeq(s, i+1, Len(s))
<1>1. /\ front \in Seq(S) /\ Len(front) = i - 1
      /\ \A k \in 1..i-1 : front[k] = s[k]
  OBVIOUS
<1>2. /\ back \in Seq(S) /\ Len(back) = Len(s) - i
      /\ \A k \in 1..Len(s)-i : back[k] = s[i+k]
  OBVIOUS
<1> HIDE DEF front, back
<1>3. /\ front \o back \in Seq(S)
      /\ Len(front \o back) = Len(s) - 1
  BY <1>1, <1>2
<1>4. ASSUME NEW k \in 1..Len(s)-1
      PROVE  (front \o back)[k] = IF k < i THEN s[k] ELSE s[k+1]
  <2>1. (front \o back)[k] = IF k <= Len(front) THEN front[k] ELSE back[k - Len(front)]
    BY <1>1, <1>2
  <2>2. CASE k < i
    BY <1>1, <2>1, <2>2
  <2>3. CASE k >= i
    <3>1. k - (i - 1) \in 1..Len(s)-i /\ i + (k - (i - 1)) = k + 1
      BY <2>3
    <3>2. back[k - (i - 1)] = s[k + 1]
      BY <1>2, <3>1
    <3> QED
      BY <1>1, <2>1, <2>3, <3>2
  <2>4. k < i \/ k >= i
    OBVIOUS
  <2> QED
    BY <2>2, <2>3, <2>4, Zenon
<1> QED
  BY <1>3, <1>4 DEF RemoveAt, front, back

(* Putting an element before a sequence: what results, by index.           *)
LEMMA ConsIndex ==
  ASSUME NEW S, NEW s \in Seq(S), NEW e \in S
  PROVE  /\ <<e>> \o s \in Seq(S)
         /\ Len(<<e>> \o s) = Len(s) + 1
         /\ (<<e>> \o s)[1] = e
         /\ \A k \in 2..Len(s)+1 : (<<e>> \o s)[k] = s[k-1]
OBVIOUS

(* Taking an element out of an injective sequence leaves the others.       *)
LEMMA RemoveAtRange ==
  ASSUME NEW S, NEW s \in Seq(S), IsInjective(s), NEW i \in 1..Len(s)
  PROVE  /\ IsInjective(RemoveAt(s, i))
         /\ Range(RemoveAt(s, i)) = Range(s) \ {s[i]}
<1> DEFINE r == RemoveAt(s, i)
<1>1. /\ r \in Seq(S) /\ Len(r) = Len(s) - 1
      /\ \A k \in 1..Len(s)-1 : r[k] = IF k < i THEN s[k] ELSE s[k+1]
  BY RemoveAtIndex
<1> HIDE DEF r
<1>2. \A a, b \in 1..Len(s) : s[a] = s[b] => a = b
  BY DEF IsInjective
<1>3. IsInjective(r)
  <2> SUFFICES ASSUME NEW a \in 1..Len(s)-1, NEW b \in 1..Len(s)-1, r[a] = r[b] PROVE a = b
    BY <1>1 DEF IsInjective
  <2>1. \A k \in 1..Len(s)-1 : k \in 1..Len(s) /\ k + 1 \in 1..Len(s)
    OBVIOUS
  <2>2. CASE a < i /\ b < i
    BY <1>1, <1>2, <2>1, <2>2
  <2>3. CASE a < i /\ b >= i
    <3>1. r[a] = s[a] /\ r[b] = s[b + 1]
      BY <1>1, <2>3
    <3>2. a = b + 1
      BY <1>2, <2>1, <3>1
    <3> QED
      BY <2>3, <3>2
  <2>4. CASE a >= i /\ b < i
    <3>1. r[a] = s[a + 1] /\ r[b] = s[b]
      BY <1>1, <2>4
    <3>2. a + 1 = b
      BY <1>2, <2>1, <3>1
    <3> QED
      BY <2>4, <3>2
  <2>5. CASE a >= i /\ b >= i
    <3>1. s[a + 1] = s[b + 1]
      BY <1>1, <2>5
    <3> QED
      BY <1>2, <2>1, <3>1
  <2> QED
    BY <2>2, <2>3, <2>4, <2>5
<1>4. ASSUME NEW x \in Range(r) PROVE x \in Range(s) \ {s[i]}
  <2>1. PICK a \in 1..Len(s)-1 : x = r[a]
    BY <1>1 DEF Range
  <2>2. PICK c \in 1..Len(s) : x = s[c] /\ c # i
    BY <1>1, <2>1
  <2> QED
    BY <1>2, <2>2 DEF Range
<1>5. ASSUME NEW x \in Range(s) \ {s[i]} PROVE x \in Range(r)
  <2>1. PICK a \in 1..Len(s) : x = s[a] /\ a # i
    BY <1>5 DEF Range
  <2>2. CASE a < i
    BY <1>1, <2>1, <2>2 DEF Range
  <2>3. CASE a > i
    <3>1. a - 1 \in 1..Len(s)-1 /\ ~(a - 1 < i) /\ r[a - 1] = s[a - 1 + 1]
      BY <1>1, <2>1, <2>3
    <3> QED
      BY <1>1, <2>1, <3>1 DEF Range
  <2> QED
    BY <2>1, <2>2, <2>3
<1> QED
  BY <1>3, <1>4, <1>5 DEF r

(* Putting a new element before an injective sequence adds it.             *)
LEMMA ConsRange ==
  ASSUME NEW S, NEW s \in Seq(S), IsInjective(s), NEW e \in S, e \notin Range(s)
  PROVE  /\ IsInjective(<<e>> \o s)
         /\ Range(<<e>> \o s) = Range(s) \union {e}
<1> DEFINE r == <<e>> \o s
<1>1. /\ r \in Seq(S) /\ Len(r) = Len(s) + 1 /\ r[1] = e
      /\ \A k \in 2..Len(s)+1 : r[k] = s[k-1]
  BY ConsIndex
<1> HIDE DEF r
<1>2. \A a, b \in 1..Len(s) : s[a] = s[b] => a = b
  BY DEF IsInjective
<1>3. \A a \in 1..Len(s) : s[a] # e
  BY DEF Range
<1>4. \A k \in 2..Len(s)+1 : k - 1 \in 1..Len(s)
  OBVIOUS
<1>10. ASSUME NEW k \in 1..Len(s)+1, k # 1 PROVE r[k] \in Range(s) /\ r[k] # e
  <2>1. k \in 2..Len(s)+1 /\ k - 1 \in 1..Len(s)
    BY <1>10
  <2>2. r[k] = s[k-1]
    BY <1>1, <2>1
  <2> QED
    BY <1>3, <2>1, <2>2 DEF Range
<1>5. IsInjective(r)
  <2> SUFFICES ASSUME NEW a \in 1..Len(s)+1, NEW b \in 1..Len(s)+1, r[a] = r[b] PROVE a = b
    BY <1>1 DEF IsInjective
  <2>1. CASE a = 1 \/ b = 1
    BY <1>1, <1>10, <2>1
  <2>2. CASE a # 1 /\ b # 1
    <3>1. a - 1 \in 1..Len(s) /\ b - 1 \in 1..Len(s) /\ s[a - 1] = s[b - 1]
      BY <1>1, <1>4, <2>2
    <3> QED
      BY <1>2, <3>1
  <2> QED
    BY <2>1, <2>2
<1>6. ASSUME NEW x \in Range(r) PROVE x \in Range(s) \union {e}
  <2>1. PICK k \in 1..Len(s)+1 : x = r[k]
    BY <1>1 DEF Range
  <2> QED
    BY <1>1, <1>10, <2>1
<1>7. ASSUME NEW a \in 1..Len(s) PROVE s[a] \in Range(r)
  <2>1. a + 1 \in 2..Len(s)+1 /\ r[a + 1] = s[a + 1 - 1]
    BY <1>1
  <2> QED
    BY <1>1, <2>1 DEF Range
<1>8. e \in Range(r)
  BY <1>1 DEF Range
<1>9. Range(s) \subseteq Range(r)
  BY <1>7 DEF Range
<1> QED
  BY <1>5, <1>6, <1>8, <1>9 DEF r

(* Dropping the last element of an injective sequence leaves the others.   *)
LEMMA FrontRange ==
  ASSUME NEW S, NEW s \in Seq(S), IsInjective(s), s # <<>>
  PROVE  /\ Front(s) \in Seq(S)
         /\ Len(Front(s)) = Len(s) - 1
         /\ \A k \in 1..Len(s)-1 : Front(s)[k] = s[k]
         /\ IsInjective(Front(s))
         /\ Last(s) = s[Len(s)] /\ Len(s) \in 1..Len(s)
         /\ Last(s) \in Range(s)
         /\ Range(Front(s)) = Range(s) \ {Last(s)}
<1> DEFINE r == Front(s)
<1>1. /\ r \in Seq(S) /\ Len(r) = Len(s) - 1
      /\ \A k \in 1..Len(s)-1 : r[k] = s[k]
  <2>1. Len(s) - 1 \in 0..Len(s)
    OBVIOUS
  <2>2. ASSUME NEW n \in 0..Len(s)
        PROVE  /\ SubSeq(s, 1, n) \in Seq(S) /\ Len(SubSeq(s, 1, n)) = n
               /\ \A k \in 1..n : SubSeq(s, 1, n)[k] = s[k]
    OBVIOUS
  <2> QED
    BY <2>1, <2>2 DEF Front
<1> HIDE DEF r
<1>2. \A a, b \in 1..Len(s) : s[a] = s[b] => a = b
  BY DEF IsInjective
<1>3. Last(s) = s[Len(s)] /\ Len(s) \in 1..Len(s) /\ Last(s) \in Range(s)
  BY DEF Last, Range
<1>4. \A k \in 1..Len(s)-1 : k \in 1..Len(s) /\ k # Len(s)
  OBVIOUS
<1>5. IsInjective(r)
  <2> SUFFICES ASSUME NEW a \in 1..Len(s)-1, NEW b \in 1..Len(s)-1, r[a] = r[b] PROVE a = b
    BY <1>1 DEF IsInjective
  <2>1. s[a] = s[b]
    BY <1>1
  <2> QED
    BY <1>2, <1>4, <2>1
<1>6. ASSUME NEW x \in Range(r) PROVE x \in Range(s) \ {Last(s)}
  <2>1. PICK a \in 1..Len(s)-1 : x = r[a]
    BY <1>1 DEF Range
  <2>2. x = s[a] /\ a \in 1..Len(s) /\ a # Len(s)
    BY <1>1, <1>4, <2>1
  <2>3. x # Last(s)
    BY <1>2, <1>3, <2>2
  <2> QED
    BY <2>2, <2>3 DEF Range
<1>7. ASSUME NEW x \in Range(s) \ {Last(s)} PROVE x \in Range(r)
  <2>1. PICK a \in 1..Len(s) : x = s[a] /\ a # Len(s)
    BY <1>3, <1>7 DEF Range
  <2>2. a \in 1..Len(s)-1
    BY <2>1
  <2> QED
    BY <1>1, <2>1, <2>2 DEF Range
<1> QED
  BY <1>1, <1>3, <1>5, <1>6, <1>7 DEF r

-----------------------------------------------------------------------------
(* Unlinking or splicing the node of an entry: which nodes remain.         *)
LEMMA Relinked ==
  ASSUME CacheInv, NEW ip \in DOMAIN cache_map
  PROVE  LET pos == cache_map[ip].pos IN
         /\ Unlinked(pos) \in Seq(Positions)
         /\ IsInjective(Unlinked(pos))
         /\ Range(Unlinked(pos)) = Range(usage_list) \ {pos}
         /\ Spliced(pos) \in Seq(Positions)
         /\ IsInjective(Spliced(pos))
         /\ Range(Spliced(pos)) = Range(usage_list)
<1> DEFINE pos == cache_map[ip].pos
           i == CHOOSE n \in 1..Len(usage_list) : usage_list[n] = pos
<1>1. /\ usage_list \in Seq(Positions) /\ IsInjective(usage_list)
      /\ pos \in Positions /\ pos \in Range(usage_list)
  BY DEF CacheInv, TypeOK, Agreement
<1>2. i \in 1..Len(usage_list) /\ usage_list[i] = pos
  BY <1>1 DEF Range
<1>3. Unlinked(pos) = RemoveAt(usage_list, i)
  BY DEF Unlinked
<1> HIDE DEF i, pos
<1>4. /\ Unlinked(pos) \in Seq(Positions)
      /\ IsInjective(Unlinked(pos))
      /\ Range(Unlinked(pos)) = Range(usage_list) \ {pos}
  BY <1>1, <1>2, <1>3, RemoveAtIndex, RemoveAtRange
<1>5. /\ Spliced(pos) \in Seq(Positions)
      /\ IsInjective(Spliced(pos))
      /\ Range(Spliced(pos)) = Range(Unlinked(pos)) \union {pos}
  BY <1>1, <1>4, ConsIndex, ConsRange DEF Spliced
<1> QED
  BY <1>1, <1>4, <1>5 DEF pos

(* What eviction leaves agrees, and there is room for one more entry.      *)
LEMMA Evicted ==
  ASSUME CacheInv
  PROVE  /\ DOMAIN Kept \subseteq DOMAIN cache_map
         /\ \A j \in DOMAIN Kept : Kept[j] = cache_map[j] /\ Kept[j].pos \in Range(KeptList)
         /\ KeptList \in Seq(Positions) /\ IsInjective(KeptList)
         /\ Range(KeptList) \subseteq Range(usage_list)
         /\ \A pos \in Range(KeptList) : key[pos] \in DOMAIN Kept
         /\ IsFiniteSet(DOMAIN Kept) /\ Cardinality(DOMAIN Kept) < Capacity
<1> USE ArpAssumption DEF CacheInv
<1>1. Cardinality(DOMAIN cache_map) \in Nat
  BY FS_CardinalityType DEF Agreement
<1>2. CASE ~Saturated
  BY <1>1, <1>2 DEF Kept, KeptList, Saturated, Agreement, TypeOK
<1>3. CASE Saturated
  <2> DEFINE old == key[Last(usage_list)]
  <2>1. DOMAIN cache_map # {}
    BY <1>1, <1>3, FS_EmptySet DEF Saturated
  <2>2. usage_list # <<>>
    BY <2>1 DEF Agreement, Range
  <2>3. /\ KeptList \in Seq(Positions) /\ IsInjective(KeptList)
        /\ Last(usage_list) \in Range(usage_list)
        /\ Range(KeptList) = Range(usage_list) \ {Last(usage_list)}
    BY <1>3, <2>2, FrontRange DEF KeptList, TypeOK, Agreement
  <2>4. old \in DOMAIN cache_map /\ cache_map[old].pos = Last(usage_list)
    BY <2>3 DEF Agreement
  <2>5. /\ DOMAIN Kept = DOMAIN cache_map \ {old}
        /\ \A j \in DOMAIN Kept : Kept[j] = cache_map[j]
    BY <1>3 DEF Kept, Restrict
  <2>6. IsFiniteSet(DOMAIN Kept) /\ Cardinality(DOMAIN Kept) = Cardinality(DOMAIN cache_map) - 1
    <3>1. IsFiniteSet(DOMAIN cache_map)
      BY DEF Agreement
    <3> HIDE DEF old, CacheInv
    <3>2. /\ IsFiniteSet(DOMAIN cache_map \ {old})
          /\ Cardinality(DOMAIN cache_map \ {old}) = Cardinality(DOMAIN cache_map) - 1
      BY <2>4, <3>1, FS_RemoveElement
    <3> QED
      BY <2>5, <3>2
  <2> HIDE DEF old
  <2>7. \A j \in DOMAIN Kept : Kept[j].pos \in Range(KeptList)
    <3> SUFFICES ASSUME NEW j \in DOMAIN Kept PROVE cache_map[j].pos # Last(usage_list)
      BY <2>3, <2>5 DEF Agreement
    <3> QED
      BY <2>5 DEF Agreement, old
  <2>8. \A pos \in Range(KeptList) : key[pos] \in DOMAIN Kept
    BY <2>3, <2>4, <2>5 DEF Agreement
  <2> QED
    BY <1>1, <2>3, <2>5, <2>6, <2>7, <2>8 DEF Agreement
<1> QED
  BY <1>2, <1>3

-----------------------------------------------------------------------------
(* CacheInv holds initially.                                                   *)
LEMMA IInvInit == Init => CacheInv
<1> SUFFICES ASSUME Init PROVE CacheInv
  OBVIOUS
<1>1. TypeOK
  BY ArpAssumption DEF Init, TypeOK
<1>2. Agreement
  BY FS_EmptySet, ArpAssumption DEF Init, Agreement, IsInjective, Range
<1> QED
  BY <1>1, <1>2 DEF CacheInv

(* Every call preserves CacheInv.                                              *)
LEMMA IInvNext == CacheInv /\ [Next]_vars => CacheInv'
<1> SUFFICES ASSUME CacheInv, [Next]_vars PROVE CacheInv'
  OBVIOUS
<1>1. CASE UNCHANGED vars
  BY <1>1 DEF CacheInv, TypeOK, Agreement, vars
<1>2. ASSUME NEW ip \in Ips, GetHit(ip) PROVE CacheInv'
  <2>1. /\ usage_list' \in Seq(Positions) /\ IsInjective(usage_list')
        /\ Range(usage_list') = Range(usage_list)
    BY <1>2, Relinked DEF GetHit
  <2> QED
    BY <1>2, <2>1 DEF GetHit, CacheInv, TypeOK, Agreement
<1>3. ASSUME NEW ip \in Ips, GetMiss(ip) \/ InvalidateMiss(ip) PROVE CacheInv'
  BY <1>3 DEF GetMiss, InvalidateMiss, CacheInv, TypeOK, Agreement
<1>4. ASSUME NEW ip \in Ips, NEW mac \in Macs, PutUpdate(ip, mac) PROVE CacheInv'
  <2>1. /\ usage_list' \in Seq(Positions) /\ IsInjective(usage_list')
        /\ Range(usage_list') = Range(usage_list)
    BY <1>4, Relinked DEF PutUpdate
  <2>2. /\ DOMAIN cache_map' = DOMAIN cache_map
        /\ \A j \in DOMAIN cache_map : /\ cache_map'[j].pos = cache_map[j].pos
                                       /\ cache_map'[j] \in [mac : Macs, pos : Positions]
    BY <1>4 DEF PutUpdate, CacheInv, TypeOK
  <2>3. key' = key /\ ret' = ret
    BY <1>4 DEF PutUpdate
  <2> QED
    BY <2>1, <2>2, <2>3 DEF CacheInv, TypeOK, Agreement
<1>5. ASSUME NEW ip \in Ips, NEW mac \in Macs, PutInsert(ip, mac) PROVE CacheInv'
  <2>1. PICK pos \in Positions \ Range(KeptList) :
          /\ usage_list' = <<pos>> \o KeptList
          /\ key' = [key EXCEPT ![pos] = ip]
          /\ cache_map' = [j \in DOMAIN Kept \union {ip} |->
                             IF j = ip THEN [mac |-> mac, pos |-> pos] ELSE Kept[j]]
    BY <1>5 DEF PutInsert
  <2>2. ip \notin DOMAIN Kept /\ ret' = ret
    BY <1>5, Evicted DEF PutInsert
  <2>3. /\ usage_list' \in Seq(Positions) /\ IsInjective(usage_list')
        /\ Range(usage_list') = Range(KeptList) \union {pos}
    BY <2>1, Evicted, ConsIndex, ConsRange
  <2>4. /\ IsFiniteSet(DOMAIN cache_map')
        /\ Cardinality(DOMAIN cache_map') <= Capacity
    <3>1. DOMAIN cache_map' = DOMAIN Kept \union {ip}
      BY <2>1
    <3>2. /\ IsFiniteSet(DOMAIN Kept \union {ip})
          /\ Cardinality(DOMAIN Kept \union {ip}) = Cardinality(DOMAIN Kept) + 1
      BY <2>2, Evicted, FS_AddElement
    <3>3. Cardinality(DOMAIN Kept) \in Nat /\ Cardinality(DOMAIN Kept) < Capacity
      BY Evicted, FS_CardinalityType
    <3> QED
      BY <3>1, <3>2, <3>3, ArpAssumption
  <2>5. TypeOK'
    BY <2>1, <2>2, <2>3, Evicted DEF CacheInv, TypeOK
  <2>6. \A j \in DOMAIN cache_map' :
          cache_map'[j].pos \in Range(usage_list') /\ key'[cache_map'[j].pos] = j
    BY <2>1, <2>2, <2>3, Evicted DEF CacheInv, TypeOK, Agreement
  <2>7. \A q \in Range(usage_list') :
          key'[q] \in DOMAIN cache_map' /\ cache_map'[key'[q]].pos = q
    BY <2>1, <2>2, <2>3, Evicted DEF CacheInv, TypeOK, Agreement
  <2> QED
    BY <2>3, <2>4, <2>5, <2>6, <2>7 DEF CacheInv, Agreement
<1>6. ASSUME NEW ip \in Ips, Invalidate(ip) PROVE CacheInv'
  <2>1. /\ ip \in DOMAIN cache_map
        /\ usage_list' \in Seq(Positions) /\ IsInjective(usage_list')
        /\ Range(usage_list') = Range(usage_list) \ {cache_map[ip].pos}
    BY <1>6, Relinked DEF Invalidate
  <2>2. /\ DOMAIN cache_map' = DOMAIN cache_map \ {ip}
        /\ \A j \in DOMAIN cache_map' : cache_map'[j] = cache_map[j]
        /\ key' = key /\ ret' = TRUE
    BY <1>6 DEF Invalidate, Restrict
  <2>3. /\ IsFiniteSet(DOMAIN cache_map')
        /\ Cardinality(DOMAIN cache_map') <= Capacity
    <3>1. IsFiniteSet(DOMAIN cache_map) /\ Cardinality(DOMAIN cache_map) <= Capacity
      BY DEF CacheInv, Agreement
    <3>2. /\ IsFiniteSet(DOMAIN cache_map \ {ip})
          /\ Cardinality(DOMAIN cache_map \ {ip}) = Cardinality(DOMAIN cache_map) - 1
      BY <2>1, <3>1, FS_RemoveElement
    <3>3. Cardinality(DOMAIN cache_map) \in Nat
      BY <3>1, FS_CardinalityType
    <3> QED
      BY <2>2, <3>1, <3>2, <3>3, ArpAssumption
  <2> QED
    BY <2>1, <2>2, <2>3 DEF CacheInv, TypeOK, Agreement
<1> QED
  BY <1>1, <1>2, <1>3, <1>4, <1>5, <1>6 DEF Next

(* Map and list of an ArpCache describe the same entries after any         *)
(* sequence of put, get and invalidate, and the capacity is kept.          *)
THEOREM IInvariant == Spec => []CacheInv
<1>1. Init => CacheInv
  BY IInvInit
<1>2. CacheInv /\ [Next]_vars => CacheInv'
  BY IInvNext
<1> QED
  BY <1>1, <1>2, PTL DEF Spec

-----------------------------------------------------------------------------
(* The order of a sequence's elements relates its elements only.           *)
LEMMA OrderMember ==
  ASSUME NEW S, NEW s \in Seq(S), NEW x, NEW y
  PROVE  <<x, y>> \in Order(s) <=>
           \E a, b \in 1..Len(s) : a < b /\ x = s[a] /\ y = s[b]
<1>1. ASSUME <<x, y>> \in Order(s)
      PROVE  \E a, b \in 1..Len(s) : a < b /\ x = s[a] /\ y = s[b]
  <2>1. PICK a \in 1..Len(s) : <<x, y>> \in {<<s[a], s[j]>> : j \in a+1..Len(s)}
    BY <1>1 DEF Order
  <2>2. PICK b \in a+1..Len(s) : <<x, y>> = <<s[a], s[b]>>
    BY <2>1
  <2>3. b \in 1..Len(s) /\ a < b
    OBVIOUS
  <2> QED
    BY <2>2, <2>3
<1>2. ASSUME NEW a \in 1..Len(s), NEW b \in 1..Len(s), a < b, x = s[a], y = s[b]
      PROVE  <<x, y>> \in Order(s)
  <2>1. b \in a+1..Len(s)
    BY <1>2
  <2>2. <<x, y>> \in {<<s[a], s[j]>> : j \in a+1..Len(s)}
    BY <1>2, <2>1
  <2> QED
    BY <2>2 DEF Order
<1> QED
  BY <1>1, <1>2

(* The members of the order are pairs of elements.                         *)
LEMMA OrderPairs ==
  ASSUME NEW S, NEW s \in Seq(S), NEW p \in Order(s)
  PROVE  p = <<p[1], p[2]>> /\ p[1] \in Range(s) /\ p[2] \in Range(s)
<1>1. PICK a \in 1..Len(s) : p \in {<<s[a], s[j]>> : j \in a+1..Len(s)}
  BY DEF Order
<1>2. PICK b \in a+1..Len(s) : p = <<s[a], s[b]>>
  BY <1>1
<1>3. b \in 1..Len(s)
  OBVIOUS
<1> QED
  BY <1>2, <1>3 DEF Range

(* Taking an element out of an injective sequence takes its pairs out of   *)
(* the order.                                                              *)
LEMMA OrderRemove ==
  ASSUME NEW S, NEW s \in Seq(S), IsInjective(s), NEW i \in 1..Len(s), NEW x, NEW y
  PROVE  <<x, y>> \in Order(RemoveAt(s, i)) <=>
           <<x, y>> \in Order(s) /\ x # s[i] /\ y # s[i]
<1> DEFINE r == RemoveAt(s, i)
<1>1. /\ r \in Seq(S) /\ Len(r) = Len(s) - 1
      /\ \A k \in 1..Len(s)-1 : r[k] = IF k < i THEN s[k] ELSE s[k+1]
  BY RemoveAtIndex
<1> HIDE DEF r
<1>2. \A a, b \in 1..Len(s) : s[a] = s[b] => a = b
  BY DEF IsInjective
<1> DEFINE Old(k) == IF k < i THEN k ELSE k + 1
           New(k) == IF k < i THEN k ELSE k - 1
<1>3. \A k \in 1..Len(s)-1 : Old(k) \in 1..Len(s) /\ Old(k) # i /\ r[k] = s[Old(k)]
  BY <1>1
<1>4. \A k \in 1..Len(s) : k # i => New(k) \in 1..Len(s)-1 /\ Old(New(k)) = k
  OBVIOUS
<1>5. \A a, b \in 1..Len(s)-1 : a < b => Old(a) < Old(b)
  OBVIOUS
<1>6. \A a, b \in 1..Len(s) : a # i /\ b # i /\ a < b => New(a) < New(b)
  OBVIOUS
<1> HIDE DEF Old, New
<1>7. ASSUME <<x, y>> \in Order(r)
      PROVE  <<x, y>> \in Order(s) /\ x # s[i] /\ y # s[i]
  <2>1. \E a, b \in 1..Len(r) : a < b /\ x = r[a] /\ y = r[b]
    BY <1>1, <1>7, OrderMember
  <2>2. PICK a, b \in 1..Len(s)-1 : a < b /\ x = r[a] /\ y = r[b]
    BY <1>1, <2>1
  <2>3. /\ Old(a) \in 1..Len(s) /\ Old(b) \in 1..Len(s) /\ Old(a) < Old(b)
        /\ x = s[Old(a)] /\ y = s[Old(b)] /\ Old(a) # i /\ Old(b) # i
    BY <1>3, <1>5, <2>2
  <2> QED
    BY <1>2, <2>3, OrderMember
<1>8. ASSUME <<x, y>> \in Order(s), x # s[i], y # s[i]
      PROVE  <<x, y>> \in Order(r)
  <2>1. PICK a, b \in 1..Len(s) : a < b /\ x = s[a] /\ y = s[b]
    BY <1>8, OrderMember
  <2>2. a # i /\ b # i
    BY <1>8, <2>1
  <2>3. /\ New(a) \in 1..Len(r) /\ New(b) \in 1..Len(r) /\ New(a) < New(b)
        /\ x = r[New(a)] /\ y = r[New(b)]
    BY <1>1, <1>3, <1>4, <1>6, <2>1, <2>2
  <2> QED
    BY <1>1, <2>3, OrderMember
<1> QED
  BY <1>7, <1>8 DEF r

(* Putting an element before a sequence puts it before all others.         *)
LEMMA OrderCons ==
  ASSUME NEW S, NEW s \in Seq(S), NEW e \in S, NEW x, NEW y
  PROVE  <<x, y>> \in Order(<<e>> \o s) <=>
           <<x, y>> \in Order(s) \/ (x = e /\ y \in Range(s))
<1> DEFINE r == <<e>> \o s
<1>1. /\ r \in Seq(S) /\ Len(r) = Len(s) + 1 /\ r[1] = e
      /\ \A k \in 2..Len(s)+1 : r[k] = s[k-1]
  BY ConsIndex
<1> HIDE DEF r
<1>2. \A k \in 1..Len(s) : k + 1 \in 2..Len(s)+1 /\ k + 1 \in 1..Len(r) /\ r[k + 1] = s[k]
  <2> SUFFICES ASSUME NEW k \in 1..Len(s)
               PROVE  k + 1 \in 2..Len(s)+1 /\ k + 1 \in 1..Len(r) /\ r[k + 1] = s[k]
    OBVIOUS
  <2>1. k + 1 \in 2..Len(s)+1 /\ (k + 1) - 1 = k /\ k + 1 \in 1..Len(r)
    BY <1>1
  <2>2. r[k + 1] = s[(k + 1) - 1]
    BY <1>1, <2>1
  <2> QED
    BY <2>1, <2>2
<1>3. ASSUME <<x, y>> \in Order(r)
      PROVE  <<x, y>> \in Order(s) \/ (x = e /\ y \in Range(s))
  <2>1. PICK a, b \in 1..Len(r) : a < b /\ x = r[a] /\ y = r[b]
    BY <1>1, <1>3, OrderMember
  <2>2. b - 1 \in 1..Len(s) /\ y = s[b - 1]
    BY <1>1, <2>1
  <2>3. CASE a = 1
    BY <1>1, <2>1, <2>2, <2>3 DEF Range
  <2>4. CASE a # 1
    <3>1. a - 1 \in 1..Len(s) /\ x = s[a - 1] /\ a - 1 < b - 1
      BY <1>1, <2>1, <2>4
    <3> QED
      BY <2>2, <3>1, OrderMember
  <2> QED
    BY <2>3, <2>4
<1>4. ASSUME <<x, y>> \in Order(s) PROVE <<x, y>> \in Order(r)
  <2>1. PICK a, b \in 1..Len(s) : a < b /\ x = s[a] /\ y = s[b]
    BY <1>4, OrderMember
  <2>2. /\ a + 1 \in 1..Len(r) /\ b + 1 \in 1..Len(r) /\ a + 1 < b + 1
        /\ x = r[a + 1] /\ y = r[b + 1]
    BY <1>2, <2>1
  <2> QED
    BY <1>1, <2>2, OrderMember
<1>5. ASSUME x = e, y \in Range(s) PROVE <<x, y>> \in Order(r)
  <2>1. PICK b \in 1..Len(s) : y = s[b]
    BY <1>5 DEF Range
  <2>2. 1 \in 1..Len(r) /\ b + 1 \in 1..Len(r) /\ 1 < b + 1 /\ x = r[1] /\ y = r[b + 1]
    BY <1>1, <1>2, <1>5, <2>1
  <2> QED
    BY <1>1, <2>2, OrderMember
<1> QED
  BY <1>3, <1>4, <1>5 DEF r

(* Dropping the last element, which comes before no other.                 *)
LEMMA OrderFront ==
  ASSUME NEW S, NEW s \in Seq(S), IsInjective(s), s # <<>>, NEW x, NEW y
  PROVE  /\ <<x, y>> \in Order(Front(s)) <=>
               <<x, y>> \in Order(s) /\ x # Last(s) /\ y # Last(s)
         /\ <<Last(s), y>> \notin Order(s)
<1> DEFINE r == Front(s)
<1>1. /\ r \in Seq(S) /\ Len(r) = Len(s) - 1
      /\ \A k \in 1..Len(s)-1 : r[k] = s[k]
      /\ Last(s) = s[Len(s)] /\ Len(s) \in 1..Len(s)
  BY FrontRange
<1> HIDE DEF r
<1>2. \A a, b \in 1..Len(s) : s[a] = s[b] => a = b
  BY DEF IsInjective
<1>3. ASSUME <<x, y>> \in Order(r)
      PROVE  <<x, y>> \in Order(s) /\ x # Last(s) /\ y # Last(s)
  <2>1. PICK a, b \in 1..Len(s)-1 : a < b /\ x = r[a] /\ y = r[b]
    BY <1>1, <1>3, OrderMember
  <2>2. /\ a \in 1..Len(s) /\ b \in 1..Len(s) /\ a # Len(s) /\ b # Len(s)
        /\ x = s[a] /\ y = s[b]
    BY <1>1, <2>1
  <2>3. x # Last(s) /\ y # Last(s)
    BY <1>1, <1>2, <2>2
  <2> QED
    BY <2>1, <2>2, <2>3, OrderMember
<1>4. ASSUME <<x, y>> \in Order(s), x # Last(s), y # Last(s)
      PROVE  <<x, y>> \in Order(r)
  <2>1. PICK a, b \in 1..Len(s) : a < b /\ x = s[a] /\ y = s[b]
    BY <1>4, OrderMember
  <2>2. a # Len(s) /\ b # Len(s)
    BY <1>1, <1>4, <2>1
  <2>3. a \in 1..Len(r) /\ b \in 1..Len(r) /\ x = r[a] /\ y = r[b]
    BY <1>1, <2>1, <2>2
  <2> QED
    BY <1>1, <2>1, <2>3, OrderMember
<1>5. ASSUME <<Last(s), y>> \in Order(s) PROVE FALSE
  <2>1. PICK a, b \in 1..Len(s) : a < b /\ Last(s) = s[a]
    BY <1>5, OrderMember
  <2>2. a = Len(s)
    BY <1>1, <1>2, <2>1
  <2> QED
    BY <2>1, <2>2
<1> QED
  BY <1>3, <1>4, <1>5 DEF r

-----------------------------------------------------------------------------
(* The order of the keys that the nodes of a list hold.                    *)
Named(f, s) == {<<f[p[1]], f[p[2]]>> : p \in Order(s)}

(* A pair of keys is ordered as the nodes that hold them.                  *)
LEMMA NamedMember ==
  ASSUME NEW S, NEW s \in Seq(S), NEW f, NEW p
  PROVE  p \in Named(f, s) <=>
           \E a, b \in Range(s) : p = <<f[a], f[b]>> /\ <<a, b>> \in Order(s)
<1>1. ASSUME p \in Named(f, s)
      PROVE  \E a, b \in Range(s) : p = <<f[a], f[b]>> /\ <<a, b>> \in Order(s)
  <2>1. PICK q \in Order(s) : p = <<f[q[1]], f[q[2]]>>
    BY <1>1 DEF Named
  <2>2. q = <<q[1], q[2]>> /\ q[1] \in Range(s) /\ q[2] \in Range(s)
    BY OrderPairs
  <2> QED
    BY <2>1, <2>2
<1>2. ASSUME NEW a, NEW b, p = <<f[a], f[b]>>, <<a, b>> \in Order(s)
      PROVE  p \in Named(f, s)
  <2>1. <<a, b>>[1] = a /\ <<a, b>>[2] = b
    OBVIOUS
  <2> QED
    BY <1>2, <2>1 DEF Named
<1> QED
  BY <1>1, <1>2

(* Nodes of the list and keys of the map correspond one to one.            *)
LEMMA KeysOfNodes ==
  ASSUME CacheInv
  PROVE  /\ \A q \in Range(usage_list) : key[q] \in DOMAIN cache_map
         /\ \A q, r \in Range(usage_list) : key[q] = key[r] => q = r
         /\ \A j \in DOMAIN cache_map : \E q \in Range(usage_list) : key[q] = j
BY DEF CacheInv, Agreement

(* Splicing an entry's node makes its key the most recently used one.      *)
LEMMA SplicedOrder ==
  ASSUME CacheInv, NEW ip \in DOMAIN cache_map
  PROVE  Named(key, Spliced(cache_map[ip].pos)) = Lru!Touched(ip, DOMAIN cache_map)
<1> DEFINE pos == cache_map[ip].pos
           i == CHOOSE n \in 1..Len(usage_list) : usage_list[n] = pos
<1>1. /\ usage_list \in Seq(Positions) /\ IsInjective(usage_list)
      /\ pos \in Positions /\ pos \in Range(usage_list) /\ key[pos] = ip
  BY DEF CacheInv, TypeOK, Agreement
<1>2. i \in 1..Len(usage_list) /\ usage_list[i] = pos
  BY <1>1 DEF Range
<1>3. Unlinked(pos) = RemoveAt(usage_list, i)
  BY DEF Unlinked
<1>4. /\ Unlinked(pos) \in Seq(Positions)
      /\ Range(Unlinked(pos)) = Range(usage_list) \ {pos}
      /\ Spliced(pos) \in Seq(Positions)
      /\ Range(Spliced(pos)) = Range(usage_list)
  BY Relinked
<1> HIDE DEF i, pos
<1>5. \A a, b : <<a, b>> \in Order(Unlinked(pos)) <=>
                  <<a, b>> \in Order(usage_list) /\ a # pos /\ b # pos
  BY <1>1, <1>2, <1>3, OrderRemove
<1>6. \A a, b : <<a, b>> \in Order(Spliced(pos)) <=>
                  <<a, b>> \in Order(Unlinked(pos)) \/ (a = pos /\ b \in Range(usage_list) \ {pos})
  BY <1>1, <1>4, OrderCons DEF Spliced
<1>7. ASSUME NEW p \in Named(key, Spliced(pos)) PROVE p \in Lru!Touched(ip, DOMAIN cache_map)
  <2>1. PICK a, b \in Range(usage_list) : p = <<key[a], key[b]>> /\ <<a, b>> \in Order(Spliced(pos))
    BY <1>4, <1>7, NamedMember
  <2>2. CASE a = pos /\ b # pos
    BY <1>1, <2>1, <2>2, KeysOfNodes DEF Lru!Touched
  <2>3. CASE <<a, b>> \in Order(usage_list) /\ a # pos /\ b # pos
    <3>1. p \in Named(key, usage_list)
      BY <1>1, <2>1, <2>3, NamedMember
    <3>2. p[1] = key[a] /\ p[2] = key[b] /\ key[a] # ip /\ key[b] # ip
      BY <1>1, <2>1, <2>3, KeysOfNodes
    <3> QED
      BY <3>1, <3>2 DEF Lru!Touched, Lru!Without, Newer, Named
  <2> QED
    BY <1>5, <1>6, <2>1, <2>2, <2>3
<1>8. ASSUME NEW p \in Lru!Touched(ip, DOMAIN cache_map) PROVE p \in Named(key, Spliced(pos))
  <2>1. CASE p \in Lru!Without(ip)
    <3>1. p \in Named(key, usage_list) /\ p[1] # ip /\ p[2] # ip
      BY <2>1 DEF Lru!Without, Newer, Named
    <3>2. PICK a, b \in Range(usage_list) : p = <<key[a], key[b]>> /\ <<a, b>> \in Order(usage_list)
      BY <1>1, <3>1, NamedMember
    <3>3. a # pos /\ b # pos
      BY <1>1, <3>1, <3>2
    <3> QED
      BY <1>4, <1>5, <1>6, <3>2, <3>3, NamedMember
  <2>2. CASE p \in {ip} \X (DOMAIN cache_map \ {ip})
    <3>1. PICK j \in DOMAIN cache_map \ {ip} : p = <<ip, j>>
      BY <2>2
    <3>2. PICK b \in Range(usage_list) : key[b] = j
      BY KeysOfNodes
    <3>3. <<pos, b>> \in Order(Spliced(pos))
      BY <1>1, <1>6, <3>1, <3>2
    <3> QED
      BY <1>1, <1>4, <3>1, <3>2, <3>3, NamedMember
  <2> QED
    BY <1>8, <2>1, <2>2 DEF Lru!Touched
<1> QED
  BY <1>7, <1>8 DEF pos

(* Unlinking an entry's node takes its key out of the order.               *)
LEMMA UnlinkedOrder ==
  ASSUME CacheInv, NEW ip \in DOMAIN cache_map
  PROVE  Named(key, Unlinked(cache_map[ip].pos)) = Lru!Without(ip)
<1> DEFINE pos == cache_map[ip].pos
           i == CHOOSE n \in 1..Len(usage_list) : usage_list[n] = pos
<1>1. /\ usage_list \in Seq(Positions) /\ IsInjective(usage_list)
      /\ pos \in Range(usage_list) /\ key[pos] = ip
  BY DEF CacheInv, TypeOK, Agreement
<1>2. i \in 1..Len(usage_list) /\ usage_list[i] = pos
  BY <1>1 DEF Range
<1>3. Unlinked(pos) = RemoveAt(usage_list, i)
  BY DEF Unlinked
<1>4. /\ Unlinked(pos) \in Seq(Positions)
      /\ Range(Unlinked(pos)) = Range(usage_list) \ {pos}
  BY Relinked
<1> HIDE DEF i, pos
<1>5. \A a, b : <<a, b>> \in Order(Unlinked(pos)) <=>
                  <<a, b>> \in Order(usage_list) /\ a # pos /\ b # pos
  BY <1>1, <1>2, <1>3, OrderRemove
<1>6. ASSUME NEW p \in Named(key, Unlinked(pos)) PROVE p \in Lru!Without(ip)
  <2>1. PICK a, b \in Range(usage_list) \ {pos} :
          p = <<key[a], key[b]>> /\ <<a, b>> \in Order(Unlinked(pos))
    BY <1>4, <1>6, NamedMember
  <2>2. p \in Named(key, usage_list)
    BY <1>1, <1>5, <2>1, NamedMember
  <2>3. p[1] = key[a] /\ p[2] = key[b] /\ key[a] # ip /\ key[b] # ip
    BY <1>1, <2>1, KeysOfNodes
  <2> QED
    BY <2>2, <2>3 DEF Lru!Without, Newer, Named
<1>7. ASSUME NEW p \in Lru!Without(ip) PROVE p \in Named(key, Unlinked(pos))
  <2>1. p \in Named(key, usage_list) /\ p[1] # ip /\ p[2] # ip
    BY <1>7 DEF Lru!Without, Newer, Named
  <2>2. PICK a, b \in Range(usage_list) : p = <<key[a], key[b]>> /\ <<a, b>> \in Order(usage_list)
    BY <1>1, <2>1, NamedMember
  <2>3. a # pos /\ b # pos
    BY <1>1, <2>1, <2>2
  <2> QED
    BY <1>4, <1>5, <2>2, <2>3, NamedMember
<1> QED
  BY <1>6, <1>7 DEF pos

(* A new node at the front makes its key newer than every key that stays,  *)
(* also when the node is the one that was just given up.                   *)
LEMMA InsertedOrder ==
  ASSUME CacheInv, NEW ip \in Ips, NEW pos \in Positions \ Range(KeptList)
  PROVE  Named([key EXCEPT ![pos] = ip], <<pos>> \o KeptList)
           = Named(key, KeptList) \union ({ip} \X DOMAIN Kept)
<1> DEFINE f == [key EXCEPT ![pos] = ip]
           s == <<pos>> \o KeptList
<1>1. /\ KeptList \in Seq(Positions) /\ IsInjective(KeptList)
      /\ \A q \in Range(KeptList) : key[q] \in DOMAIN Kept
      /\ \A j \in DOMAIN Kept : \E q \in Range(KeptList) : key[q] = j
  BY Evicted DEF CacheInv, Agreement
<1>2. f[pos] = ip /\ \A q \in Range(KeptList) : f[q] = key[q]
  <2>1. key \in [Positions -> Ips] /\ Range(KeptList) \subseteq Positions
    BY <1>1 DEF CacheInv, TypeOK, Range
  <2> QED
    BY <2>1
<1>3. s \in Seq(Positions) /\ Range(s) = Range(KeptList) \union {pos}
  BY <1>1, ConsIndex, ConsRange
<1>4. \A a, b : <<a, b>> \in Order(s) <=>
                  <<a, b>> \in Order(KeptList) \/ (a = pos /\ b \in Range(KeptList))
  BY <1>1, OrderCons
<1>5. \A a, b : <<a, b>> \in Order(KeptList) => a \in Range(KeptList) /\ b \in Range(KeptList)
  <2> SUFFICES ASSUME NEW a, NEW b, <<a, b>> \in Order(KeptList)
               PROVE  a \in Range(KeptList) /\ b \in Range(KeptList)
    OBVIOUS
  <2>1. <<a, b>>[1] = a /\ <<a, b>>[2] = b
    OBVIOUS
  <2> QED
    BY <1>1, <2>1, OrderPairs
<1> HIDE DEF f, s
<1>6. ASSUME NEW p \in Named(f, s) PROVE p \in Named(key, KeptList) \union ({ip} \X DOMAIN Kept)
  <2>1. PICK a, b \in Range(s) : p = <<f[a], f[b]>> /\ <<a, b>> \in Order(s)
    BY <1>3, <1>6, NamedMember
  <2>2. CASE <<a, b>> \in Order(KeptList)
    BY <1>1, <1>2, <1>5, <2>1, <2>2, NamedMember
  <2>3. CASE a = pos /\ b \in Range(KeptList)
    BY <1>1, <1>2, <2>1, <2>3
  <2> QED
    BY <1>4, <2>1, <2>2, <2>3
<1>7. ASSUME NEW p \in Named(key, KeptList) PROVE p \in Named(f, s)
  <2> KeptList \in Seq(Positions)
    BY <1>1
  <2>1. PICK a, b \in Range(KeptList) : p = <<key[a], key[b]>> /\ <<a, b>> \in Order(KeptList)
    BY <1>7, NamedMember
  <2> QED
    BY <1>2, <1>3, <1>4, <2>1, NamedMember
<1>8. ASSUME NEW p \in {ip} \X DOMAIN Kept PROVE p \in Named(f, s)
  <2>1. PICK j \in DOMAIN Kept : p = <<ip, j>>
    BY <1>8
  <2>2. PICK b \in Range(KeptList) : key[b] = j
    BY <1>1
  <2>3. <<pos, b>> \in Order(s) /\ pos \in Range(s) /\ b \in Range(s) /\ p = <<f[pos], f[b]>>
    BY <1>2, <1>3, <1>4, <2>1, <2>2
  <2> QED
    BY <1>3, <2>3, NamedMember
<1> QED
  BY <1>6, <1>7, <1>8 DEF f, s

(* Eviction gives up the key at the back of the list: it is in use, newer  *)
(* than no other, and the rest of the order stays.                         *)
LEMMA EvictedOrder ==
  ASSUME CacheInv, Saturated
  PROVE  LET old == key[Last(usage_list)] IN
         /\ old \in DOMAIN cache_map
         /\ DOMAIN Kept = DOMAIN cache_map \ {old}
         /\ \A j : <<old, j>> \notin Newer
         /\ Named(key, KeptList) = Lru!Without(old)
<1> DEFINE last == Last(usage_list)
           old == key[last]
<1>1. usage_list \in Seq(Positions) /\ IsInjective(usage_list)
  BY DEF CacheInv, TypeOK, Agreement
<1>2. usage_list # <<>>
  <2>1. DOMAIN cache_map # {}
    BY FS_EmptySet, ArpAssumption DEF Saturated
  <2> QED
    BY <2>1 DEF CacheInv, Agreement, Range
<1>3. /\ KeptList \in Seq(Positions)
      /\ last \in Range(usage_list)
      /\ Range(KeptList) = Range(usage_list) \ {last}
  BY <1>1, <1>2, FrontRange DEF KeptList
<1>4. \A a, b : /\ <<a, b>> \in Order(KeptList) <=>
                     <<a, b>> \in Order(usage_list) /\ a # last /\ b # last
                /\ <<last, b>> \notin Order(usage_list)
  BY <1>1, <1>2, OrderFront DEF KeptList
<1>5. old \in DOMAIN cache_map /\ DOMAIN Kept = DOMAIN cache_map \ {old}
  BY <1>3, KeysOfNodes DEF Kept, Restrict
<1> HIDE DEF last
<1>6. Newer = Named(key, usage_list)
  BY DEF Newer, Named
<1>7. ASSUME NEW j, <<old, j>> \in Newer PROVE FALSE
  <2>1. PICK a, b \in Range(usage_list) : <<old, j>> = <<key[a], key[b]>> /\ <<a, b>> \in Order(usage_list)
    BY <1>1, <1>6, <1>7, NamedMember
  <2>2. a = last
    BY <1>3, <2>1, KeysOfNodes
  <2> QED
    BY <1>4, <2>1, <2>2
<1>8. ASSUME NEW p \in Named(key, KeptList) PROVE p \in Lru!Without(old)
  <2>1. PICK a, b \in Range(usage_list) \ {last} :
          p = <<key[a], key[b]>> /\ <<a, b>> \in Order(KeptList)
    BY <1>3, <1>8, NamedMember
  <2>2. p \in Newer
    BY <1>1, <1>4, <1>6, <2>1, NamedMember
  <2>3. p[1] = key[a] /\ p[2] = key[b] /\ key[a] # old /\ key[b] # old
    BY <1>3, <2>1, KeysOfNodes
  <2> QED
    BY <2>2, <2>3 DEF Lru!Without
<1>9. ASSUME NEW p \in Lru!Without(old) PROVE p \in Named(key, KeptList)
  <2>1. p \in Newer /\ p[1] # old /\ p[2] # old
    BY <1>9 DEF Lru!Without
  <2>2. PICK a, b \in Range(usage_list) : p = <<key[a], key[b]>> /\ <<a, b>> \in Order(usage_list)
    BY <1>1, <1>6, <2>1, NamedMember
  <2>3. a # last /\ b # last
    BY <2>1, <2>2
  <2> QED
    BY <1>3, <1>4, <2>2, <2>3, NamedMember
<1> QED
  BY <1>5, <1>7, <1>8, <1>9 DEF last

-----------------------------------------------------------------------------
(* Every call is a step of the abstract cache.                             *)
LEMMA StepRefines == CacheInv /\ [Next]_vars => [Lru!Next]_(Lru!vars)
<1> SUFFICES ASSUME CacheInv, [Next]_vars PROVE [Lru!Next]_(Lru!vars)
  OBVIOUS
<1> USE DEF Lru!Keys
<1>1. Newer = Named(key, usage_list) /\ Newer' = Named(key', usage_list')
  BY DEF Newer, Named
<1>2. DOMAIN Entries = DOMAIN cache_map /\ DOMAIN Entries' = DOMAIN cache_map'
  BY DEF Entries
<1>3. CASE UNCHANGED vars
  BY <1>3 DEF vars, Lru!vars, Entries, Newer
<1>4. ASSUME NEW ip \in Ips, GetHit(ip) PROVE Lru!Hit(ip)
  <2>1. Newer' = Lru!Touched(ip, DOMAIN cache_map)
    BY <1>1, <1>4, SplicedOrder DEF GetHit
  <2> QED
    BY <1>2, <1>4, <2>1 DEF GetHit, Lru!Hit, Entries
<1>5. ASSUME NEW ip \in Ips, GetMiss(ip) PROVE Lru!Miss(ip)
  BY <1>1, <1>2, <1>5 DEF GetMiss, Lru!Miss, Entries
<1>6. ASSUME NEW ip \in Ips, Invalidate(ip) PROVE Lru!Remove(ip)
  <2>1. Newer' = Lru!Without(ip)
    BY <1>1, <1>6, UnlinkedOrder DEF Invalidate
  <2>2. Entries' = [j \in DOMAIN cache_map \ {ip} |-> Entries[j]]
    BY <1>6 DEF Invalidate, Restrict, Entries
  <2> QED
    BY <1>2, <1>6, <2>1, <2>2 DEF Invalidate, Lru!Remove
<1>7. ASSUME NEW ip \in Ips, InvalidateMiss(ip) PROVE Lru!RemoveNothing(ip)
  BY <1>1, <1>2, <1>7 DEF InvalidateMiss, Lru!RemoveNothing, Entries
<1>8. ASSUME NEW ip \in Ips, NEW mac \in Macs, PutUpdate(ip, mac) PROVE Lru!Update(ip, mac)
  <2>1. Newer' = Lru!Touched(ip, DOMAIN cache_map)
    BY <1>1, <1>8, SplicedOrder DEF PutUpdate
  <2>2. /\ DOMAIN cache_map' = DOMAIN cache_map
        /\ \A j \in DOMAIN cache_map : cache_map'[j].mac = IF j = ip THEN mac ELSE cache_map[j].mac
    BY <1>8 DEF PutUpdate, CacheInv, TypeOK
  <2>3. Entries' = [Entries EXCEPT ![ip] = mac]
    BY <1>8, <2>2 DEF Entries, PutUpdate
  <2> QED
    BY <1>2, <1>8, <2>1, <2>3 DEF PutUpdate, Lru!Update
<1>9. ASSUME NEW ip \in Ips, NEW mac \in Macs, PutInsert(ip, mac)
      PROVE  Lru!Insert(ip, mac) \/ Lru!Replace(ip, mac)
  <2>1. PICK pos \in Positions \ Range(KeptList) :
          /\ usage_list' = <<pos>> \o KeptList
          /\ key' = [key EXCEPT ![pos] = ip]
          /\ cache_map' = [j \in DOMAIN Kept \union {ip} |->
                             IF j = ip THEN [mac |-> mac, pos |-> pos] ELSE Kept[j]]
    BY <1>9 DEF PutInsert
  <2>2. ip \notin DOMAIN cache_map /\ ret' = ret
    BY <1>9 DEF PutInsert
  <2>3. Newer' = Named(key, KeptList) \union ({ip} \X DOMAIN Kept)
    BY <1>1, <2>1, InsertedOrder
  <2>4. Entries' = [j \in DOMAIN Kept \union {ip} |-> IF j = ip THEN mac ELSE Entries[j]]
    <3>1. DOMAIN Kept \subseteq DOMAIN cache_map /\ \A j \in DOMAIN Kept : Kept[j] = cache_map[j]
      BY Evicted
    <3> QED
      BY <2>1, <3>1 DEF Entries
  <2>5. /\ Cardinality(DOMAIN cache_map) \in Nat /\ Capacity \in Nat
        /\ Cardinality(DOMAIN cache_map) <= Capacity
    BY FS_CardinalityType, ArpAssumption DEF CacheInv, Agreement
  <2> Lru!Cardinality(DOMAIN cache_map) = Cardinality(DOMAIN cache_map)
    BY DEF Lru!Cardinality, Cardinality
  <2>6. CASE ~Saturated
    <3>1. Kept = cache_map /\ KeptList = usage_list
      BY <2>6 DEF Kept, KeptList
    <3>2. Cardinality(DOMAIN cache_map) < Capacity
      BY <2>5, <2>6 DEF Saturated
    <3>3. Lru!Without(ip) = Newer
      <4>1. ASSUME NEW p \in Newer PROVE p[1] # ip /\ p[2] # ip
        <5>1. usage_list \in Seq(Positions) /\ p \in Named(key, usage_list)
          BY <1>1, <4>1 DEF CacheInv, TypeOK
        <5>2. PICK a, b \in Range(usage_list) : p = <<key[a], key[b]>> /\ <<a, b>> \in Order(usage_list)
          BY <5>1, NamedMember
        <5> QED
          BY <2>2, <5>2, KeysOfNodes
      <4> QED
        BY <4>1 DEF Lru!Without
    <3>4. Newer' = Lru!Touched(ip, DOMAIN cache_map)
      BY <1>1, <2>2, <2>3, <3>1, <3>3 DEF Lru!Touched
    <3> QED
      BY <1>2, <2>2, <2>4, <3>1, <3>2, <3>4 DEF Lru!Insert
  <2>7. CASE Saturated
    <3> DEFINE old == key[Last(usage_list)]
    <3>1. /\ old \in DOMAIN cache_map
          /\ DOMAIN Kept = DOMAIN cache_map \ {old}
          /\ \A j : <<old, j>> \notin Newer
          /\ Named(key, KeptList) = Lru!Without(old)
      BY <2>7, EvictedOrder
    <3> HIDE DEF old
    <3>2. Cardinality(DOMAIN cache_map) = Capacity
      BY <2>5, <2>7 DEF Saturated
    <3>3. /\ Newer' = Lru!Without(old) \union ({ip} \X (DOMAIN cache_map \ {old}))
          /\ Entries' = [j \in (DOMAIN cache_map \ {old}) \union {ip} |->
                           IF j = ip THEN mac ELSE Entries[j]]
      BY <2>3, <2>4, <3>1
    <3> QED
      BY <1>2, <2>2, <3>1, <3>2, <3>3 DEF Lru!Replace
  <2> QED
    BY <2>6, <2>7
<1> QED
  BY <1>3, <1>4, <1>5, <1>6, <1>7, <1>8, <1>9 DEF Next, Lru!Next

(* The cache implements the abstract LRU map: initial states map to its    *)
(* initial state and every call to one of its steps, for any keys,         *)
(* capacity and allocation of list nodes.                                  *)
THEOREM Refinement == Spec => ImplementsLru
<1>1. Init => Lru!Init
  BY DEF Init, Lru!Init, Entries, Newer, Order
<1>2. CacheInv /\ [Next]_vars => [Lru!Next]_(Lru!vars)
  BY StepRefines
<1> QED
  BY <1>1, <1>2, IInvariant, PTL DEF Spec, ImplementsLru, Lru!Spec
=============================================================================
