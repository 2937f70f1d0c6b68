----------------------------- MODULE LookupProofs -----------------------------
(***************************************************************************)
(* Lists of gossip nodes that grow and shrink, and what the lookups of      *)
(* GossipLookup return, whatever the two RPCs answer.                       *)
(***************************************************************************)
EXTENDS GossipLookup, Integers, SequenceTheorems, WellFoundedInduction, TLAPS

(* The elements of two lists put together are those of the two. *)
LEMMA ConcatElements ==
    ASSUME NEW S, NEW s \in Seq(S), NEW t \in Seq(S)
    PROVE  /\ s \o t \in Seq(S)
           /\ \A x : Contains(s \o t, x) <=> Contains(s, x) \/ Contains(t, x)
<1>1. /\ s \o t \in Seq(S) /\ Len(s \o t) = Len(s) + Len(t)
      /\ \A i \in 1 .. Len(s) : (s \o t)[i] = s[i]
      /\ \A i \in 1 .. Len(t) : (s \o t)[Len(s) + i] = t[i]
      /\ Len(s) \in Nat /\ Len(t) \in Nat
  OBVIOUS
<1>2. ASSUME NEW i \in 1 .. Len(s \o t)
      PROVE  i \in 1 .. Len(s) \/ \E j \in 1 .. Len(t) : i = Len(s) + j
  <2>1. CASE i > Len(s)
    <3>1. i - Len(s) \in 1 .. Len(t) /\ i = Len(s) + (i - Len(s))
      BY <1>1, <2>1
    <3> QED BY <3>1
  <2> QED BY <1>1, <2>1
<1>3. \A i \in 1 .. Len(s) : i \in 1 .. Len(s \o t)
  BY <1>1
<1>4. \A j \in 1 .. Len(t) : Len(s) + j \in 1 .. Len(s \o t)
  BY <1>1
<1>5. ASSUME NEW x, Contains(s \o t, x) PROVE Contains(s, x) \/ Contains(t, x)
  BY <1>1, <1>2, <1>5 DEF Contains
<1>6. ASSUME NEW x, Contains(s, x) PROVE Contains(s \o t, x)
  BY <1>1, <1>3, <1>6 DEF Contains
<1>7. ASSUME NEW x, Contains(t, x) PROVE Contains(s \o t, x)
  BY <1>1, <1>4, <1>7 DEF Contains
<1> QED BY <1>1, <1>5, <1>6, <1>7

LEMMA AppendElements ==
    ASSUME NEW S, NEW s \in Seq(S), NEW n \in S
    PROVE  /\ Append(s, n) \in Seq(S) /\ <<n>> \o s \in Seq(S)
           /\ \A x : Contains(Append(s, n), x) <=> Contains(s, x) \/ x = n
           /\ \A x : Contains(<<n>> \o s, x) <=> Contains(s, x) \/ x = n
<1>1. <<n>> \in Seq(S) /\ \A x : Contains(<<n>>, x) <=> x = n
  BY DEF Contains
<1>2. Append(s, n) = s \o <<n>>
  OBVIOUS
<1>3. /\ s \o <<n>> \in Seq(S)
      /\ \A x : Contains(s \o <<n>>, x) <=> Contains(s, x) \/ Contains(<<n>>, x)
  BY <1>1, ConcatElements
<1>4. /\ <<n>> \o s \in Seq(S)
      /\ \A x : Contains(<<n>> \o s, x) <=> Contains(<<n>>, x) \/ Contains(s, x)
  BY <1>1, ConcatElements
<1> QED BY <1>1, <1>2, <1>3, <1>4

(* A list from which one place is removed keeps what was in the others. *)
LEMMA RemoveElements ==
    ASSUME NEW S, NEW s \in Seq(S), NEW i \in DOMAIN s
    PROVE  /\ RemoveAt(s, i) \in Seq(S)
           /\ \A x : Contains(RemoveAt(s, i), x) => Contains(s, x)
           /\ \A x : Contains(s, x) /\ x # s[i] => Contains(RemoveAt(s, i), x)
<1> DEFINE a == SubSeq(s, 1, i - 1)  b == SubSeq(s, i + 1, Len(s))
<1>1. /\ a \in Seq(S) /\ Len(a) = i - 1 /\ \A j \in 1 .. i - 1 : a[j] = s[j]
      /\ i \in 1 .. Len(s) /\ Len(s) \in Nat
  OBVIOUS
<1>2. /\ b \in Seq(S) /\ Len(b) = Len(s) - i
      /\ \A j \in 1 .. Len(s) - i : b[j] = s[i + j]
  BY <1>1
<1> HIDE DEF a, b
<1>3. RemoveAt(s, i) = a \o b
  BY DEF RemoveAt, a, b
<1>4. /\ RemoveAt(s, i) \in Seq(S)
      /\ \A x : Contains(RemoveAt(s, i), x) <=> Contains(a, x) \/ Contains(b, x)
  BY <1>1, <1>2, <1>3, ConcatElements
<1>5. ASSUME NEW x, Contains(a, x) \/ Contains(b, x) PROVE Contains(s, x)
  <2>1. CASE Contains(a, x)
    BY <1>1, <2>1 DEF Contains
  <2>2. CASE Contains(b, x)
    <3>1. PICK j \in 1 .. Len(s) - i : x = s[i + j]
      BY <1>2, <2>2 DEF Contains
    <3>2. i + j \in 1 .. Len(s)
      BY <1>1
    <3> QED BY <3>1, <3>2 DEF Contains
  <2> QED BY <1>5, <2>1, <2>2
<1>6. ASSUME NEW x, Contains(s, x), x # s[i] PROVE Contains(a, x) \/ Contains(b, x)
  <2>1. PICK j \in 1 .. Len(s) : x = s[j]
    BY <1>6 DEF Contains
  <2>2. CASE j < i
    BY <1>1, <2>1, <2>2 DEF Contains
  <2>3. CASE j > i
    <3>1. j - i \in 1 .. Len(s) - i /\ i + (j - i) = j
      BY <1>1, <2>3
    <3> QED BY <1>2, <2>1, <3>1 DEF Contains
  <2> QED BY <1>1, <1>6, <2>1, <2>2, <2>3
<1> QED BY <1>4, <1>5, <1>6
-------------------------------------------------------------------------------
(* A set of natural numbers has a least one. *)
LEMMA LeastExists ==
    ASSUME NEW S, S \subseteq Nat, S # {}
    PROVE  Min(S) \in S /\ \A y \in S : Min(S) <= y
<1>1. PICK x \in S : \A y \in S : ~(<<y, x>> \in OpToRel(<, Nat))
  BY NatLessThanWellFounded, WFMin
<1>2. ASSUME NEW y \in S PROVE x <= y
  <2>1. y < x => <<y, x>> \in OpToRel(<, Nat)
    BY Zenon DEF OpToRel
  <2>2. ~(y < x)
    BY <1>1, <2>1, Zenon
  <2>3. x \in Nat /\ y \in Nat
    OBVIOUS
  <2> QED BY <2>2, <2>3
<1> QED BY <1>2 DEF Min

(* The element at the least of some indexes of a list. *)
LEMMA FirstFound ==
    ASSUME NEW S, NEW list \in Seq(S), NEW found, found \subseteq DOMAIN list, found # {}
    PROVE  /\ Min(found) \in found /\ list[Min(found)] \in S
           /\ \A j \in 1 .. Min(found) - 1 : j \notin found
<1>1. found \subseteq Nat
  OBVIOUS
<1>2. Min(found) \in found /\ \A j \in found : Min(found) <= j
  BY <1>1, LeastExists
<1> QED BY <1>1, <1>2

(* client.go:184: what is found at an address is the first node listed      *)
(* there, and nothing is found only if none is.                             *)
LEMMA FoundFromIP ==
    ASSUME NEW S, NEW list \in Seq(S), NEW ip
    PROVE  IF \E i \in DOMAIN list : list[i].ip = ip
           THEN \E i \in DOMAIN list :
                   /\ findGossipNodeFromIP(list, ip) = list[i] /\ list[i].ip = ip
                   /\ \A j \in 1 .. i - 1 : list[j].ip # ip
           ELSE findGossipNodeFromIP(list, ip) = NotFound
<1> DEFINE found == {i \in DOMAIN list : list[i].ip = ip}
<1>1. CASE found = {}
  BY <1>1 DEF findGossipNodeFromIP, FirstOf
<1>2. CASE found # {}
  <2>1. /\ Min(found) \in found
        /\ \A j \in 1 .. Min(found) - 1 : j \notin found
    BY <1>2, FirstFound
  <2>2. findGossipNodeFromIP(list, ip) = list[Min(found)]
    BY <1>2 DEF findGossipNodeFromIP, FirstOf
  <2>3. PICK m \in DOMAIN list : m = Min(found)
    BY <2>1
  <2>4. \A j \in DOMAIN list : j \in found <=> list[j].ip = ip
    OBVIOUS
  <2> HIDE DEF found
  <2>5. list[m].ip = ip /\ \A j \in 1 .. m - 1 : list[j].ip # ip
    BY <2>1, <2>3, <2>4
  <2> QED BY <2>2, <2>3, <2>5
<1> QED BY <1>1, <1>2
(* client.go:193: the same by identity. *)
LEMMA FoundFromPubkey ==
    ASSUME NEW S, NEW list \in Seq(S), NEW key
    PROVE  IF \E i \in DOMAIN list : list[i].key = key
           THEN \E i \in DOMAIN list :
                   /\ findGossipNodeFromPubkey(list, key) = list[i] /\ list[i].key = key
                   /\ \A j \in 1 .. i - 1 : list[j].key # key
           ELSE findGossipNodeFromPubkey(list, key) = NotFound
<1> DEFINE found == {i \in DOMAIN list : list[i].key = key}
<1>1. CASE found = {}
  BY <1>1 DEF findGossipNodeFromPubkey, FirstOf
<1>2. CASE found # {}
  <2>1. /\ Min(found) \in found
        /\ \A j \in 1 .. Min(found) - 1 : j \notin found
    BY <1>2, FirstFound
  <2>2. findGossipNodeFromPubkey(list, key) = list[Min(found)]
    BY <1>2 DEF findGossipNodeFromPubkey, FirstOf
  <2>3. PICK m \in DOMAIN list : m = Min(found)
    BY <2>1
  <2>4. \A j \in DOMAIN list : j \in found <=> list[j].key = key
    OBVIOUS
  <2> HIDE DEF found
  <2>5. list[m].key = key /\ \A j \in 1 .. m - 1 : list[j].key # key
    BY <2>1, <2>3, <2>4
  <2> QED BY <2>2, <2>3, <2>5
<1> QED BY <1>1, <1>2

(* client.go:316: a node of the address and the identity, if one is listed. *)
LEMMA ExactMatch ==
    ASSUME NEW S, NEW list \in Seq(S), NEW ip, NEW key
    PROVE  IF \E i \in DOMAIN list : list[i].ip = ip /\ list[i].key = key
           THEN \E i \in DOMAIN list : /\ exactMatch(list, ip, key) = list[i]
                                       /\ list[i].ip = ip /\ list[i].key = key
           ELSE exactMatch(list, ip, key) = NotFound
<1> DEFINE found == {i \in DOMAIN list : list[i].ip = ip /\ list[i].key = key}
<1>1. CASE found = {}
  BY <1>1 DEF exactMatch, FirstOf
<1>2. CASE found # {}
  <2>1. Min(found) \in found
    BY <1>2, FirstFound
  <2>2. exactMatch(list, ip, key) = list[Min(found)]
    BY <1>2 DEF exactMatch, FirstOf
  <2> QED BY <2>1, <2>2
<1> QED BY <1>1, <1>2

(* A list shows a node at an address. *)
Shows(list, node, ip) == Contains(list, node) /\ node.ip = ip

(* client.go:158: the node found at an address is listed there by an RPC    *)
(* that answered.                                                           *)
LEMMA NodeFromIPListed ==
    ASSUME NEW S, NEW local, NEW cluster, NEW ip,
           Listed(local) \in Seq(S), Listed(cluster) \in Seq(S),
           nodeFromIP(local, cluster, ip) # NotFound
    PROVE  \E answer \in {local, cluster} :
               Shows(Listed(answer), nodeFromIP(local, cluster, ip), ip)
<1>1. \A list \in Seq(S) :
         \/ findGossipNodeFromIP(list, ip) = NotFound
         \/ Shows(list, findGossipNodeFromIP(list, ip), ip)
  BY FoundFromIP, SMTT(30) DEF Shows, Contains
<1> QED BY <1>1 DEF nodeFromIP, OrElse

(* client.go:275: so is the node of the lookup with an expected identity;   *)
(* and it has that identity if any RPC that answered lists it there.        *)
LEMMA ExpectedListed ==
    ASSUME NEW S, NEW local, NEW cluster, NEW ip, NEW key,
           Listed(local) \in Seq(S), Listed(cluster) \in Seq(S),
           nodeFromIPWithExpectedPubkey(local, cluster, ip, key) # NotFound
    PROVE  \E answer \in {local, cluster} :
               Shows(Listed(answer), nodeFromIPWithExpectedPubkey(local, cluster, ip, key), ip)
<1>1. \A list \in Seq(S) :
         /\ \/ findGossipNodeFromIP(list, ip) = NotFound
            \/ Shows(list, findGossipNodeFromIP(list, ip), ip)
         /\ \/ exactMatch(list, ip, key) = NotFound
            \/ Shows(list, exactMatch(list, ip, key), ip)
  <2> TAKE list \in Seq(S)
  <2>1. \/ findGossipNodeFromIP(list, ip) = NotFound
        \/ Shows(list, findGossipNodeFromIP(list, ip), ip)
    BY FoundFromIP, SMTT(30) DEF Shows, Contains
  <2>2. \/ exactMatch(list, ip, key) = NotFound
        \/ Shows(list, exactMatch(list, ip, key), ip)
    BY ExactMatch, SMTT(30) DEF Shows, Contains
  <2> QED BY <2>1, <2>2
<1> QED BY <1>1 DEF nodeFromIPWithExpectedPubkey, OrElse

LEMMA ExpectedPreferred ==
    ASSUME NEW S, NotFound \notin S, NEW local, NEW cluster, NEW ip, NEW key,
           Listed(local) \in Seq(S), Listed(cluster) \in Seq(S),
           NEW answer \in {local, cluster}, NEW node,
           Shows(Listed(answer), node, ip), node.key = key
    PROVE  /\ nodeFromIPWithExpectedPubkey(local, cluster, ip, key) \in S
           /\ nodeFromIPWithExpectedPubkey(local, cluster, ip, key).ip = ip
           /\ nodeFromIPWithExpectedPubkey(local, cluster, ip, key).key = key
<1> DEFINE Exact(a) == exactMatch(Listed(a), ip, key)
<1>1. \A a \in {local, cluster} :
         Exact(a) = NotFound \/ (Exact(a) \in S /\ Exact(a).ip = ip /\ Exact(a).key = key)
  BY ExactMatch
<1>2. Exact(answer) # NotFound
  BY ExactMatch DEF Shows, Contains
<1> QED BY <1>1, <1>2 DEF nodeFromIPWithExpectedPubkey, OrElse
===============================================================================
