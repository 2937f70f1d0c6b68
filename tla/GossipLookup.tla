----------------------------- MODULE GossipLookup -----------------------------
(***************************************************************************)
(* How the program finds a node in gossip (internal/solana/client.go): it  *)
(* asks the local validator for the cluster's nodes, then the cluster RPC. *)
(* A node is [ip, key], its gossip address and its identity; while an      *)
(* identity moves a list may hold two nodes of one address, in any order.  *)
(* An answer is a sequence of nodes, or Failed.                            *)
(***************************************************************************)
EXTENDS SequencesExt

CONSTANTS Failed, NotFound

Listed(answer) == IF answer = Failed THEN <<>> ELSE answer

(* The loops over a list return the first of the elements they are after. *)
FirstOf(list, found) == IF found = {} THEN NotFound ELSE list[Min(found)]

findGossipNodeFromIP(nodes, ip) ==
    FirstOf(nodes, {i \in DOMAIN nodes : nodes[i].ip = ip})

findGossipNodeFromPubkey(nodes, key) ==
    FirstOf(nodes, {i \in DOMAIN nodes : nodes[i].key = key})

(* Mutant: the address is not compared. *)
matchAnywhere(nodes, ip, key) == findGossipNodeFromPubkey(nodes, key)

exactMatch(nodes, ip, key) ==
    FirstOf(nodes, {i \in DOMAIN nodes : nodes[i].ip = ip /\ nodes[i].key = key})

(* Unless a node was found, another place is looked at. *)
OrElse(node, other) == IF node # NotFound THEN node ELSE other

(* NodeFromIP: whichever node is listed first at the address. *)
nodeFromIP(local, cluster, ip) ==
    OrElse(findGossipNodeFromIP(Listed(local), ip),
           findGossipNodeFromIP(Listed(cluster), ip))

(* NodeFromPubkey *)
gossipNodeFromPubkey(local, cluster, key) ==
    OrElse(findGossipNodeFromPubkey(Listed(local), key),
           findGossipNodeFromPubkey(Listed(cluster), key))

(* Mutant: the local answer is exhausted before the cluster's is looked at. *)
localFirst(local, cluster, ip, key) ==
    OrElse(exactMatch(Listed(local), ip, key),
    OrElse(findGossipNodeFromIP(Listed(local), ip),
    OrElse(exactMatch(Listed(cluster), ip, key),
           findGossipNodeFromIP(Listed(cluster), ip))))

(* Mutant: an error of the local RPC ends the lookup. *)
localRequired(local, cluster, ip, key) ==
    IF local = Failed THEN NotFound
    ELSE OrElse(exactMatch(local, ip, key),
         OrElse(exactMatch(Listed(cluster), ip, key),
                findGossipNodeFromIP(local, ip)))

(* NodeFromIPWithExpectedPubkey: the node with the expected identity if     *)
(* either answer has it, else the first one at the address.                 *)
nodeFromIPWithExpectedPubkey(local, cluster, ip, key) ==
    OrElse(exactMatch(Listed(local), ip, key),
    OrElse(exactMatch(Listed(cluster), ip, key),
    OrElse(findGossipNodeFromIP(Listed(local), ip),
           findGossipNodeFromIP(Listed(cluster), ip))))
===============================================================================
