------------------------------ MODULE SubTree -------------------------------
(***************************************************************************)
(* The tree of subscriptions and retained messages (src/src/subs.c).       *)
(*                                                                         *)
(* A node stands for the levels on the way to it; the first one is a root, *)
(* and the tokens of a topic name the root again as its first child.       *)
(* tree holds the nodes in the order of their creation, which is the order *)
(* in which the hash of the children of a node is iterated.  A client has  *)
(* one live context at most; one that was taken over or discarded stays,   *)
(* without an id and with its leaves, until the main loop frees it.        *)
(***************************************************************************)
EXTENDS TopicMatch, Integers, SequencesExt

CONSTANTS
  Clients,      \* the client identifiers
  Contexts,     \* the contexts there can be at a time
  TopicNames,   \* the topics published to, as strings
  Filters,      \* the subscriptions, as strings
  QoS,          \* the QoS of publications and subscriptions
  Duplicates,   \* allow_duplicate_messages
  MaxOps        \* bound: operations of clients

Characters == {"a", "b", "c", "/", "$", "S", "+", "#"}

None   == -1
NoNode == <<>>

ASSUME SubTreeAssumption ==
  /\ TopicNames \cup Filters \subseteq Seq(Characters) \ {<<>>}
  /\ \A t \in TopicNames : pub_topic_check(t)
  /\ \A f \in Filters : sub_topic_check(f)
  /\ IsFiniteSet(Contexts) /\ None \notin Clients
  /\ QoS \subseteq 0..2 /\ Duplicates \in BOOLEAN /\ MaxOps \in Nat

VARIABLES
  tree,         \* the nodes
  leaves,       \* subhier->subs: the leaves of each node
  retained,     \* subhier->retained: its QoS, or None
  subs,         \* context->subs: the nodes of each context, or NoNode
  id,           \* context->id: its client, or None for one to be freed
  counts,       \* db->subscription_count and db->retained_count
  out,          \* what the last operation inserted for each client
  ops           \* how many operations there were

vars == <<tree, leaves, retained, subs, id, counts, out, ops>>

(* The nodes a string leads through: sub__add and sub__messages_queue look  *)
(* up the root by the first token and descend by all of them.               *)
TokensOf   == [str \in TopicNames \cup Filters |-> Tokens(str)]
BranchOf   == [str \in TopicNames \cup Filters |-> <<TokensOf[str][1]>> \o TokensOf[str]]
Node(str, k)  == SubSeq(BranchOf[str], 1, k)
LeafNode(str) == BranchOf[str]

Nodes       == {tree[i] : i \in DOMAIN tree}

-----------------------------------------------------------------------------
(* The elements of s at the positions K, in their order.                    *)
Only(s, K) ==
  [k \in 1..Cardinality(K) |-> s[CHOOSE i \in K : Cardinality({j \in K : j <= i}) = k]]

(* The members of the sets at all nodes.                                    *)
PairsIn(sets) == UNION {{n} \X sets[n] : n \in DOMAIN sets}

(* A tree of the nodes t, with what the nodes that stay have now.           *)
Grow(t, leaf_of, msg_of) ==
  LET ns == {t[i] : i \in DOMAIN t}
  IN  /\ tree' = t
      /\ leaves' = [n \in ns |-> IF n \in DOMAIN leaf_of THEN leaf_of[n] ELSE <<>>]
      /\ retained' = [n \in ns |-> IF n \in DOMAIN msg_of THEN msg_of[n] ELSE None]

(* sub__add_hier_entry along the way to the node of str.                    *)
Added(str) ==
  LET way == [k \in DOMAIN BranchOf[str] |-> Node(str, k)]
  IN  tree \o Only(way, {k \in DOMAIN way : way[k] \notin Nodes})

(* n is the node p or on the way to it, and m is a child of n.              *)
OnWay(n, p)   == Len(n) <= Len(p) /\ SubSeq(p, 1, Len(n)) = n
ChildOf(m, n) == Len(m) = Len(n) + 1 /\ OnWay(n, m)

(* A node stays while it is a root or has leaves, children or a message.    *)
Keeps(n, t, leaf_of, msg_of) ==
  \/ Len(n) = 1 \/ leaf_of[n] # <<>> \/ msg_of[n] # None
  \/ \E i \in DOMAIN t : ChildOf(t[i], n)

(* Mutant: only the nodes themselves are removed, and not the ones above.   *)
Pruned_One(t, P, leaf_of, msg_of) ==
  Only(t, {i \in DOMAIN t : t[i] \in P => Keeps(t[i], t, leaf_of, msg_of)})

(* The return of sub__remove_recurse, and tmp_remove_subs: from each node   *)
(* of P the way up is followed as far as nothing keeps a node there.  What  *)
(* goes is a node with all that is below it: on the way to a node of P, and *)
(* without leaves and messages.                                             *)
Pruned(t, P, leaf_of, msg_of) ==
  LET bare(n) == Len(n) > 1 /\ leaf_of[n] = <<>> /\ msg_of[n] = None /\ \E p \in P : OnWay(n, p)
  IN  Only(t, {i \in DOMAIN t : \E j \in DOMAIN t : OnWay(t[i], t[j]) /\ ~bare(t[j])})

-----------------------------------------------------------------------------
(* The last level of a topic: first "#" below its node, then the node.      *)
AtEnd(b, below) == Append(below, b)

(* sub__search from the root of a topic: the nodes it processes, in order.  *)
(* A node "#" that has children is never reached as a wildcard.             *)
Hits(t, str) ==
  LET toks    == TokensOf[str]
      kids(p) == Only(t, {i \in DOMAIN t : ChildOf(t[i], p)})
      is(b)   == Len(b) - 1 <= Len(toks) /\ b[Len(b)] \in {toks[Len(b) - 1], Plus}
      hits[p \in {t[i] : i \in DOMAIN t}] ==
        FlattenSeq([i \in DOMAIN kids(p) |->
          LET b == kids(p)[i]
          IN  IF is(b) THEN IF Len(p) = Len(toks) THEN AtEnd(b, hits[b]) ELSE hits[b]
              ELSE IF b[Len(b)] = Hash /\ kids(b) = <<>> THEN <<b>> ELSE <<>>])
  IN  hits[<<toks[1]>>]

(* Mutant: the level above "#" is sent for the last of its siblings only.   *)
SentAbove_Last(flag, last) == last

(* When retain__search sends the level above "#": the search below it has   *)
(* gone through a child and says so, or it is the last of its siblings.     *)
SentAbove(flag, last) == flag \/ last

(* retain__search: the nodes whose retained message it sends.  With "#" as  *)
(* the token every node below is sent.                                      *)
RetainedHits(t, str, msg_of) ==
  LET toks    == TokensOf[str]
      n       == Len(toks)
      kids(p) == Only(t, {i \in DOMAIN t : ChildOf(t[i], p)})
      tok(p)  == toks[IF Len(p) < n THEN Len(p) ELSE n]
      all(p)  == Len(p) >= n /\ tok(p) = Hash
      msg(b)  == IF msg_of[b] # None THEN <<b>> ELSE <<>>
      found[p \in {t[i] : i \in DOMAIN t}] ==
        FlattenSeq([i \in DOMAIN kids(p) |->
          LET b == kids(p)[i]
              last == i = Len(kids(p)) /\ toks[Len(p) + 1] = Hash /\ Len(p) > 1
          IN  IF all(p) THEN msg(b) \o found[b]
              ELSE IF b[Len(b)] = Plus \/ tok(p) \notin {b[Len(b)], Plus} THEN <<>>
              ELSE IF Len(p) = n THEN msg(b)
              ELSE found[b] \o (IF SentAbove(all(b) /\ kids(b) # <<>>, last) THEN msg(b) ELSE <<>>)])
  IN  found[<<toks[1]>>]

Lower(a, b) == IF a < b THEN a ELSE b

Silent == [c \in Clients |-> <<>>]

(* Mutant: the list of clients that have the message is not looked at.      *)
FirstEach_All(s) == s

(* db__message_insert with allow_duplicate_messages off: a client that has  *)
(* the message already does not get it again.                               *)
FirstEach(s) ==
  IF Duplicates THEN s
  ELSE Only(s, {i \in DOMAIN s : \A j \in 1..(i - 1) : s[j].client # s[i].client})

(* subs__process at each node in turn: the clients of its leaves, without   *)
(* those whose context has no id.                                           *)
Receivers(hits, qos) ==
  LET at(p) == [i \in DOMAIN leaves[p] |->
                  [client |-> id[leaves[p][i].context], qos |-> Lower(qos, leaves[p][i].qos)]]
  IN  FirstEach(SelectSeq(FlattenSeq([i \in DOMAIN hits |-> IF hits[i] \in Nodes THEN at(hits[i]) ELSE <<>>]),
                          LAMBDA r : r.client # None))

-----------------------------------------------------------------------------
Init ==
  /\ tree = <<<<<<>>>>, <<<<"$", "S">>>>>>
  /\ leaves = [n \in Nodes |-> <<>>] /\ retained = [n \in Nodes |-> None]
  /\ subs = [x \in Contexts |-> <<>>] /\ id = [x \in Contexts |-> None]
  /\ counts = [subscription |-> 0, retained |-> 0]
  /\ out = Silent /\ ops = 0

Operation == ops < MaxOps /\ ops' = ops + 1

(* context->subs takes the first slot that is free.                         *)
Slot(s, n) == IF \E i \in DOMAIN s : s[i] = NoNode
              THEN [s EXCEPT ![CHOOSE i \in DOMAIN s : s[i] = NoNode /\ \A j \in 1..(i - 1) : s[j] # NoNode] = n]
              ELSE Append(s, n)

(* sub__add and sub__retain_queue, as handle__subscribe calls them for a    *)
(* client of MQTT 3.1.1; one of 3.1 gets nothing when it subscribes again.  *)
Subscribe(x, f, qos) ==
  LET n    == LeafNode(f)
      old  == IF n \in Nodes THEN leaves[n] ELSE <<>>
      own  == {i \in DOMAIN old : id[old[i].context] = id[x]}
      new  == IF own # {} THEN [old EXCEPT ![CHOOSE i \in own : TRUE].qos = qos]
                          ELSE Append(old, [context |-> x, qos |-> qos])
      sent == RetainedHits(tree', f, retained')
  IN  /\ Operation /\ id[x] # None
      /\ Grow(Added(f), [m \in Nodes \cup {n} |-> IF m = n THEN new ELSE leaves[m]], retained)
      /\ subs' = IF own # {} THEN subs ELSE [subs EXCEPT ![x] = Slot(@, n)]
      /\ counts' = IF own # {} THEN counts ELSE [counts EXCEPT !.subscription = @ + 1]
      /\ out' = [Silent EXCEPT ![id[x]] =
                   [i \in DOMAIN sent |-> <<sent[i], Lower(retained'[sent[i]], qos)>>]]
      /\ UNCHANGED id

(* sub__remove, as handle__unsubscribe calls it.                            *)
Unsubscribe(x, f) ==
  LET n    == LeafNode(f)
      own  == IF n \in Nodes THEN {i \in DOMAIN leaves[n] : leaves[n][i].context = x} ELSE {}
      left == IF own = {} THEN leaves
              ELSE [leaves EXCEPT ![n] = Only(@, DOMAIN @ \ own)]
  IN  /\ Operation /\ id[x] # None
      /\ Grow(Pruned(tree, {n}, left, retained), left, retained)
      /\ subs' = IF own = {} THEN subs
                 ELSE [subs EXCEPT ![x] = [i \in DOMAIN @ |-> IF @[i] = n THEN NoNode ELSE @[i]]]
      /\ counts' = [counts EXCEPT !.subscription = @ - Cardinality(own)]
      /\ out' = Silent
      /\ UNCHANGED id

(* Mutant: clearing counts even when nothing was retained.                  *)
RetainedChange_Always(retain, empty, had) ==
  (IF retain /\ ~empty THEN 1 ELSE 0) - (IF retain /\ (had \/ empty) THEN 1 ELSE 0)

(* retain__process: what a message changes db->retained_count by.           *)
RetainedChange(retain, empty, had) ==
  (IF retain /\ ~empty THEN 1 ELSE 0) - (IF retain /\ had THEN 1 ELSE 0)

(* sub__messages_queue: the node of a message to be retained is made first, *)
(* if there is a root for it.                                               *)
Publish(str, qos, retain, empty) ==
  LET n     == LeafNode(str)
      grown == IF retain THEN Added(str) ELSE tree
      had   == n \in Nodes /\ retained[n] # None
      to    == Receivers(Hits(grown, str), qos)
  IN  /\ Operation /\ Node(str, 1) \in Nodes
      /\ Grow(grown, leaves, [m \in Nodes \cup {n} |->
           IF m = n /\ retain THEN IF empty THEN None ELSE qos
           ELSE IF m \in Nodes THEN retained[m] ELSE None])
      /\ counts' = [counts EXCEPT !.retained = @ + RetainedChange(retain, empty, had)]
      /\ out' = [c \in Clients |->
                   LET mine == SelectSeq(to, LAMBDA r : r.client = c)
                   IN  [i \in DOMAIN mine |-> <<n, mine[i].qos>>]]
      /\ UNCHANGED <<subs, id>>

-----------------------------------------------------------------------------
(* Mutant: the leaves keep the context that is taken over.                  *)
Renamed_Keeps(s, y, x) == s

Renamed(s, y, x) == [i \in DOMAIN s |-> IF s[i].context = y THEN [s[i] EXCEPT !.context = x] ELSE s[i]]

(* handle__connect: the new context x takes over the subscriptions of the   *)
(* one the client had, or that one is left to be freed with them.           *)
Connect(c, x) ==
  /\ Operation /\ id[x] = None /\ subs[x] = <<>>
  /\ out' = Silent
  /\ \E moves \in BOOLEAN :
       LET found == {y \in Contexts : id[y] = c}
           y     == CHOOSE y \in found : TRUE
       IN  IF found # {} /\ moves
           THEN /\ id' = [id EXCEPT ![x] = c, ![y] = None]
                /\ subs' = [subs EXCEPT ![x] = subs[y], ![y] = <<>>]
                /\ leaves' = [n \in Nodes |->
                     IF \E i \in DOMAIN subs[y] : subs[y][i] = n
                     THEN Renamed(leaves[n], y, x) ELSE leaves[n]]
                /\ UNCHANGED <<tree, retained, counts>>
           ELSE /\ id' = [z \in Contexts |-> IF z = x THEN c ELSE IF z \in found THEN None ELSE id[z]]
                /\ UNCHANGED <<tree, leaves, retained, subs, counts>>

(* A clean session ends, or a session expires: the context loses its id.    *)
Discard(x) ==
  /\ id[x] # None /\ id' = [id EXCEPT ![x] = None] /\ out' = Silent
  /\ UNCHANGED <<tree, leaves, retained, subs, counts, ops>>

(* context__free_disused and sub__clean_session: the leaves that are found  *)
(* at the nodes of the contexts go, and the branches that nothing needs     *)
(* then.                                                                    *)
Free ==
  LET gone == {x \in Contexts : id[x] = None /\ subs[x] # <<>>}
      of(x) == {subs[x][i] : i \in DOMAIN subs[x]}
      found == [n \in Nodes |-> {i \in DOMAIN leaves[n] :
                  leaves[n][i].context \in gone /\ n \in of(leaves[n][i].context)}]
      left == [n \in Nodes |-> Only(leaves[n], DOMAIN leaves[n] \ found[n])]
  IN  /\ gone # {}
      /\ Grow(Pruned(tree, {n \in Nodes : \E x \in gone : n \in of(x)}, left, retained), left, retained)
      /\ subs' = [x \in Contexts |-> IF x \in gone THEN <<>> ELSE subs[x]]
      /\ counts' = [counts EXCEPT !.subscription = @ - Cardinality(PairsIn(found))]
      /\ out' = Silent
      /\ UNCHANGED <<id, ops>>

Next ==
  \/ \E x \in Contexts :
       \/ \E f \in Filters : Unsubscribe(x, f) \/ \E qos \in QoS : Subscribe(x, f, qos)
       \/ Discard(x) \/ \E c \in Clients : Connect(c, x)
  \/ \E str \in TopicNames, qos \in QoS, retain, empty \in BOOLEAN : Publish(str, qos, retain, empty)
  \/ Free

Spec == Init /\ [][Next]_vars

-----------------------------------------------------------------------------
(* sub__clean_session and the takeover reach the leaves of a context by     *)
(* context->subs only: it holds each node with such a leaf exactly once,    *)
(* and no other, so none that was freed.  No node has two leaves of one     *)
(* client that is alive.                                                    *)
BackReferences ==
  /\ \A x \in Contexts, n \in Nodes :
       Cardinality({i \in DOMAIN leaves[n] : leaves[n][i].context = x})
         = Cardinality({i \in DOMAIN subs[x] : subs[x][i] = n})
  /\ \A x \in Contexts : \A i \in DOMAIN subs[x] : subs[x][i] \in Nodes \cup {NoNode}
  /\ \A n \in Nodes : \A i, j \in DOMAIN leaves[n] :
       id[leaves[n][i].context] = id[leaves[n][j].context] /\ id[leaves[n][i].context] # None
         => i = j

(* db->subscription_count and retained_count, which $SYS publishes, are     *)
(* kept by six functions one by one and are what the tree holds.            *)
CountsExact ==
  /\ counts.subscription = Cardinality(PairsIn([n \in Nodes |-> DOMAIN leaves[n]]))
  /\ counts.retained = Cardinality({n \in Nodes : retained[n] # None})

(* Branches do not pile up: only a message that clears a retained one, or   *)
(* finds none to clear, leaves a node that nothing needs.                   *)
Unused == {n \in Nodes : ~Keeps(n, tree, leaves, retained)}

PrunesBranches ==
  [][\A n \in Unused' \ Unused : n \in Nodes => retained[n] # None]_vars

(* The tree implements Topics: who has which filter, what is retained and   *)
(* what is sent, through pruning, takeovers and contexts not yet freed.     *)
Filtered(c, f) ==
  LET n   == LeafNode(f)
      own == IF n \in Nodes THEN {i \in DOMAIN leaves[n] : id[leaves[n][i].context] = c} ELSE {}
  IN  IF own = {} THEN None ELSE leaves[n][CHOOSE i \in own : TRUE].qos

T == INSTANCE Topics WITH
  filters <- [c \in Clients |-> [f \in Filters |-> Filtered(c, f)]],
  kept    <- [str \in TopicNames |-> IF LeafNode(str) \in Nodes THEN retained[LeafNode(str)] ELSE None],
  sent    <- [c \in Clients |-> [x \in TopicNames \X QoS |->
                Cardinality({i \in DOMAIN out[c] : out[c][i] = <<LeafNode(x[1]), x[2]>>})]]

ImplementsTopics == T!Spec
=============================================================================
