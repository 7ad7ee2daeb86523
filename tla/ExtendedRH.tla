----------------------------- MODULE ExtendedRH -----------------------------
(***************************************************************************)
(* ExtendedRH::init() (plugin-lib/extended_rh.cpp) checks the tree of the  *)
(* resource hierarchy, which "can be built [...] in a wrong way", against  *)
(* the lists of clusters, partitions and nodes, and finds the cluster and  *)
(* the innermost partition of every node; FcfsImplementation::init() takes *)
(* from it the nodes of each cluster that can be used.                     *)
(***************************************************************************)
EXTENDS Integers, Sequences, SequencesExt, FiniteSetsExt

CONSTANTS Items,         \* the items of hierarchies, with their names and ids
          Children       \* for each item the sequence of the items inside it

Ids(entities) == {entities[i].id : i \in DOMAIN entities}
Known(info, name) ==
  CASE name = "cluster" -> Ids(info.clusters)
    [] name = "partition" -> Ids(info.partitions)
    [] name = "node" -> Ids(info.nodes)

\* What has been found so far: the ids met of each kind, the partition and the cluster
\* of each node, and whether an error was found.
ItemIds == {item.id : item \in Items}
Met == {"cluster", "partition", "node"} \X ItemIds
Pairs == ItemIds \X ItemIds
Sofars ==
  [ok : BOOLEAN, met : SUBSET Met, nodes_to_parts : SUBSET Pairs,
   nodes_to_clusters : SUBSET Pairs, parts_to_clusters : SUBSET Pairs]
NothingMet ==
  [ok |-> TRUE, met |-> {}, nodes_to_parts |-> {}, nodes_to_clusters |-> {},
   parts_to_clusters |-> {}]

-----------------------------------------------------------------------------
\* check_rh_and_extract_item()

Unmet(item, name, rh) == <<name, item.id>> \notin rh.met

Extracts_ById(item, name, info, rh) == item.id \in Known(info, name) /\ Unmet(item, name, rh)
Extracts(item, name, info, rh) ==
  item.id \in Known(info, name) /\ item.name = name /\ Unmet(item, name, rh)

\* The code returns at the first error; here the rest is looked at in vain.
Meet(item, name, info, rh) ==
  [rh EXCEPT !.ok = @ /\ Extracts(item, name, info, rh), !.met = @ \cup {<<name, item.id>>}]

-----------------------------------------------------------------------------
\* parse_node(), parse_part(), parse_cluster() and init(), each of which goes through the
\* items of a list in their order; `above' are the items that the list is in

\* A grid holds clusters, a cluster partitions, and a partition nodes and partitions.
TakenFor(item, above) ==
  CASE Len(above) = 0 -> "cluster"
    [] Len(above) = 1 -> "partition"
    [] OTHER -> IF item.name = "partition" THEN "partition" ELSE "node"

ParseNode(item, above, info, rh) ==
  LET met == Meet(item, "node", info, rh)
  IN  [met EXCEPT !.ok = @ /\ Children[item] = <<>>,
                  !.nodes_to_parts = @ \cup {<<item.id, Last(above).id>>},
                  !.nodes_to_clusters = @ \cup {<<item.id, above[1].id>>}]

PartParsed(item, above, rh) ==
  [rh EXCEPT !.parts_to_clusters = @ \cup {<<item.id, above[1].id>>}]

\* The hierarchy begins with a grid or with the clusters.
Root(info) ==
  IF Len(info.rh) = 1 /\ info.rh[1].name = "grid" THEN Children[info.rh[1]] ELSE info.rh

Call(items, above, rh) == [items |-> items, above |-> above, rh |-> rh]
Calls == [items : Seq(Items), above : Seq(Items), rh : Sofars]

Relations(info) ==
  LET Parsed[call \in Calls] ==
        IF call.items = <<>> THEN call.rh
        ELSE LET item == Last(call.items)
                 name == TakenFor(item, call.above)
                 before == Parsed[Call(Front(call.items), call.above, call.rh)]
                 inside == Parsed[Call(Children[item], Append(call.above, item),
                                       Meet(item, name, info, before))]
             IN  CASE name = "node" -> ParseNode(item, call.above, info, before)
                   [] name = "partition" -> PartParsed(item, call.above, inside)
                   [] name = "cluster" -> inside
  IN  Parsed[Call(Root(info), <<>>, NothingMet)]

-----------------------------------------------------------------------------
\* FcfsImplementation::init() with relations that are fine

Related(pairs, x) == (CHOOSE p \in pairs : p[1] = x)[2]

\* Of entities with the same id the maps of ids keep the last.
Kept(entities, i) == \A j \in DOMAIN entities : entities[j].id = entities[i].id => j <= i
ById(entities, id) ==
  entities[CHOOSE i \in DOMAIN entities : entities[i].id = id /\ Kept(entities, i)]

\* Every node is looked up: one that is not in the hierarchy is an exception, and so is
\* one whose id another node has in the map.
Absent_ById(info, rh) ==
  {i \in DOMAIN info.nodes : \A p \in rh.nodes_to_clusters : p[1] # info.nodes[i].id}
Absent(info, rh) ==
  {i \in DOMAIN info.nodes :
     Kept(info.nodes, i) => \A p \in rh.nodes_to_clusters : p[1] # info.nodes[i].id}

Usable(node, info, rh) ==
  \/ node.template
  \/ /\ node.up
     /\ ById(info.clusters, Related(rh.nodes_to_clusters, node.id)).up
     /\ ById(info.partitions, Related(rh.nodes_to_parts, node.id)).up

FcfsReady(info) == LET rh == Relations(info) IN rh.ok /\ Absent(info, rh) = {}

\* nodes_per_cluster_, by the ids of the nodes
NodesPerCluster(info) ==
  LET rh == Relations(info)
      UsableIn(c) == {i \in DOMAIN info.nodes :
                        /\ Related(rh.nodes_to_clusters, info.nodes[i].id) = c
                        /\ Usable(info.nodes[i], info, rh)}
  IN  [c \in Ids(info.clusters) |-> {info.nodes[i].id : i \in UsableIn(c)}]

-----------------------------------------------------------------------------
\* The same, said of the tree's paths: a path is the sequence of the steps that lead to an
\* item, each to a place in a list and the item there

Paths[items \in Seq(Items)] ==
  UNION {{<<[at |-> i, item |-> items[i]]>> \o p : p \in {<<>>} \cup Paths[Children[items[i]]]} :
           i \in DOMAIN items}

Found(path) == Last(path).item
Key(path) == <<Found(path).name, Found(path).id>>

\* A path of an item in its place; what is `deep' below has as many items above it.
InPlace(path, deep, info) ==
  /\ Found(path).name \in (CASE Len(path) + deep = 1 -> {"cluster"}
                             [] Len(path) + deep = 2 -> {"partition"}
                             [] OTHER -> {"partition", "node"})
  /\ Found(path).id \in Known(info, Found(path).name)
  /\ Found(path).name = "node" => Children[Found(path)] = <<>>

WellFormed(info) ==
  LET paths == Paths[Root(info)]
  IN  /\ \A p \in paths : InPlace(p, 0, info)
      /\ \A p, q \in paths : Key(p) = Key(q) => p = q

\* The nodes below each cluster, whose partition is the last step but one.
Places(info) ==
  {[node |-> Found(p).id, cluster |-> p[1].item.id, part |-> p[Len(p) - 1].item.id] :
     p \in {q \in Paths[Root(info)] : Found(q).name = "node"}}
=============================================================================
