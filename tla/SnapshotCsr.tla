----------------------------- MODULE SnapshotCsr -----------------------------
(***************************************************************************)
(* snapshot.rs: a graph as the arrays of a V2 snapshot, the sweep that     *)
(* decides whether such arrays may be opened, and the two ways to read     *)
(* them: rebuilt into an owned graph, or in place through the archived     *)
(* view, which finds a name by a hash probe and an edge by an offset.      *)
(* Before there is a store, the graph may go through V0 bytes as well.     *)
(*                                                                         *)
(* The fields of an edge that ride along are further keys after kind in    *)
(* the edge order.                                                         *)
(***************************************************************************)
EXTENDS GraphBuilder

CONSTANTS
  Hashes,    \* the values fnv1a takes
  Inputs,    \* what build_graph may be given
  MaxChanges \* bound: cells a file may differ in from what was written

VARIABLES
  fnv1a,   \* the hash of each name
  base,    \* what is open: nothing, an owned graph, a view of V0 bytes or,
           \* in a store, of the snapshot
  archive, \* V0 bytes a program keeps
  mode,    \* the writer's BaseMode: what a compaction leaves open
  file,    \* the snapshot on disk
  trusted, \* the file is what to_rkyv_v2 wrote
  changes

vars == <<fnv1a, base, archive, mode, file, trusted, changes>>

ASSUME SnapshotAssumption ==
  /\ Hashes \subseteq Nat /\ MaxChanges \in Nat
  /\ \A in \in Inputs : in \in [nodes: Seq(NodeData), edges: Seq(EdgeInputs)]

EMPTY_BUCKET == -1
NotFound     == -1
NoFile       == [nodes |-> << >>]
NoBase       == [is |-> "None"]

(***************************************************************************)
(* Writing.                                                                *)
(***************************************************************************)
bucket_capacity(n) ==
  LET want == Max({(n * 10) \div 7 + 1, n + 1})
      power[k \in 0 .. n + 1] == IF k = 0 THEN 1 ELSE 2 * power[k - 1]
  IN Min({m \in {power[k] : k \in 1 .. n + 1} : m >= want})

Home(x, m)       == fnv1a[x] % m
Step(slot, k, m) == (slot + k) % m

(* The first empty slot at or after slot, around the end of the table.     *)
FirstFree(buckets, slot) ==
  LET m == Size(buckets)
      k == Min({j \in 0 .. m - 1 : buckets[Step(slot, j, m)] = EMPTY_BUCKET})
  IN Step(slot, k, m)

(* Nodes go in in name order, so the table is a function of the names.     *)
build_name_buckets(nodes) ==
  LET m == bucket_capacity(Len(nodes))
      Insert(buckets, i) ==
        [buckets EXCEPT ![FirstFree(buckets, Home(nodes[i].name, m))] = i - 1]
      table[i \in 0 .. Len(nodes)] ==
        IF i = 0 THEN [s \in 0 .. m - 1 |-> EMPTY_BUCKET] ELSE Insert(table[i - 1], i)
  IN table[Len(nodes)]

(* Mutant: grouped by target, as the incoming index is.                    *)
EdgeBeforeByTarget(a, b) ==
  a.to_idx < b.to_idx \/ (a.to_idx = b.to_idx /\ a.from_idx < b.from_idx)

(* Mutant: parallel edges stay in insertion order.                         *)
EdgeBeforeWithTies(a, b) ==
  a.from_idx < b.from_idx \/ (a.from_idx = b.from_idx /\ a.to_idx < b.to_idx)

EdgeBefore(a, b) ==
  \/ a.from_idx < b.from_idx
  \/ a.from_idx = b.from_idx /\ a.to_idx < b.to_idx
  \/ a.from_idx = b.from_idx /\ a.to_idx = b.to_idx /\ a.kind < b.kind

(* How many edges have their endpoint below i: a count and a prefix sum.   *)
Offsets(n, edges, end) ==
  [i \in 0 .. n |-> Cardinality({k \in DOMAIN edges : edges[k][end] < i})]

(* Mutant: 0 .. E is never sorted.                                         *)
InMirrorUnsorted(edges) == [k \in 1 .. Size(edges) |-> k - 1]

InMirror(edges) ==
  LET Before(x, y) == \/ edges[x].to_idx < edges[y].to_idx
                      \/ edges[x].to_idx = edges[y].to_idx /\ x < y
  IN InOrder(DOMAIN edges, Before)

to_rkyv_v2(g) ==
  LET nodes  == ByName(g.nodes)
      idx    == [x \in NodeNames(g) |-> CHOOSE i \in DOMAIN nodes : nodes[i].name = x]
      Csr(e) == [from_idx |-> idx[e.from] - 1, to_idx |-> idx[e.to] - 1,
                 kind |-> e.kind]
      edges  == Array(Sorted([k \in DOMAIN g.edges |-> Csr(g.edges[k])], EdgeBefore))
  IN [nodes |-> Array(nodes), edges |-> edges,
      node_offsets |-> Offsets(Len(nodes), edges, "from_idx"),
      in_offsets |-> Offsets(Len(nodes), edges, "to_idx"),
      in_mirror |-> Array(InMirror(edges)),
      name_buckets |-> build_name_buckets(nodes)]

(***************************************************************************)
(* The sweep of Validate::Full, each group of checks a conjunct.           *)
(***************************************************************************)
StrictlySorted(a) == \A i \in 1 .. Size(a.nodes) - 1 : a.nodes[i - 1].name < a.nodes[i].name

CanonicalTable(a) ==
  /\ Size(a.name_buckets) = bucket_capacity(Size(a.nodes))
  /\ LET used == {s \in DOMAIN a.name_buckets : a.name_buckets[s] # EMPTY_BUCKET}
     IN /\ \A s \in used : a.name_buckets[s] \in DOMAIN a.nodes
        /\ \A s, t \in used : a.name_buckets[s] = a.name_buckets[t] => s = t
        /\ Cardinality(used) = Size(a.nodes)

(* Mutant: a wrapped path is counted from the start of the table only.     *)
EmptiesBetweenUnwrapped(buckets, home, slot) ==
  LET empties(s) == Cardinality({t \in 0 .. s - 1 : buckets[t] = EMPTY_BUCKET})
  IN IF home <= slot THEN empties(slot) - empties(home) ELSE empties(slot)

(* Counted from prefix sums: forward, or around the end of the table.      *)
EmptiesBetween(buckets, home, slot) ==
  LET empties(s) == Cardinality({t \in 0 .. s - 1 : buckets[t] = EMPTY_BUCKET})
  IN IF home <= slot THEN empties(slot) - empties(home)
     ELSE (empties(Size(buckets)) - empties(home)) + empties(slot)

Reachable(a) ==
  \A slot \in DOMAIN a.name_buckets :
    a.name_buckets[slot] # EMPTY_BUCKET =>
      EmptiesBetween(a.name_buckets,
                     Home(a.nodes[a.name_buckets[slot]].name, Size(a.name_buckets)), slot) = 0

EndpointsInRange(a) == \A k \in DOMAIN a.edges : Inside(a, a.edges[k])

OffsetsInShape(a, offsets) ==
  /\ Size(offsets) = Size(a.nodes) + 1
  /\ offsets[0] = 0 /\ offsets[Size(a.nodes)] = Size(a.edges)
  /\ \A i \in DOMAIN a.nodes : offsets[i] <= offsets[i + 1]

Group(offsets, i) == offsets[i] .. offsets[i + 1] - 1

OutgoingGrouped(a) ==
  \A i \in DOMAIN a.nodes : \A k \in Group(a.node_offsets, i) : a.edges[k].from_idx = i

(* Mutant: an edge may be mirrored twice.                                  *)
MirrorInRange(a) ==
  Size(a.in_mirror) = Size(a.edges) /\ Range(a.in_mirror) \subseteq DOMAIN a.edges

MirrorIsPermutation(a) ==
  /\ Size(a.in_mirror) = Size(a.edges)
  /\ Range(a.in_mirror) \subseteq DOMAIN a.edges
  /\ IsInjective(a.in_mirror)

IncomingGrouped(a) ==
  \A j \in DOMAIN a.nodes :
    \A k \in Group(a.in_offsets, j) : a.edges[a.in_mirror[k]].to_idx = j

validate_csr(a) ==
  /\ StrictlySorted(a)
  /\ CanonicalTable(a) /\ Reachable(a)
  /\ EndpointsInRange(a)
  /\ OffsetsInShape(a, a.node_offsets) /\ OutgoingGrouped(a)
  /\ OffsetsInShape(a, a.in_offsets)
  /\ MirrorIsPermutation(a) /\ IncomingGrouped(a)

(***************************************************************************)
(* Reading.  The archived view answers without an index of its own.        *)
(***************************************************************************)
(* The probe ends at the first slot that is empty, names x or is no node.  *)
idx_of(a, x) ==
  LET m     == Size(a.name_buckets)
      At(k) == a.name_buckets[Step(Home(x, m), k, m)]
      ends  == {k \in 0 .. m - 1 : At(k) \notin DOMAIN a.nodes \/ a.nodes[At(k)].name = x}
  IN IF ends = {} \/ At(Min(ends)) \notin DOMAIN a.nodes THEN NotFound ELSE At(Min(ends))

(* The slots a listing reads; it stops at the first that is out of bounds. *)
Slots(offsets, bound, i) ==
  IF {i, i + 1} \subseteq DOMAIN offsets
  THEN offsets[i] .. Min({offsets[i + 1], bound}) - 1 ELSE {}

(* How often the listing for node i holds edge k.                          *)
Outgoing(a, i, k) == IF k \in Slots(a.node_offsets, Size(a.edges), i) THEN 1 ELSE 0
Incoming(a, i, k) ==
  Cardinality({s \in Slots(a.in_offsets, Size(a.in_mirror), i) : a.in_mirror[s] = k})

(* The listing a reader of the snapshot gets by name, in file order: it    *)
(* gives the other ends, of edges that it takes for x's own.               *)
csr_neighbors(a, x, end) ==
  LET i       == idx_of(a, x)
      slots   == IF end = "from" THEN Slots(a.node_offsets, Size(a.edges), i)
                 ELSE Slots(a.in_offsets, Size(a.in_mirror), i)
      edge(s) == a.edges[IF end = "from" THEN s ELSE a.in_mirror[s]]
      far(s)  == IF end = "from" THEN edge(s).to_idx ELSE edge(s).from_idx
      known   == InOrder({s \in slots : far(s) \in DOMAIN a.nodes}, <)
      Listed(s) == LET y == a.nodes[far(s)].name IN
                   [from |-> IF end = "from" THEN x ELSE y,
                    to |-> IF end = "from" THEN y ELSE x, kind |-> edge(s).kind]
  IN IF i = NotFound THEN << >> ELSE [k \in DOMAIN known |-> Listed(known[k])]

(* The accessor of what is open: its nodes, and both listings of a name.   *)
Owned(g)  == [is |-> "Owned", graph |-> g]
View(a)   == [is |-> "View", file |-> a]
Mapped(a) == [is |-> "Archived", file |-> a]

NodesOf(b) == IF b.is = "Owned" THEN b.graph.nodes ELSE Values(b.file.nodes)

Neighbors(b, x, end) ==
  CASE b.is = "Owned"    -> graph_neighbors(b.graph, x, end)
    [] b.is = "View"     -> view_neighbors(b.file, x, IF end = "from" THEN "from_idx" ELSE "to_idx")
    [] b.is = "Archived" -> csr_neighbors(b.file, x, end)

(* One name's listing after the other.                                     *)
Listings(b, end) ==
  LET nodes == ByName(NodesOf(b))
  IN FlattenSeq([i \in DOMAIN nodes |-> Neighbors(b, nodes[i].name, end)])

materialize(b) == [nodes |-> ByName(NodesOf(b)), edges |-> Listings(b, "from")]

(***************************************************************************)
(* A graph and its V0 bytes, before there is a store.                      *)
(***************************************************************************)
Init ==
  /\ fnv1a \in [Names -> Hashes]
  /\ \E in \in Inputs : base = Owned(build_graph(in.nodes, in.edges))
  /\ archive = NoFile /\ mode = "Mmap"
  /\ file = NoFile /\ trusted = FALSE /\ changes = 0

(* An archived graph does not write itself.                                *)
ToRkyv ==
  /\ file = NoFile /\ base.is = "Owned"
  /\ archive' = to_rkyv(base.graph)
  /\ UNCHANGED <<fnv1a, base, mode, file, trusted, changes>>

FromRkyv ==
  /\ base = NoBase /\ archive # NoFile
  /\ \/ from_bytes(archive) /\ base' = View(archive)
     \/ base' = Owned(rebuild_from_serialized(archive))
  /\ UNCHANGED <<fnv1a, archive, mode, file, trusted, changes>>

(* close of the graph object.                                              *)
CloseGraph ==
  /\ base # NoBase /\ archive # NoFile
  /\ base' = NoBase
  /\ UNCHANGED <<fnv1a, archive, mode, file, trusted, changes>>

(* Some other writer's bytes: an end of an edge differs.                   *)
OtherArchive ==
  /\ base = NoBase /\ archive # NoFile /\ changes < MaxChanges
  /\ \E k \in DOMAIN archive.edges, end \in {"from_idx", "to_idx"}, i \in 0 .. Size(archive.nodes) :
       archive' = [archive EXCEPT !.edges[k][end] = i]
  /\ archive' # archive /\ changes' = changes + 1
  /\ UNCHANGED <<fnv1a, base, mode, file, trusted>>

(***************************************************************************)
(* The life of a snapshot file.                                            *)
(***************************************************************************)
(* create writes the graph it was given and keeps it open as it is, though *)
(* the mode it starts in is the default, Mmap.  (A bound: V0 bytes are     *)
(* dropped by then.)                                                       *)
create ==
  /\ file = NoFile /\ base.is = "Owned"
  /\ file' = to_rkyv_v2(base.graph) /\ trusted' = TRUE
  /\ archive' = NoFile
  /\ UNCHANGED <<fnv1a, base, mode, changes>>

(* An edge this program lists had a window when it came in.  (Windows are  *)
(* not kept with the edges: a foreign file's inverted one is left out.)    *)
AsInputs(edges) ==
  [k \in DOMAIN edges |-> [from |-> edges[k].from, to |-> edges[k].to,
                           kind |-> edges[k].kind, inverted |-> FALSE]]

(* A fold of a delta that changes nothing in the end: the base is read,    *)
(* rebuilt and written, and what is open is the folded graph itself or the *)
(* new file, mapped without validation.                                    *)
compact ==
  /\ base # NoBase /\ file # NoFile
  /\ LET live   == materialize(base)
         folded == build_graph(live.nodes, AsInputs(live.edges)) IN
       /\ file' = to_rkyv_v2(folded) /\ trusted' = TRUE
       /\ base' = IF mode = "Owned" THEN Owned(folded) ELSE Mapped(file')
  /\ UNCHANGED <<fnv1a, archive, mode, changes>>

Close ==
  /\ base # NoBase /\ file # NoFile
  /\ base' = NoBase
  /\ UNCHANGED <<fnv1a, archive, mode, file, trusted, changes>>

(* Full sweeps the file.  Crc takes it as it is, and is for a file that    *)
(* this program wrote.                                                     *)
open_snapshot(how, validate) ==
  /\ base = NoBase /\ file # NoFile
  /\ validate = "Full" => validate_csr(file)
  /\ validate = "Crc" => trusted
  /\ base' = IF how = "Owned" THEN Owned(rebuild_from_serialized(file)) ELSE Mapped(file)
  /\ mode' = how
  /\ UNCHANGED <<fnv1a, archive, file, trusted, changes>>

(* Some other writer's file, its crc right: a cell differs, or one is      *)
(* missing at the end of an array.                                         *)
CellValues(part) ==
  CASE part = "nodes" -> NodeData
    [] part = "edges" -> [from_idx: 0 .. Cardinality(Names), to_idx: 0 .. Cardinality(Names), kind: Kinds]
    [] part = "name_buckets" -> {EMPTY_BUCKET} \cup 0 .. Cardinality(Names)
    [] OTHER -> 0 .. Size(file.edges)

Miswrite(part) ==
  \/ \E i \in DOMAIN file[part] : \E v \in CellValues(part) :
       file' = [file EXCEPT ![part] = [@ EXCEPT ![i] = v]]
  \/ /\ DOMAIN file[part] # {}
     /\ file' = [file EXCEPT ![part] = Restrict(@, 0 .. Size(@) - 2)]

OtherWriter ==
  /\ base = NoBase /\ file # NoFile /\ changes < MaxChanges
  /\ \E part \in DOMAIN file : Miswrite(part)
  /\ file' # file /\ trusted' = FALSE /\ changes' = changes + 1
  /\ UNCHANGED <<fnv1a, base, archive, mode>>

Next ==
  \/ ToRkyv \/ FromRkyv \/ CloseGraph \/ OtherArchive
  \/ create \/ compact \/ Close \/ OtherWriter
  \/ \E how \in {"Owned", "Mmap"}, validate \in {"Full", "Crc"} :
       open_snapshot(how, validate)

Spec == Init /\ [][Next]_vars

(***************************************************************************)
(* Properties.                                                             *)
(***************************************************************************)
(* What to_rkyv_v2 writes, validate_csr accepts, whatever the hashes of    *)
(* the names: a store never refuses its own snapshot.                      *)
SelfWrittenValidates == trusted => validate_csr(file)

(* In a file that was opened, the probe of idx_of finds every node under   *)
(* its own name and nothing under any other, though the sweep never probes *)
(* and only counts empty slots.                                            *)
LookupExact ==
  base.is = "Archived" =>
    \A x \in Names :
      LET at == {i \in DOMAIN base.file.nodes : base.file.nodes[i].name = x}
      IN IF at = {} THEN idx_of(base.file, x) = NotFound
         ELSE at = {idx_of(base.file, x)}

(* A graph without its insertion order.                                    *)
Bag(edges) == [e \in NamedEdges |-> Cardinality({k \in DOMAIN edges : edges[k] = e})]
Logical(g) == [nodes |-> Range(g.nodes), edges |-> Bag(g.edges)]

(* In a file that was opened, each edge is listed once by its source among *)
(* its outgoing edges, once by its target among the incoming ones, and by  *)
(* no other node: the two listings, each through an index of its own, and  *)
(* the owned rebuild, which reads neither, tell of the same edges.  So do  *)
(* the listings by name of every accessor.                                 *)
DirectionsAgree ==
  /\ base.is = "Archived" =>
       LET a == base.file
           Once(b) == IF b THEN 1 ELSE 0
       IN \A i \in DOMAIN a.nodes, k \in DOMAIN a.edges :
            /\ Outgoing(a, i, k) = Once(a.edges[k].from_idx = i)
            /\ Incoming(a, i, k) = Once(a.edges[k].to_idx = i)
  /\ base # NoBase => Bag(Listings(base, "from")) = Bag(Listings(base, "to"))

(* The graph a program holds, by its listings, and the one in the bytes it *)
(* wrote or opened, by a rebuild, are the same, from the V0 archive to the *)
(* store, through writes, compactions, reopens and every kind of base.     *)
HeldIsWritten ==
  LET written == IF file = NoFile THEN archive ELSE file
  IN base # NoBase /\ written # NoFile =>
       Logical(materialize(base)) = Logical(rebuild_from_serialized(written))

(* A file the program wrote is determined by the nodes and edges in it: no *)
(* order in which the same graph was given, and no name given twice on the *)
(* way, would have led to other bytes.                                     *)
Deterministic ==
  trusted => \A in \in Inputs :
    LET g == build_graph(in.nodes, in.edges)
    IN Logical(g) = Logical(rebuild_from_serialized(file)) => to_rkyv_v2(g) = file
=============================================================================
