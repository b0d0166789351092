--------------------------- MODULE SnapshotGraph ---------------------------
(***************************************************************************)
(* The framework snapshots of one framework path, as db/code_graph_store.py *)
(* keeps them and services/framework_indexer.py names them: the identity of *)
(* a snapshot is its repository and the content of the framework it was     *)
(* taken of.  A graph is the set of identities in each status; these        *)
(* operators are the writes of the store, one transaction each.             *)
(***************************************************************************)
CONSTANTS
  Repos,     \* repository_id: token of the path, or the project's name
  Contents   \* contents a framework can have (filesystem_checksum)

Ids == Repos \X Contents
RepoOf(id) == id[1]
ContentOf(id) == id[2]

Graph == [building : SUBSET Ids, ready : SUBSET Ids, failed : SUBSET Ids, active : SUBSET Ids]
NoSnapshots == [building |-> {}, ready |-> {}, failed |-> {}, active |-> {}]

\* begin_snapshot: an upsert, whatever the snapshot was before.
Begun(g, id) ==
  [building |-> g.building \cup {id}, ready |-> g.ready \ {id},
   failed |-> g.failed \ {id}, active |-> g.active \ {id}]

SamePath(g, id) == g.active   \* mutant: whatever describes the same framework

SameRepo(g, id) == {other \in g.active : RepoOf(other) = RepoOf(id)}

\* activate_snapshot of a building snapshot.
Activated(g, id) ==
  [building |-> g.building \ {id}, ready |-> g.ready \cup {id}, failed |-> g.failed,
   active |-> (g.active \ SameRepo(g, id)) \cup {id}]

\* mark_snapshot_failed: nothing happens to an unknown or a ready snapshot.
MarkedFailed(g, id) ==
  IF id \in g.building \cup g.failed
  THEN [g EXCEPT !.building = @ \ {id}, !.failed = @ \cup {id}]
  ELSE g

\* find_ready_snapshot by exact content, ORDER BY active DESC LIMIT 1.
FindReady(g, content) ==
  LET ready == {id \in g.ready : ContentOf(id) = content}
  IN IF ready \cap g.active # {} THEN ready \cap g.active ELSE ready
=============================================================================
