------------------------------ MODULE Reactions ------------------------------
(***************************************************************************)
(* Likes and bookmarks: PostService.toggle_like, BookmarkService.add and   *)
(* remove, and app/repositories/bookmark.py.  Each handler looks before it *)
(* writes; the unique constraint on (user, post) is what is left when two  *)
(* requests looked at the same time.                                       *)
(***************************************************************************)
EXTENDS Integers

CONSTANTS Users, Posts, Requests,
          MaxRows,   \* bound: rows ever inserted
          None

ASSUME MaxRowsAssumption == MaxRows \in Nat

Keys == {"like", "bookmark"} \X Users \X Posts   \* one table each, one row per key

VARIABLES rows,      \* id of the row of each key, 0 when there is none
          deleted,   \* soft-deleted posts
          last,      \* rows inserted so far: ids are fresh
          req,       \* [op, pc, key, row]: row is the id the request has loaded or inserted
          hist       \* history: rows inserted for each key, answers that said "removed"

vars == <<rows, deleted, last, req, hist>>

Ops == {"toggle", "add", "remove"}
PCs == {"idle", "post", "row", "insert", "delete", "reload", "added", "removed", "refused"}

TypeOK ==
  /\ rows \in [Keys -> 0 .. last]
  /\ deleted \subseteq Posts
  /\ last \in 0 .. MaxRows
  /\ req \in [Requests -> [op : Ops \cup {"none"}, pc : PCs, key : Keys \cup {None}, row : 0 .. last]]
  /\ hist \in [on : [Keys -> Nat], off : [Keys -> Nat]]

Idle == [op |-> "none", pc |-> "idle", key |-> None, row |-> 0]

Init ==
  /\ rows = [k \in Keys |-> 0]
  /\ deleted = {}
  /\ last = 0
  /\ req = [r \in Requests |-> Idle]
  /\ hist = [on |-> [k \in Keys |-> 0], off |-> [k \in Keys |-> 0]]

Key(r) == req[r].key
Goto(r, pc) == req' = [req EXCEPT ![r].pc = pc]
GotoWith(r, pc, row) == req' = [req EXCEPT ![r].pc = pc, ![r].row = row]

Begin(r) == \E op \in Ops : \E k \in Keys :
  /\ req[r].pc = "idle"
  /\ (op = "toggle") <=> (k[1] = "like")
  /\ req' = [req EXCEPT ![r] = [op |-> op, key |-> k, row |-> 0,
                                pc |-> IF op = "remove" THEN "row" ELSE "post"]]
  /\ UNCHANGED <<rows, deleted, last, hist>>

\* get_by_id does not find a deleted post.
LoadPost(r) ==
  /\ req[r].pc = "post"
  /\ \/ Key(r)[3] \in deleted /\ Goto(r, "refused")
     \/ Key(r)[3] \notin deleted /\ Goto(r, "row")
  /\ UNCHANGED <<rows, deleted, last, hist>>

\* get_by_user_and_post decides which way the request goes.
LoadRow(r) ==
  /\ req[r].pc = "row"
  /\ LET row == rows[Key(r)] IN
     \/ req[r].op = "toggle" /\ GotoWith(r, IF row = 0 THEN "insert" ELSE "delete", row)
     \/ req[r].op = "add" /\ Goto(r, IF row = 0 THEN "insert" ELSE "refused")
     \/ req[r].op = "remove" /\ GotoWith(r, IF row = 0 THEN "refused" ELSE "delete", row)
  /\ UNCHANGED <<rows, deleted, last, hist>>

AddSameId(k) ==
  /\ last < MaxRows /\ UNCHANGED last
  /\ rows' = [rows EXCEPT ![k] = last + 1]
AddRow(k) ==
  /\ last < MaxRows /\ last' = last + 1
  /\ rows' = [rows EXCEPT ![k] = last + 1]

\* An insert that overwrites is what a missing unique constraint would be.
InsertAnyway(r) ==
  /\ req[r].pc = "insert"
  /\ AddRow(Key(r)) /\ GotoWith(r, IF req[r].op = "add" THEN "reload" ELSE "added", last + 1)
  /\ hist' = [hist EXCEPT !.on[Key(r)] = @ + 1]
  /\ UNCHANGED deleted

\* INSERT and commit; a row that came first makes it an IntegrityError, a 409.
Insert(r) ==
  /\ req[r].pc = "insert"
  /\ \/ /\ rows[Key(r)] # 0 /\ Goto(r, "refused")
        /\ UNCHANGED <<rows, last, hist>>
     \/ /\ rows[Key(r)] = 0 /\ AddRow(Key(r))
        /\ GotoWith(r, IF req[r].op = "add" THEN "reload" ELSE "added", last + 1)
        /\ hist' = [hist EXCEPT !.on[Key(r)] = @ + 1]
  /\ UNCHANGED deleted

RemovesByKey(r, row) == 0
\* DELETE by primary key: a row already gone, or replaced, is only a warning.
Removes(r, row) == IF row = req[r].row THEN 0 ELSE row

Delete(r) ==
  /\ req[r].pc = "delete"
  /\ rows' = [rows EXCEPT ![Key(r)] = Removes(r, @)]
  /\ Goto(r, "removed")
  /\ hist' = [hist EXCEPT !.off[Key(r)] = @ + 1]
  /\ UNCHANGED <<deleted, last>>

\* add reads its bookmark back: a 404 when another request has removed it since.
Reload(r) ==
  /\ req[r].pc = "reload"
  /\ Goto(r, IF rows[Key(r)] = req[r].row THEN "added" ELSE "refused")
  /\ UNCHANGED <<rows, deleted, last, hist>>

\* PostService.delete; rows of a soft-deleted post stay.
DeletePost(p) ==
  /\ p \notin deleted /\ deleted' = deleted \cup {p}
  /\ UNCHANGED <<rows, last, req, hist>>

Abort(r) ==
  /\ req[r].pc \in {"post", "row", "insert", "delete", "reload"}
  /\ Goto(r, "refused")
  /\ UNCHANGED <<rows, deleted, last, hist>>

Finish(r) ==
  /\ req[r].pc \in {"added", "removed", "refused"}
  /\ req' = [req EXCEPT ![r] = Idle]
  /\ UNCHANGED <<rows, deleted, last, hist>>

Serve(r) == LoadPost(r) \/ LoadRow(r) \/ Insert(r) \/ Delete(r) \/ Reload(r)
Next ==
  \/ \E r \in Requests : Begin(r) \/ Serve(r) \/ Abort(r) \/ Finish(r)
  \/ \E p \in Posts : DeletePost(p)

Spec == Init /\ [][Next]_vars

-----------------------------------------------------------------------------
Present(k) == IF rows[k] = 0 THEN 0 ELSE 1

\* Every row that was added and is gone was announced as removed to somebody: no
\* interleaving of inserts and deletes drops a like or a bookmark silently.
NothingLostSilently == \A k \in Keys : hist.on[k] - hist.off[k] <= Present(k)

\* A removal takes away the like or bookmark its request has loaded and no other: one
\* that was removed and added again meanwhile stays.
OnlyLoadedRowRemoved == [][\A k \in Keys : rows[k] # 0 /\ rows'[k] # rows[k] =>
  rows'[k] = 0 /\ \E r \in Requests : Key(r) = k /\ req[r].row = rows[k] /\ req'[r].pc = "removed"]_vars
=============================================================================
