------------------------------- MODULE Comments -------------------------------
(***************************************************************************)
(* Comment threads: app/services/comment_service.py and                    *)
(* app/repositories/comment.py.  Comments and posts are soft-deleted: the  *)
(* rows stay, get_by_id and the list of top-level comments pass over them, *)
(* and the replies relationship does not.                                  *)
(***************************************************************************)
EXTENDS Integers, FiniteSets

CONSTANTS Rows,      \* rows of comments, in the order they are inserted
          Posts, Requests,
          Top,       \* stands for a NULL parent_id
          None

ASSUME RowsAssumption == Rows \subseteq Nat
ASSUME TopAssumption == Top \notin Rows \cup Posts /\ Rows \cap Posts = {}

VARIABLES comments,   \* [post, parent, deleted], None for a row not there yet
          deleted,    \* soft-deleted posts
          req,        \* [op, pc, row, post, parent, deep]: deep, two levels below the row as loaded
          hist        \* history: gone, rows and posts that were deleted when the request
                      \* began; listed, the rows a list request has answered with

vars == <<comments, deleted, req, hist>>

Comment == [post : Posts, parent : Rows \cup {Top}, deleted : BOOLEAN]
Ops == {"create", "update", "delete", "list"}
PCs == {"idle", "post", "parent", "insert", "load", "write", "reload",
        "ok", "denied", "missing", "failed"}

ASSUME NoneAssumption == None \notin Comment \cup Rows \cup Posts \cup Ops \cup {Top}

Request == [op : Ops \cup {None}, pc : PCs, row : Rows \cup {None}, post : Posts \cup {None},
            parent : Rows \cup {Top, None}, deep : BOOLEAN]
History == [gone : SUBSET (Rows \cup Posts), listed : SUBSET Rows]

TypeOK ==
  /\ comments \in [Rows -> Comment \cup {None}]
  /\ deleted \subseteq Posts
  /\ req \in [Requests -> Request]
  /\ hist \in [Requests -> History]

Idle == [op |-> None, pc |-> "idle", row |-> None, post |-> None, parent |-> None,
         deep |-> FALSE]
NoHistory == [gone |-> {}, listed |-> {}]

Init ==
  /\ comments = [c \in Rows |-> None]
  /\ deleted = {}
  /\ req = [r \in Requests |-> Idle]
  /\ hist = [r \in Requests |-> NoHistory]

Exists(c) == comments[c] # None
Visible(c) == Exists(c) /\ ~comments[c].deleted
DeletedRows == {c \in Rows : Exists(c) /\ comments[c].deleted}
At(r, op, pc) == req[r].op = op /\ req[r].pc = pc
Goto(r, pc) == req' = [req EXCEPT ![r].pc = pc]
Refuse(r, pc) == req' = [req EXCEPT ![r] = [Idle EXCEPT !.pc = pc]]
Row(r) == req[r].row

Begin(r, op, pc, c, p, parent) ==
  /\ req[r].pc = "idle"
  /\ req' = [req EXCEPT ![r] = [op |-> op, pc |-> pc, row |-> c, post |-> p, parent |-> parent,
                                deep |-> FALSE]]
  /\ hist' = [hist EXCEPT ![r].gone = (DeletedRows \cup deleted) \cap
       (IF op = "list" THEN {d \in Rows : Exists(d) /\ comments[d].post = p} ELSE {c, p, parent})]
  /\ UNCHANGED <<comments, deleted>>

\* The parent is any comment the client has seen, of this post or of another.
BeginCreate(r) == \E p \in Posts, parent \in Rows \cup {Top} :
  (parent \in Rows => Exists(parent)) /\ Begin(r, "create", "post", None, p, parent)
BeginEdit(r) == \E c \in Rows, op \in {"update", "delete"} :
  Exists(c) /\ Begin(r, op, "load", c, None, None)
BeginList(r) == \E p \in Posts : Begin(r, "list", "load", None, p, None)

-----------------------------------------------------------------------------
(* create: the post, the parent, the INSERT, and the comment read back.    *)

LoadPost(r) ==
  /\ At(r, "create", "post")
  /\ \/ req[r].post \in deleted /\ Refuse(r, "missing")
     \/ req[r].post \notin deleted /\ Goto(r, IF req[r].parent = Top THEN "insert" ELSE "parent")
  /\ UNCHANGED <<comments, deleted, hist>>

AnyParent(c, p) == Visible(c)
AnyPostComment(c, p) == Exists(c) /\ comments[c].post = p
IsParentOn(c, p) == Visible(c) /\ comments[c].post = p

LoadParent(r) ==
  /\ At(r, "create", "parent")
  /\ \/ ~IsParentOn(req[r].parent, req[r].post) /\ Refuse(r, "denied")
     \/ IsParentOn(req[r].parent, req[r].post) /\ Goto(r, "insert")
  /\ UNCHANGED <<comments, deleted, hist>>

NextRow(c) == ~Exists(c) /\ \A d \in Rows : ~Exists(d) => c <= d
NewCommentNoDefault(r) ==
  [post |-> req[r].post, parent |-> req[r].parent, deleted |-> None]
NewComment(r) ==
  [post |-> req[r].post, parent |-> req[r].parent, deleted |-> FALSE]

InsertComment(r) ==
  /\ At(r, "create", "insert")
  /\ \E c \in Rows :
       /\ NextRow(c)
       /\ comments' = [comments EXCEPT ![c] = NewComment(r)]
       /\ req' = [req EXCEPT ![r].pc = "reload", ![r].row = c]
  /\ UNCHANGED <<deleted, hist>>

-----------------------------------------------------------------------------
(* Two levels of replies are loaded with a comment, deleted ones included. *)
(* Serializing a second-level reply asks for its own replies, a lazy load  *)
(* the async session cannot do.                                            *)

Below(S) == {d \in Rows : Exists(d) /\ comments[d].parent \in S}
Deep(S) == Below(Below(S)) # {}

-----------------------------------------------------------------------------
(* update and delete: load, check the actor, write the one column.         *)

LoadComment(r) ==
  /\ req[r].op \in {"update", "delete"} /\ req[r].pc = "load"
  /\ \/ ~Visible(Row(r)) /\ Refuse(r, "missing")
     \/ Visible(Row(r)) /\ Refuse(r, "denied")
     \/ /\ Visible(Row(r))
        /\ req' = [req EXCEPT ![r].pc = "write", ![r].deep = Deep({Row(r)})]
  /\ UNCHANGED <<comments, deleted, hist>>

\* The text is not modelled: an update writes a column no other statement reads.
UnchangedAsLoaded(row) == [row EXCEPT !.deleted = FALSE]
UnchangedColumns(row) == row

Update(r) ==
  /\ At(r, "update", "write")
  /\ comments' = [comments EXCEPT ![Row(r)] = UnchangedColumns(@)]
  /\ Goto(r, "reload")
  /\ UNCHANGED <<deleted, hist>>

Delete(r) ==
  /\ At(r, "delete", "write")
  /\ comments' = [comments EXCEPT ![Row(r)].deleted = TRUE]
  /\ Goto(r, "ok")
  /\ UNCHANGED <<deleted, hist>>

\* A comment deleted since the commit is a 404, one that cannot be serialized a 500.
\* Replies loaded before the write are not loaded again.
Reload(r) ==
  /\ req[r].pc = "reload"
  /\ \/ ~Visible(Row(r)) /\ Refuse(r, "missing")
     \/ /\ Visible(Row(r))
        /\ IF (req[r].op = "create" /\ Deep({Row(r)})) \/ req[r].deep
           THEN Refuse(r, "failed") ELSE Goto(r, "ok")
  /\ UNCHANGED <<comments, deleted, hist>>

-----------------------------------------------------------------------------
(* list_for_post: visible top-level comments with two levels of replies.   *)

TopLevelDeletedToo(p) == {c \in Rows : Exists(c) /\ comments[c].post = p /\ comments[c].parent = Top}
TopLevel(p) == {c \in Rows : Visible(c) /\ comments[c].post = p /\ comments[c].parent = Top}
Thread(p) == TopLevel(p) \cup Below(TopLevel(p))

LoadThreads(r) ==
  /\ At(r, "list", "load")
  /\ \/ /\ Deep(TopLevel(req[r].post)) /\ Refuse(r, "failed")
        /\ UNCHANGED hist
     \/ /\ ~Deep(TopLevel(req[r].post)) /\ Goto(r, "ok")
        /\ hist' = [hist EXCEPT ![r].listed = Thread(req[r].post)]
  /\ UNCHANGED <<comments, deleted>>

-----------------------------------------------------------------------------
\* PostService.delete; a failure at any await; the answer is read.
DeletePost(p) ==
  /\ p \notin deleted /\ deleted' = deleted \cup {p}
  /\ UNCHANGED <<comments, req, hist>>

Abort(r) ==
  /\ req[r].pc \in {"post", "parent", "insert", "load", "write", "reload"}
  /\ Refuse(r, "failed")
  /\ UNCHANGED <<comments, deleted, hist>>

Finish(r) ==
  /\ req[r].pc \in {"ok", "denied", "missing", "failed"}
  /\ req' = [req EXCEPT ![r] = Idle]
  /\ hist' = [hist EXCEPT ![r] = NoHistory]
  /\ UNCHANGED <<comments, deleted>>

Serve(r) ==
  \/ LoadPost(r) \/ LoadParent(r) \/ InsertComment(r)
  \/ LoadComment(r) \/ Update(r) \/ Delete(r) \/ Reload(r) \/ LoadThreads(r)
Next ==
  \/ \E r \in Requests :
       BeginCreate(r) \/ BeginEdit(r) \/ BeginList(r) \/ Serve(r) \/ Abort(r) \/ Finish(r)
  \/ \E p \in Posts : DeletePost(p)

Spec == Init /\ [][Next]_vars

-----------------------------------------------------------------------------
\* A reply hangs under a comment of its own post, whatever was deleted meanwhile.
ThreadsOnOnePost == \A c \in Rows : Exists(c) /\ comments[c].parent # Top =>
  Exists(comments[c].parent) /\ comments[comments[c].parent].post = comments[c].post

\* A request that begins after a post or a comment was deleted neither attaches a comment
\* to it nor edits it.
NothingOnDeleted == \A r \in Requests : req[r].pc = "ok" /\ req[r].op # "list" =>
  {req[r].post, req[r].parent, Row(r)} \cap hist[r].gone = {}

\* An update that loaded a comment before it was deleted does not bring it back, and a
\* comment never moves to another thread.
DeletedForever == [][\A c \in Rows : Exists(c) =>
  /\ comments[c].deleted => comments'[c].deleted
  /\ comments'[c].parent = comments[c].parent]_vars

\* A list shows neither a top-level comment deleted before the request began nor any
\* reply to it.
DeletedThreadHidden == \A r \in Requests : \A c \in hist[r].listed :
  (IF comments[c].parent = Top THEN c ELSE comments[c].parent) \notin hist[r].gone
=============================================================================
