-------------------------------- MODULE Posts --------------------------------
(***************************************************************************)
(* Posts: app/services/post_service.py (create, update, delete,            *)
(* get_by_slug_or_404) with app/repositories/post.py and the slug helpers. *)
(*                                                                         *)
(* SQLAlchemy writes the columns a request has changed from the values it  *)
(* loaded, whatever is in the row by then; posts.slug is unique over all   *)
(* rows, soft-deleted ones included, and get_by_slug does not see those.   *)
(***************************************************************************)
EXTENDS Integers, FiniteSets

CONSTANTS Rows,       \* rows of posts
          Titles,
          Slug(_),    \* slugify: titles that differ in case or punctuation share a slug
          Statuses,   \* PostStatus: draft, published
          Requests,
          Busy,       \* bound: the rows that are viewed, deleted or given another status
          MaxReads,   \* bound: no view begins once the post has been viewed MaxReads times
          None

ASSUME RowsAssumption == Rows \subseteq Nat \ {0}

VARIABLES posts,   \* [title, slug, status, deleted, views]
          req,     \* [op, pc, row, title, status, slug, old, views]: old is the slug an update has
                   \* loaded, until it chooses another, views the count a view has loaded
          hist     \* history: reads[p], views answered; alone, the request no other has
                   \* overlapped; crossed, the posts whose title was last written by an update
                   \* that kept the slug it had loaded and met another one in the row

vars == <<posts, req, hist>>

Slugs == {Slug(t) : t \in Titles}
\* generate_unique_slug appends a random suffix, here the row: it is never taken.
Suffixed(slug, p) == <<slug, p>>
Plain(slug) == <<slug, 0>>
SlugValues == Slugs \X (Rows \cup {0})

\* None stands for a row that does not exist and for a field the client did not send.
Post == [title : Titles, slug : SlugValues, status : Statuses, deleted : BOOLEAN, views : Nat]
ASSUME NoneAssumption == None \notin Post \cup Titles \cup SlugValues \cup Statuses

Ops == {"create", "update", "delete", "view"}
PCs == {"idle", "load", "slug", "write", "reload", "conflict"}
Request == [op : Ops \cup {"none"}, pc : PCs, row : Rows \cup {0}, title : Titles \cup {None},
            status : Statuses \cup {None}, slug : SlugValues \cup {None},
            old : SlugValues \cup {None}, views : Nat]

TypeOK ==
  /\ posts \in [Rows -> Post \cup {None}]
  /\ req \in [Requests -> Request]
  /\ hist \in [reads : [Rows -> Nat], alone : SUBSET Requests, crossed : SUBSET Rows]

Idle == [op |-> "none", pc |-> "idle", row |-> 0, title |-> None, status |-> None,
         slug |-> None, old |-> None, views |-> 0]

Init ==
  /\ posts = [p \in Rows |-> None]
  /\ req = [r \in Requests |-> Idle]
  /\ hist = [reads |-> [p \in Rows |-> 0], alone |-> {}, crossed |-> {}]

Exists(p) == posts[p] # None
Visible(p) == Exists(p) /\ ~posts[p].deleted
\* get_by_slug finds a visible row, the unique index counts every row.
Found(slug) == \E p \in Rows : Visible(p) /\ posts[p].slug = slug
Taken(slug, self) == \E p \in Rows \ {self} : Exists(p) /\ posts[p].slug = slug

\* A 200, 403, 404 or 500 ends a request.
Answer(r) ==
  /\ req' = [req EXCEPT ![r] = Idle]
  /\ hist' = [hist EXCEPT !.alone = @ \ {r}]
\* Past its write a request keeps nothing but the title of a conflict.
ReadBack(r) == req' = [req EXCEPT ![r] = [Idle EXCEPT !.pc = "reload"]]
Conflict(r) ==
  /\ req' = [req EXCEPT ![r] = [Idle EXCEPT !.pc = "conflict", !.title = req[r].title]]
  /\ UNCHANGED hist
Row(r) == req[r].row
-----------------------------------------------------------------------------
(* create: check the slug, INSERT, read the post back. What a request asks *)
(* for is chosen where it is first used.                                   *)

\* A request that begins while another runs overlaps it.
AloneAfter(r) == IF \A q \in Requests \ {r} : req[q].pc = "idle" THEN {r} ELSE {}

\* A row is set aside for each create; rows are taken in order.
FreeRow(p) ==
  LET Free(q) == ~Exists(q) /\ \A r \in Requests : Row(r) # q
  IN  Free(p) /\ \A q \in Rows : Free(q) => p <= q

BeginCreate(r) == \E p \in Rows :
  /\ req[r].pc = "idle" /\ FreeRow(p)
  /\ req' = [req EXCEPT ![r] = [Idle EXCEPT !.op = "create", !.pc = "slug", !.row = p]]
  /\ hist' = [hist EXCEPT !.alone = AloneAfter(r)]
  /\ UNCHANGED posts

ChosenSlugUnchecked(slug, p) == Plain(slug)

\* A plain slug, or a suffixed one when a visible post has it.
ChosenSlug(slug, p) == IF Found(Plain(slug)) THEN Suffixed(slug, p) ELSE Plain(slug)

ChooseSlugForCreate(r) == \E t \in Titles, s \in Statuses :
  /\ req[r].op = "create" /\ req[r].pc = "slug"
  /\ req' = [req EXCEPT ![r].pc = "write", ![r].title = t, ![r].status = s,
                        ![r].slug = ChosenSlug(Slug(t), Row(r))]
  /\ UNCHANGED <<posts, hist>>

NewPost(r) == [title |-> req[r].title, slug |-> req[r].slug, status |-> req[r].status,
               deleted |-> FALSE, views |-> 0]

Insert(r) ==
  /\ req[r].op = "create" /\ req[r].pc = "write"
  /\ \/ Taken(req[r].slug, Row(r)) /\ Conflict(r) /\ UNCHANGED posts
     \/ /\ ~Taken(req[r].slug, Row(r))
        /\ posts' = [posts EXCEPT ![Row(r)] = NewPost(r)]
        /\ ReadBack(r) /\ UNCHANGED hist

-----------------------------------------------------------------------------
(* update, delete and view load the row first.                             *)

Begin(r, op) == \E p \in Rows :
  /\ req[r].pc = "idle" /\ Exists(p)
  /\ op = "view" => hist.reads[p] < MaxReads
  /\ op \in {"view", "delete"} => p \in Busy
  /\ req' = [req EXCEPT ![r] = [Idle EXCEPT !.op = op, !.pc = "load", !.row = p]]
  /\ hist' = [hist EXCEPT !.alone = AloneAfter(r)]
  /\ UNCHANGED posts

\* 404 for a deleted post or a slug it no longer has, 403 for a caller who may not modify it.
Refuse(r) ==
  /\ req[r].pc = "load"
  /\ Answer(r)
  /\ UNCHANGED posts

\* A field that has the value the post was loaded with is not written.
Changed(wanted, loaded) == IF wanted = loaded THEN None ELSE wanted

\* A title or a status may be left out of an update.
LoadForUpdate(r) == \E t \in Titles \cup {None}, s \in Statuses \cup {None} :
  /\ req[r].op = "update" /\ req[r].pc = "load" /\ Visible(Row(r))
  /\ s # None => Row(r) \in Busy
  /\ LET now == posts[Row(r)]
         title == Changed(t, now.title)
     IN  req' = [req EXCEPT ![r].old = IF title = None THEN None ELSE now.slug,
           ![r].title = title, ![r].status = Changed(s, now.status),
           ![r].pc = IF title = None THEN "write" ELSE "slug"]
  /\ UNCHANGED <<posts, hist>>

Load(r) ==
  /\ req[r].op \in {"delete", "view"} /\ req[r].pc = "load" /\ Visible(Row(r))
  /\ req' = [req EXCEPT ![r].pc = "write",
       ![r].views = IF req[r].op = "view" THEN posts[Row(r)].views ELSE 0]
  /\ UNCHANGED <<posts, hist>>

KeepSlugOnUpdate(r) ==
  /\ req[r].op = "update" /\ req[r].pc = "slug"
  /\ req' = [req EXCEPT ![r].pc = "write"]
  /\ UNCHANGED <<posts, hist>>

\* A new title gets a new slug, unless it slugifies to the slug the post was loaded with.
ChooseSlugForUpdate(r) ==
  /\ req[r].op = "update" /\ req[r].pc = "slug"
  /\ LET new == Slug(req[r].title)
         kept == Plain(new) = req[r].old
     IN  req' = [req EXCEPT ![r].pc = "write",
           ![r].old = IF kept THEN @ ELSE None,
           ![r].slug = IF kept THEN None ELSE ChosenSlug(new, Row(r))]
  /\ UNCHANGED <<posts, hist>>

\* The columns an UPDATE does not name keep what is stored by then.
UnchangedAsLoaded(stored) == [stored EXCEPT !.deleted = FALSE]
UnchangedColumns(stored) == stored
Written(wanted, stored) == IF wanted = None THEN stored ELSE wanted

Edited(r) == [UnchangedColumns(posts[Row(r)]) EXCEPT
  !.slug = Written(req[r].slug, @), !.title = Written(req[r].title, @),
  !.status = Written(req[r].status, @)]

\* The posts crossed when an update has written its columns; one without a title writes neither.
CrossedBy(r) ==
  IF req[r].title = None THEN hist.crossed
  ELSE IF req[r].slug = None /\ posts[Row(r)].slug # req[r].old THEN hist.crossed \cup {Row(r)}
  ELSE hist.crossed \ {Row(r)}

Update(r) ==
  /\ req[r].op = "update" /\ req[r].pc = "write"
  /\ \/ Taken(Edited(r).slug, Row(r)) /\ Conflict(r) /\ UNCHANGED posts
     \/ /\ ~Taken(Edited(r).slug, Row(r))
        /\ posts' = [posts EXCEPT ![Row(r)] = Edited(r)]
        /\ ReadBack(r) /\ hist' = [hist EXCEPT !.crossed = CrossedBy(r)]

Delete(r) ==
  /\ req[r].op = "delete" /\ req[r].pc = "write"
  /\ posts' = [posts EXCEPT ![Row(r)].deleted = TRUE]
  /\ Answer(r)

AddTwo(loaded) == loaded + 2
AddOne(loaded) == loaded + 1

\* increment_view_count adds one to the value it loaded.
View(r) ==
  /\ req[r].op = "view" /\ req[r].pc = "write"
  /\ posts' = [posts EXCEPT ![Row(r)].views = AddOne(req[r].views)]
  /\ req' = [req EXCEPT ![r] = Idle]
  /\ hist' = [hist EXCEPT !.reads[Row(r)] = @ + 1, !.alone = @ \ {r}]

\* A create or an update may name a category: 404 when there is none.
CategoryMissing(r) ==
  /\ \/ req[r].op = "create" /\ req[r].pc = "slug"
     \/ req[r].op = "update" /\ req[r].pc = "load" /\ Visible(Row(r))
  /\ Answer(r)
  /\ UNCHANGED posts

-----------------------------------------------------------------------------
\* create and update answer with the post read back, or with 404 if it was deleted since.
Reload(r) ==
  /\ req[r].pc = "reload"
  /\ Answer(r)
  /\ UNCHANGED posts

\* An exception or a dropped connection: the transaction is rolled back.
Abort(r) ==
  /\ req[r].pc \in {"load", "slug", "write"}
  /\ Answer(r)
  /\ UNCHANGED posts

AnswerConflict(r) ==
  /\ req[r].pc = "conflict"
  /\ Answer(r)
  /\ UNCHANGED posts

Serve(r) ==
  \/ ChooseSlugForCreate(r) \/ Insert(r)
  \/ Refuse(r) \/ Load(r) \/ LoadForUpdate(r) \/ ChooseSlugForUpdate(r)
  \/ Update(r) \/ Delete(r) \/ View(r)
  \/ CategoryMissing(r) \/ Reload(r)
Next == \E r \in Requests :
  \/ BeginCreate(r) \/ (\E op \in Ops \ {"create"} : Begin(r, op)) \/ Serve(r)
  \/ Abort(r) \/ AnswerConflict(r)

Spec == Init /\ [][Next]_vars

-----------------------------------------------------------------------------
\* An update or a view that loaded a post before others changed it writes its own columns
\* only: a deletion is never undone, and the status is one that was asked for.
EditsWriteTheirColumns == [][\A p \in Rows : Exists(p) =>
  /\ posts[p].deleted => posts'[p].deleted
  /\ posts'[p].status # posts[p].status =>
       \E r \in Requests : Row(r) = p /\ req[r].status = posts'[p].status]_vars

\* View counts never run ahead of the views that were answered.
ViewsNeverAhead == \A p \in Rows : Exists(p) => posts[p].views <= hist.reads[p]

\* A post has the slug of its title, plain or suffixed, after all creations and updates but
\* one kind: an update whose new title slugifies to the slug it has loaded writes the title only
\* (post_service.py:130-135), and another may have renamed the post since.
SlugFollowsTitle == \A p \in Rows : Exists(p) /\ p \notin hist.crossed =>
  posts[p].slug[1] = Slug(posts[p].title)

\* A request that no other overlaps has its title refused only when a deleted post still
\* holds the slug.
ConflictOnlyWithDeleted == \A r \in hist.alone : req[r].pc = "conflict" =>
  \E p \in Rows : Exists(p) /\ posts[p].deleted /\ posts[p].slug = Plain(Slug(req[r].title))
=============================================================================
