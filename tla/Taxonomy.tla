------------------------------- MODULE Taxonomy -------------------------------
(***************************************************************************)
(* Categories and tags, and the posts that refer to them:                  *)
(* app/services/category_service.py, app/services/tag_service.py, and the  *)
(* category_id and tag_ids of PostService.create and update.  These        *)
(* columns and the rows of post_tags are disjoint from what Posts models,  *)
(* and an UPDATE names only the columns it changes.                        *)
(*                                                                         *)
(* The foreign keys refuse a reference to a missing row, and set it to     *)
(* NULL, or delete the row of post_tags, when the row goes.  SQLAlchemy    *)
(* does so too, for the posts it has selected when the flush begins.       *)
(***************************************************************************)
EXTENDS Integers

CONSTANTS Cats, Tags,   \* primary keys of categories and of tags, none used twice
          Names,
          Slug(_),      \* slugify
          Posts, Requests,
          None,
          Gone          \* a row that was deleted

ASSUME KeysAssumption ==
  Cats \cap Tags = {} /\ Posts \cap (Cats \cup Tags) = {} /\ None \notin Cats \cup Tags \cup Posts

VARIABLES terms,   \* the row of each key: None before it is inserted, Gone afterwards
          refs,    \* what each post refers to: [cat, tags], None for a post not there yet
          req,     \* [op, pc, row, name, want, old, posts]: old is the row as loaded,
                   \* posts those a deletion has selected
          hist     \* history: alone, the request no other has overlapped; was, the posts
                   \* that have been in the category since its deletion began; touched, the
                   \* tags others have put on or off the post since an edit loaded them

vars == <<terms, refs, req, hist>>

Terms == Cats \cup Tags
Term == [name : Names, slug : {Slug(n) : n \in Names}]
Refs == [cat : Cats \cup {None}, tags : SUBSET Tags]
\* None for a field the client did not send.
Wanted == [cat : Cats \cup {None}, tags : (SUBSET Tags) \cup {None}]
Ops == {"create", "rename", "delete", "post", "edit"}
PCs == {"idle", "load", "related", "name", "slug", "posts", "category", "tags", "write",
        "conflict"}
Request == [op : Ops \cup {None}, pc : PCs, row : Terms \cup Posts \cup {None},
            name : Names \cup {None}, want : Wanted \cup {None},
            old : Term \cup Refs \cup {None}, posts : SUBSET Posts]
History == [alone : SUBSET Requests, was : [Requests -> SUBSET Posts],
            touched : [Requests -> SUBSET Tags]]

ASSUME NoneAssumption ==
  {None, Gone} \cap (Term \cup Refs) = {} /\ None \notin Ops /\ None # Gone

TypeOK ==
  /\ terms \in [Terms -> Term \cup {None, Gone}]
  /\ refs \in [Posts -> Refs \cup {None}]
  /\ req \in [Requests -> Request]
  /\ hist \in History

Idle == [op |-> None, pc |-> "idle", row |-> None, name |-> None, want |-> None,
         old |-> None, posts |-> {}]
NoRefs == [cat |-> None, tags |-> {}]

Init ==
  /\ terms = [t \in Terms |-> None]
  /\ refs = [p \in Posts |-> None]
  /\ req = [r \in Requests |-> Idle]
  /\ hist = [alone |-> {}, was |-> [r \in Requests |-> {}], touched |-> [r \in Requests |-> {}]]

Live(t) == terms[t] \notin {None, Gone}
Kind(t) == IF t \in Cats THEN Cats ELSE Tags
InCategory(c) == {p \in Posts : refs[p] # None /\ refs[p].cat = c}
At(r, op, pc) == req[r].op = op /\ req[r].pc = pc
Row(r) == req[r].row
\* A 200, 404 or 500 ends a request; of one that conflicts, the name and the row are kept.
Ended(r) == [alone |-> hist.alone \ {r}, was |-> [hist.was EXCEPT ![r] = {}],
             touched |-> [hist.touched EXCEPT ![r] = {}]]
Answer(r) == req' = [req EXCEPT ![r] = Idle] /\ hist' = Ended(r)
Conflict(r) ==
  /\ req' = [req EXCEPT ![r] = [Idle EXCEPT !.op = req[r].op, !.pc = "conflict",
                                            !.row = req[r].row, !.name = req[r].name]]
  /\ UNCHANGED hist
Goto(r, pc) == req' = [req EXCEPT ![r].pc = pc] /\ UNCHANGED hist
Unused(row) == \A r \in Requests : Row(r) # row

Begin(r, op, pc, row, name, want) ==
  /\ req[r].pc = "idle"
  /\ req' = [req EXCEPT ![r] = [Idle EXCEPT !.op = op, !.pc = pc, !.row = row, !.name = name,
                                            !.want = want]]
  /\ hist' = [alone |-> IF \A q \in Requests \ {r} : req[q].pc = "idle" THEN {r} ELSE {},
              was |-> [hist.was EXCEPT ![r] = IF op = "delete" THEN InCategory(row) ELSE {}],
              touched |-> [hist.touched EXCEPT ![r] = {}]]
  /\ UNCHANGED <<terms, refs>>

BeginCreate(r) == \E t \in Terms, n \in Names :
  terms[t] = None /\ Unused(t) /\ Begin(r, "create", "name", t, n, None)
BeginRename(r) == \E c \in Cats, n \in Names : terms[c] # None /\ Begin(r, "rename", "load", c, n, None)
BeginDelete(r) == \E t \in Terms : terms[t] # None /\ Begin(r, "delete", "load", t, None, None)

\* A post is created or edited with references to rows the client has seen.
BeginPost(r) == \E p \in Posts, want \in Wanted :
  /\ want.cat # None => terms[want.cat] # None
  /\ want.tags # None => \A t \in want.tags : terms[t] # None
  /\ \/ /\ refs[p] = None /\ Unused(p) /\ want.tags # None
        /\ Begin(r, "post", "category", p, None, want)
     \/ refs[p] # None /\ Begin(r, "edit", "load", p, None, want)

\* An edit that replaces the tags of its post, from when it has loaded them.
Replacing(r) ==
  req[r].op = "edit" /\ req[r].pc \in {"category", "tags", "write"} /\ req[r].want.tags # None
Differ(a, b) == (a \ b) \cup (b \ a)
\* Once r has written refs', the edits of the others know the tags it has put on or off.
Touched(r) == [q \in Requests |->
  IF q # r /\ Replacing(q)
  THEN hist.touched[q] \cup Differ(refs[Row(q)].tags, refs'[Row(q)].tags)
  ELSE {}]

-----------------------------------------------------------------------------
(* Categories and tags: create looks for the name and the slug, rename     *)
(* only for the name, and the unique indexes for both.                     *)

\* get_by_name leaves no row out: a rename finds its own, once another has given it the name.
NameFound(name, kind) == \E t \in kind : Live(t) /\ terms[t].name = name
NameTaken(name, self) == \E t \in Kind(self) \ {self} : Live(t) /\ terms[t].name = name
SlugTaken(slug, self) == \E t \in Kind(self) \ {self} : Live(t) /\ terms[t].slug = slug

LoadTerm(r) ==
  /\ req[r].op \in {"rename", "delete"} /\ req[r].pc = "load"
  /\ \/ ~Live(Row(r)) /\ Answer(r)
     \/ /\ Live(Row(r))
        /\ req' = [req EXCEPT ![r].old = IF req[r].op = "delete" THEN None ELSE terms[Row(r)],
             ![r].pc = IF req[r].op = "delete" THEN "posts"
                       ELSE IF req[r].name = terms[Row(r)].name THEN "write" ELSE "name"]
        /\ UNCHANGED hist
  /\ UNCHANGED <<terms, refs>>

CheckName(r) ==
  /\ req[r].pc = "name"
  /\ \/ NameFound(req[r].name, Kind(Row(r))) /\ Conflict(r)
     \/ ~NameFound(req[r].name, Kind(Row(r))) /\ Goto(r, IF req[r].op = "create" THEN "slug" ELSE "write")
  /\ UNCHANGED <<terms, refs>>

CheckSlug(r) ==
  /\ req[r].pc = "slug"
  /\ \/ SlugTaken(Slug(req[r].name), Row(r)) /\ Conflict(r)
     \/ ~SlugTaken(Slug(req[r].name), Row(r)) /\ Goto(r, "write")
  /\ UNCHANGED <<terms, refs>>

\* The row an INSERT or UPDATE leaves, unless an index refuses it.
Store(r, row) ==
  \/ /\ NameTaken(row.name, Row(r)) \/ SlugTaken(row.slug, Row(r))
     /\ Conflict(r) /\ UNCHANGED terms
  \/ /\ ~NameTaken(row.name, Row(r)) /\ ~SlugTaken(row.slug, Row(r))
     /\ terms' = [terms EXCEPT ![Row(r)] = row] /\ Answer(r)

NewTermNoSlug(name) == [name |-> name, slug |-> None]
NewTerm(name) == [name |-> name, slug |-> Slug(name)]

Insert(r) ==
  /\ At(r, "create", "write")
  /\ Store(r, NewTerm(req[r].name))
  /\ UNCHANGED refs

\* Only what differs from the row as loaded is written; a row that is gone is a 500.
Rename(r) ==
  /\ At(r, "rename", "write")
  /\ \/ ~Live(Row(r)) /\ Answer(r) /\ UNCHANGED terms
     \/ /\ Live(Row(r))
        /\ LET old == req[r].old
               now == terms[Row(r)]
               new == NewTerm(req[r].name)
           IN  Store(r, [name |-> IF new.name = old.name THEN now.name ELSE new.name,
                         slug |-> IF new.slug = old.slug THEN now.slug ELSE new.slug])
  /\ UNCHANGED refs

\* The flush of a deletion selects the posts of the category.
LoadPosts(r) ==
  /\ At(r, "delete", "posts")
  /\ req' = [req EXCEPT ![r].pc = "write", ![r].posts = InCategory(Row(r))]
  /\ UNCHANGED <<terms, refs, hist>>

DetachedAll(r, p) == [cat |-> None, tags |-> refs[p].tags \ {Row(r)}]
\* SQLAlchemy nulls the category of the posts it selected, whatever it is by now; the
\* foreign keys take the row out of every other post.
Detached(r, p) == [cat |-> IF p \in req[r].posts \/ refs[p].cat = Row(r) THEN None ELSE refs[p].cat,
                   tags |-> refs[p].tags \ {Row(r)}]

Delete(r) ==
  /\ At(r, "delete", "write")
  /\ terms' = [terms EXCEPT ![Row(r)] = Gone]
  /\ refs' = [p \in Posts |-> IF refs[p] = None THEN None ELSE Detached(r, p)]
  /\ req' = [req EXCEPT ![r] = Idle]
  /\ hist' = [Ended(r) EXCEPT !.touched = Touched(r)]

-----------------------------------------------------------------------------
(* Posts: an edit loads the row, then its category and tags; both check    *)
(* the category, select the tags that are there, and write.                *)

\* The rest of the post is the subject of Posts: it may be deleted, or not the actor's.
LoadRefs(r) ==
  /\ At(r, "edit", "load")
  /\ \/ Answer(r)
     \/ /\ req' = [req EXCEPT ![r].pc = "related", ![r].old = [NoRefs EXCEPT !.cat = refs[Row(r)].cat]]
        /\ UNCHANGED hist
  /\ UNCHANGED <<terms, refs>>

\* A category loaded with the post is in the session: naming it again checks nothing and
\* writes nothing.
LoadRelated(r) ==
  /\ At(r, "edit", "related")
  /\ LET cat == req[r].old.cat IN
       req' = [req EXCEPT ![r].pc = "category", ![r].old = [NoRefs EXCEPT !.tags = refs[Row(r)].tags],
         ![r].want.cat = IF @ # None /\ @ = cat /\ Live(cat) THEN None ELSE @]
  /\ UNCHANGED <<terms, refs, hist>>

CheckCategory(r) ==
  /\ req[r].pc = "category"
  /\ LET cat == req[r].want.cat IN
     \/ cat # None /\ ~Live(cat) /\ Answer(r)
     \/ (cat # None => Live(cat)) /\ Goto(r, "tags")
  /\ UNCHANGED <<terms, refs>>

\* get_by_ids leaves out the tags that are not there.
LoadTags(r) ==
  /\ req[r].pc = "tags"
  /\ req' = [req EXCEPT ![r].pc = "write",
       ![r].want.tags = IF @ = None THEN None ELSE {t \in @ : Live(t)}]
  /\ UNCHANGED <<terms, refs, hist>>

\* The rows of post_tags to insert and to delete; a field not sent changes none.
AddsAll(want, old) == want
Adds(want, old) == want \ old
DropsNone(want, old) == {}
Drops(want, old) == old \ want

\* The foreign keys and the primary key of post_tags refuse.
RefusedUnchecked(cat, adds, now) == \E t \in adds : t \in now.tags
Refused(cat, adds, now) == (cat # None /\ ~Live(cat)) \/ \E t \in adds : ~Live(t) \/ t \in now.tags

WriteRefs(r) ==
  /\ req[r].op \in {"post", "edit"} /\ req[r].pc = "write"
  /\ LET want == req[r].want
         old == IF req[r].op = "post" THEN NoRefs ELSE req[r].old
         now == IF req[r].op = "post" THEN NoRefs ELSE refs[Row(r)]
         adds == IF want.tags = None THEN {} ELSE Adds(want.tags, old.tags)
         drops == IF want.tags = None THEN {} ELSE Drops(want.tags, old.tags)
     IN  \/ Refused(want.cat, adds, now) /\ Conflict(r) /\ UNCHANGED refs
         \/ /\ ~Refused(want.cat, adds, now)
            /\ req' = [req EXCEPT ![r] = Idle]
            /\ refs' = [refs EXCEPT ![Row(r)] =
                 [cat |-> IF want.cat = None THEN now.cat ELSE want.cat,
                  tags |-> (now.tags \ drops) \cup adds]]
            /\ hist' = [Ended(r) EXCEPT !.touched = Touched(r), !.was = [q \in Requests |->
                 IF req[q].op = "delete" /\ want.cat = Row(q) THEN @[q] \cup {Row(r)} ELSE @[q]]]
  /\ UNCHANGED terms

-----------------------------------------------------------------------------
Abort(r) ==
  /\ req[r].pc \in PCs \ {"idle", "conflict"}
  /\ Answer(r)
  /\ UNCHANGED <<terms, refs>>

AnswerConflict(r) ==
  /\ req[r].pc = "conflict"
  /\ Answer(r)
  /\ UNCHANGED <<terms, refs>>

Serve(r) ==
  \/ LoadTerm(r) \/ CheckName(r) \/ CheckSlug(r) \/ Insert(r) \/ Rename(r)
  \/ LoadPosts(r) \/ Delete(r)
  \/ LoadRefs(r) \/ LoadRelated(r) \/ CheckCategory(r) \/ LoadTags(r) \/ WriteRefs(r)
Next == \E r \in Requests :
  \/ BeginCreate(r) \/ BeginRename(r) \/ BeginDelete(r) \/ BeginPost(r)
  \/ Serve(r) \/ Abort(r) \/ AnswerConflict(r)

Spec == Init /\ [][Next]_vars

-----------------------------------------------------------------------------
\* However deletions race with posts that were checked before them, no post refers to a
\* category or a tag that is not there.
ReferencesExist == \A p \in Posts : refs[p] # None =>
  (refs[p].cat # None => Live(refs[p].cat)) /\ \A t \in refs[p].tags : Live(t)

\* A post loses its category only to the deletion of a category it has been in since that
\* deletion began.
CategoryKept == [][\A p \in Posts : refs[p] # None /\ refs[p].cat # None /\ refs'[p].cat = None =>
  \E r \in Requests : At(r, "delete", "write") /\ p \in hist.was[r]]_vars

\* An edit that replaces the tags of a post (post_service.py:147) inserts and deletes by the set
\* it has loaded, so edits may mix; but where the post then differs from the tags the edit
\* found, another request has put the tag on or off since.
TagsReplaced == [][\A r \in Requests :
  WriteRefs(r) /\ req'[r].pc = "idle" /\ Replacing(r) =>
    Differ(refs'[Row(r)].tags, req[r].want.tags) \subseteq hist.touched[r]]_vars

\* A request that no other overlaps is refused with a conflict only for a name or a slug
\* that another row of the kind has; a post, never.
ConflictOnlyWhenTaken == \A r \in hist.alone : req[r].pc = "conflict" =>
  /\ req[r].op \in {"create", "rename"}
  /\ NameTaken(req[r].name, Row(r)) \/ SlugTaken(Slug(req[r].name), Row(r))
=============================================================================
