---------------------------- MODULE TaxonomyProofs ----------------------------
(***************************************************************************)
(* Proofs about Taxonomy, for any categories, tags, names, posts and       *)
(* requests, whatever slugify does.                                        *)
(*                                                                         *)
(* ReferencesExist is inductive: the foreign keys check it at each write.  *)
(* That a category is kept needs what a deletion has selected (Sound): the *)
(* posts it will take out were in its category since it began.  That a     *)
(* lone request conflicts only with another row needs what it has checked  *)
(* to be still true (Lone).                                                *)
(***************************************************************************)
EXTENDS Taxonomy, TLAPS

Sound(r) ==
  /\ req[r].op \in {"create", "rename"} => req[r].row \in Terms /\ req[r].name \in Names
  /\ req[r].op = "rename" /\ req[r].pc \in {"name", "write"} => req[r].old \in Term
  /\ req[r].op = "delete" => req[r].row \in Terms /\ InCategory(req[r].row) \subseteq hist.was[r]
  /\ req[r].op = "delete" /\ req[r].pc = "write" => req[r].posts \subseteq hist.was[r]
  /\ req[r].op = "post" =>
       /\ req[r].row \in Posts /\ refs[req[r].row] = None
       /\ \A q \in Requests \ {r} : req[q].op = "post" => req[q].row # req[r].row
  /\ req[r].op = "edit" => req[r].row \in Posts /\ refs[req[r].row] # None
  /\ req[r].op \in {"post", "edit"} /\ req[r].pc # "conflict" => req[r].want \in Wanted
  /\ req[r].op = "edit" /\ req[r].pc \in {"related", "category", "tags", "write"} => req[r].old \in Refs
  /\ Replacing(r) => Differ(req[r].old.tags, refs[req[r].row].tags) \subseteq hist.touched[r]
  /\ req[r].pc = "name" => req[r].op \in {"create", "rename"}
  /\ req[r].pc = "slug" => req[r].op = "create"
  /\ req[r].pc \in {"category", "tags"} => req[r].op \in {"post", "edit"}

Taken(r) == NameTaken(req[r].name, Row(r)) \/ SlugTaken(Slug(req[r].name), Row(r))
Checked(r) ==
  /\ req[r].op = "rename" /\ req[r].pc \in {"name", "write"} => req[r].old = terms[req[r].row]
  /\ req[r].op = "rename" /\ req[r].pc = "name" => terms[req[r].row].name # req[r].name
  /\ req[r].op = "create" /\ req[r].pc = "name" => ~Live(req[r].row)
  /\ req[r].op \in {"post", "edit"} /\ req[r].pc \in {"tags", "write"} /\ req[r].want.cat # None =>
       Live(req[r].want.cat)
  /\ req[r].op \in {"post", "edit"} /\ req[r].pc = "write" /\ req[r].want.tags # None =>
       \A t \in req[r].want.tags : Live(t)
  /\ req[r].op = "edit" /\ req[r].pc \in {"category", "tags", "write"} =>
       req[r].old.tags = refs[req[r].row].tags
  /\ req[r].pc = "conflict" => req[r].op \in {"create", "rename"} /\ Taken(r)
Lone(r) == r \in hist.alone =>
  Checked(r) /\ \A q \in Requests \ {r} : req[q].pc = "idle"

Inv == TypeOK /\ ReferencesExist /\ \A r \in Requests : Sound(r) /\ Lone(r)

\* Request r moves, and no other.
Mover(r) ==
  /\ req' \in [Requests -> Request] /\ \A q \in Requests \ {r} : req'[q] = req[q]
  /\ hist' \in History /\ hist'.alone \subseteq {r}
  /\ r \in hist'.alone => \A q \in Requests \ {r} : req[q].pc = "idle"

\* Posts appear only where a creation stores them, a post that enters a category is one its
\* deletion knows of, and an edit knows of the tags that others put on or off.
Kept(r) ==
  /\ \A p \in Posts : (req[r].op = "post" /\ p = req[r].row) \/ (refs'[p] = None <=> refs[p] = None)
  /\ \A q \in Requests \ {r} :
       /\ hist.was[q] \subseteq hist'.was[q]
       /\ req[q].op = "delete" => \A p \in Posts :
            refs'[p] # None /\ refs'[p].cat = req[q].row =>
              p \in InCategory(req[q].row) \/ p \in hist'.was[q]
       /\ Replacing(q) =>
            /\ hist.touched[q] \subseteq hist'.touched[q]
            /\ Differ(refs[req[q].row].tags, refs'[req[q].row].tags) \subseteq hist'.touched[q]

LEMMA Frame ==
  ASSUME Inv, NEW r \in Requests, Mover(r), Kept(r), Sound(r)', r \in hist'.alone => Checked(r)'
  PROVE  \A q \in Requests : Sound(q)' /\ Lone(q)'
<1>1. ASSUME NEW q \in Requests \ {r} PROVE Sound(q)' /\ Lone(q)'
  <2>1. req'[q] = req[q] /\ q \notin hist'.alone /\ Sound(q) /\ Sound(r)
    BY DEF Mover, Inv
  <2>2. Lone(q)'
    BY <2>1 DEF Lone
  <2>3. req[q].op = "delete" => (InCategory(req[q].row) \subseteq hist.was[q])'
    BY <2>1 DEF Sound, Kept, InCategory
  <2>4. req[q].op \in {"post", "edit"} => (refs'[req[q].row] = None <=> refs[req[q].row] = None)
    BY <2>1 DEF Sound, Kept
  <2>5. req[q].op = "post" =>
          \A s \in Requests \ {q} : req'[s].op = "post" => req'[s].row # req[q].row
    BY <2>1 DEF Sound, Mover
  <2>6. hist.was[q] \subseteq hist'.was[q]
    BY DEF Kept
  <2>8. Replacing(q)' => (Differ(req[q].old.tags, refs[req[q].row].tags) \subseteq hist.touched[q])'
    <3>1. Replacing(q)' => Replacing(q)
      BY <2>1 DEF Replacing
    <3>2. Replacing(q) => /\ Differ(req[q].old.tags, refs[req[q].row].tags) \subseteq hist'.touched[q]
                          /\ Differ(refs[req[q].row].tags, refs'[req[q].row].tags) \subseteq hist'.touched[q]
      BY <2>1 DEF Sound, Kept
    <3>. QED BY <2>1, <3>1, <3>2 DEF Differ
  <2>7. Sound(q)'
    BY <2>1, <2>3, <2>4, <2>5, <2>6, <2>8 DEF Sound
  <2>. QED BY <2>2, <2>7
<1>2. Lone(r)'
  BY DEF Mover, Lone
<1>. QED BY <1>1, <1>2

\* Only requests move.
LEMMA Quiet ==
  ASSUME Inv, NEW r \in Requests, Mover(r), Sound(r)', UNCHANGED <<terms, refs>>,
         \A q \in Requests \ {r} : hist'.was[q] = hist.was[q] /\ hist'.touched[q] = hist.touched[q],
         r \in hist'.alone => Checked(r)'
  PROVE  Inv'
<1>1. Kept(r)
  BY DEF Kept, InCategory, Differ
<1>2. TypeOK' /\ ReferencesExist'
  BY DEF Inv, TypeOK, Mover, ReferencesExist, Live
<1>. QED BY <1>1, <1>2, Frame DEF Inv

\* The request that moves, when it is not idle, is the only one a lone request can be.
LEMMA Acts ==
  ASSUME Inv, NEW r \in Requests, req[r].pc # "idle", hist' \in History, hist'.alone \subseteq hist.alone,
         req' \in [Requests -> Request], \A q \in Requests \ {r} : req'[q] = req[q]
  PROVE  Mover(r)
BY DEF Inv, TypeOK, History, Mover, Lone

LEMMA AnswerInv ==
  ASSUME Inv, NEW r \in Requests, req[r].pc # "idle", Answer(r), UNCHANGED <<terms, refs>>
  PROVE  Inv'
<1>1. Idle \in Request /\ Idle.op = None /\ Idle.pc = "idle"
  BY DEF Idle, Request, PCs
<1>2. req' \in [Requests -> Request] /\ req'[r] = Idle /\ \A q \in Requests \ {r} : req'[q] = req[q]
  BY <1>1 DEF Answer, Inv, TypeOK
<1>3. /\ hist' \in History /\ hist'.alone = hist.alone \ {r}
      /\ \A q \in Requests \ {r} : hist'.was[q] = hist.was[q] /\ hist'.touched[q] = hist.touched[q]
  BY DEF Answer, Ended, Inv, TypeOK, History
<1>4. Sound(r)'
  BY <1>1, <1>2, NoneAssumption DEF Sound, Replacing, Ops
<1>. QED BY <1>2, <1>3, <1>4, Acts, Quiet

LEMMA ConflictInv ==
  ASSUME Inv, NEW r \in Requests, req[r].pc # "idle", Conflict(r), UNCHANGED <<terms, refs>>,
         req[r].op # "delete",
         r \in hist.alone => req[r].op \in {"create", "rename"} /\ Taken(r)
  PROVE  Inv'
<1>. DEFINE new == [Idle EXCEPT !.op = req[r].op, !.pc = "conflict", !.row = req[r].row, !.name = req[r].name]
<1>1. /\ new \in Request /\ new.op = req[r].op /\ new.pc = "conflict" /\ new.row = req[r].row
      /\ new.name = req[r].name
  BY DEF Idle, Request, PCs, Inv, TypeOK
<1>2. req' = [req EXCEPT ![r] = new] /\ hist' = hist
  BY DEF Conflict
<1>. HIDE DEF new
<1>3. req'[r] = new /\ req' \in [Requests -> Request] /\ \A q \in Requests \ {r} : req'[q] = req[q]
  BY <1>1, <1>2 DEF Inv, TypeOK
<1>4. Sound(r)'
  BY <1>1, <1>3 DEF Inv, Sound, Replacing
<1>5. r \in hist'.alone => Checked(r)'
  BY <1>1, <1>2, <1>3 DEF Checked, Taken, NameTaken, SlugTaken, Row, Live
<1>. QED BY <1>1, <1>2, <1>3, <1>4, <1>5, Acts, Quiet DEF Inv, TypeOK

LEMMA Goes ==
  ASSUME Inv, NEW r \in Requests, req[r].pc # "idle", NEW pc \in PCs, Goto(r, pc)
  PROVE  /\ Mover(r) /\ hist' = hist
         /\ req'[r].pc = pc /\ req'[r].op = req[r].op /\ req'[r].row = req[r].row
         /\ req'[r].name = req[r].name /\ req'[r].want = req[r].want /\ req'[r].old = req[r].old
         /\ req'[r].posts = req[r].posts
<1>. DEFINE new == [req[r] EXCEPT !.pc = pc]
<1>1. /\ new \in Request /\ new.pc = pc /\ new.op = req[r].op /\ new.row = req[r].row
      /\ new.name = req[r].name /\ new.want = req[r].want /\ new.old = req[r].old
      /\ new.posts = req[r].posts
  BY DEF Inv, TypeOK, Request
<1>2. req' = [req EXCEPT ![r] = new] /\ hist' = hist
  BY DEF Goto
<1>. HIDE DEF new
<1>3. req'[r] = new /\ req' \in [Requests -> Request] /\ \A q \in Requests \ {r} : req'[q] = req[q]
  BY <1>1, <1>2 DEF Inv, TypeOK
<1>. QED BY <1>1, <1>2, <1>3, Acts DEF Inv, TypeOK

LEMMA BeginInv ==
  ASSUME Inv, NEW r \in Requests, NEW op \in Ops, NEW pc \in {"load", "name", "category"},
         NEW row \in Terms \cup Posts, NEW name \in Names \cup {None}, NEW want \in Wanted \cup {None},
         Begin(r, op, pc, row, name, want),
         op \in {"create", "rename"} => row \in Terms /\ name \in Names,
         op = "create" => terms[row] = None,
         op = "delete" => row \in Terms,
         op = "post" => row \in Posts /\ refs[row] = None /\ Unused(row),
         op = "edit" => row \in Posts /\ refs[row] # None,
         op \in {"post", "edit"} => want \in Wanted,
         op \in {"rename", "delete", "edit"} => pc = "load", op = "create" => pc = "name",
         op = "post" => pc = "category"
  PROVE  Inv'
<1>. DEFINE new == [Idle EXCEPT !.op = op, !.pc = pc, !.row = row, !.name = name, !.want = want]
<1>1. /\ new \in Request /\ new.op = op /\ new.pc = pc /\ new.row = row /\ new.name = name
      /\ new.want = want
  BY DEF Idle, Request, PCs
<1>2. req' = [req EXCEPT ![r] = new] /\ UNCHANGED <<terms, refs>>
  BY DEF Begin
<1>. HIDE DEF new
<1>3. req'[r] = new /\ req' \in [Requests -> Request] /\ \A q \in Requests \ {r} : req'[q] = req[q]
  BY <1>1, <1>2 DEF Inv, TypeOK
<1>4. InCategory(row) \subseteq Posts
  BY DEF InCategory
<1>5. /\ hist' \in History
      /\ \A q \in Requests \ {r} : hist'.was[q] = hist.was[q] /\ hist'.touched[q] = hist.touched[q]
      /\ op = "delete" => hist'.was[r] = InCategory(row)
      /\ hist'.alone = IF \A q \in Requests \ {r} : req[q].pc = "idle" THEN {r} ELSE {}
  BY <1>4 DEF Begin, Inv, TypeOK, History
<1>6. Mover(r)
  BY <1>3, <1>5 DEF Mover
<1>7. InCategory(row)' = InCategory(row)
  BY <1>2 DEF InCategory
<1>8. op = "post" => \A q \in Requests : req[q].row # row
  BY DEF Unused, Row
<1>9. op \in {"create", "rename", "delete", "post", "edit"}
  BY DEF Ops
<1>10. Sound(r)'
  BY <1>1, <1>2, <1>3, <1>5, <1>7, <1>8, <1>9 DEF Sound, Replacing
<1>11. Checked(r)'
  BY <1>1, <1>2, <1>3, <1>9 DEF Checked, Live
<1>. QED BY <1>2, <1>5, <1>6, <1>10, <1>11, Quiet

LEMMA BeginsInv ==
  ASSUME Inv, NEW r \in Requests, BeginCreate(r) \/ BeginRename(r) \/ BeginDelete(r) \/ BeginPost(r)
  PROVE  Inv'
<1>0. Ops = {"create", "rename", "delete", "post", "edit"} /\ Cats \subseteq Terms
  BY DEF Ops, Terms
<1>1. CASE BeginCreate(r)
  BY <1>0, <1>1, BeginInv DEF BeginCreate
<1>2. CASE BeginRename(r)
  BY <1>0, <1>2, BeginInv DEF BeginRename
<1>3. CASE BeginDelete(r)
  BY <1>0, <1>3, BeginInv DEF BeginDelete
<1>4. CASE BeginPost(r)
  <2>1. PICK p \in Posts, want \in Wanted :
          \/ refs[p] = None /\ Unused(p) /\ Begin(r, "post", "category", p, None, want)
          \/ refs[p] # None /\ Begin(r, "edit", "load", p, None, want)
    BY <1>4 DEF BeginPost
  <2>. QED BY <1>0, <2>1, BeginInv
<1>. QED BY <1>1, <1>2, <1>3, <1>4

LEMMA LoadTermInv == ASSUME Inv, NEW r \in Requests, LoadTerm(r) PROVE Inv'
<1>. DEFINE old == IF req[r].op = "delete" THEN None ELSE terms[Row(r)]
            pc == IF req[r].op = "delete" THEN "posts"
                  ELSE IF req[r].name = terms[Row(r)].name THEN "write" ELSE "name"
            new == [req[r] EXCEPT !.old = old, !.pc = pc]
<1>0. req[r].pc = "load" /\ req[r].op \in {"rename", "delete"} /\ UNCHANGED <<terms, refs>>
  BY DEF LoadTerm
<1>1. CASE Answer(r)
  BY <1>0, <1>1, AnswerInv
<1>2. CASE Live(Row(r)) /\ req' = [req EXCEPT ![r].old = old, ![r].pc = pc] /\ UNCHANGED hist
  <2>1. Row(r) \in Terms /\ terms[Row(r)] \in Term
    BY <1>0, <1>2 DEF Inv, Sound, Row, Live, TypeOK
  <2>2. old \in Term \cup {None} /\ (req[r].op = "rename" => old = terms[req[r].row] /\ old \in Term)
    BY <1>0, <2>1 DEF Row
  <2>3. pc \in {"posts", "write", "name"} /\ (req[r].op = "rename" => pc # "posts")
        /\ (req[r].op = "delete" => pc = "posts")
    BY <1>0
  <2>10. req[r].op = "rename" /\ pc = "name" => old.name # req[r].name
    BY <1>0
  <2>. HIDE DEF old, pc
  <2>4. /\ new \in Request /\ new.pc = pc /\ new.old = old /\ new.op = req[r].op
        /\ new.row = req[r].row /\ new.name = req[r].name /\ new.want = req[r].want
    BY <2>2, <2>3 DEF Inv, TypeOK, Request, PCs
  <2>5. req' = [req EXCEPT ![r] = new]
    BY <1>2
  <2>. HIDE DEF new
  <2>6. req'[r] = new /\ req' \in [Requests -> Request] /\ \A q \in Requests \ {r} : req'[q] = req[q]
    BY <2>4, <2>5 DEF Inv, TypeOK
  <2>7. \A c \in Terms : InCategory(c)' = InCategory(c)
    BY <1>0 DEF InCategory
  <2>8. Sound(r)'
    BY <1>0, <1>2, <2>2, <2>3, <2>4, <2>6, <2>7 DEF Inv, Sound, Replacing
  <2>9. Checked(r)'
    BY <1>0, <2>2, <2>3, <2>4, <2>6, <2>10 DEF Checked
  <2>. QED BY <1>0, <1>2, <2>6, <2>8, <2>9, Acts, Quiet DEF Inv, TypeOK
<1>. QED BY <1>1, <1>2 DEF LoadTerm

LEMMA CheckNameInv == ASSUME Inv, NEW r \in Requests, CheckName(r) PROVE Inv'
<1>0. /\ req[r].pc = "name" /\ req[r].op \in {"create", "rename"} /\ {"slug", "write"} \subseteq PCs
      /\ UNCHANGED <<terms, refs>>
  BY DEF CheckName, Inv, Sound, PCs
<1>1. CASE NameFound(req[r].name, Kind(Row(r))) /\ Conflict(r)
  <2>1. r \in hist.alone => NameTaken(req[r].name, Row(r))
    BY <1>0, <1>1 DEF Inv, Lone, Checked, NameFound, NameTaken, Row
  <2>. QED BY <1>0, <1>1, <2>1, ConflictInv DEF Taken
<1>2. CASE Goto(r, IF req[r].op = "create" THEN "slug" ELSE "write")
  <2>. DEFINE pc == IF req[r].op = "create" THEN "slug" ELSE "write"
  <2>1. pc \in PCs /\ (req[r].op = "create" => pc = "slug") /\ (req[r].op = "rename" => pc = "write")
    BY <1>0
  <2>. HIDE DEF pc
  <2>2. /\ Mover(r) /\ hist' = hist
        /\ req'[r].pc = pc /\ req'[r].op = req[r].op /\ req'[r].row = req[r].row
        /\ req'[r].name = req[r].name /\ req'[r].old = req[r].old
    BY <1>0, <1>2, <2>1, Goes DEF pc
  <2>3. Sound(r)'
    BY <1>0, <2>1, <2>2 DEF Inv, Sound, Replacing
  <2>4. r \in hist'.alone => Checked(r)'
    BY <1>0, <2>1, <2>2 DEF Inv, Lone, Checked
  <2>. QED BY <1>0, <2>2, <2>3, <2>4, Quiet
<1>. QED BY <1>1, <1>2 DEF CheckName

LEMMA CheckSlugInv == ASSUME Inv, NEW r \in Requests, CheckSlug(r) PROVE Inv'
<1>0. req[r].pc = "slug" /\ req[r].op = "create" /\ "write" \in PCs /\ UNCHANGED <<terms, refs>>
  BY DEF CheckSlug, Inv, Sound, PCs
<1>1. CASE SlugTaken(Slug(req[r].name), Row(r)) /\ Conflict(r)
  BY <1>0, <1>1, ConflictInv DEF Taken
<1>2. CASE Goto(r, "write")
  <2>1. /\ Mover(r) /\ hist' = hist
        /\ req'[r].pc = "write" /\ req'[r].op = req[r].op /\ req'[r].row = req[r].row
        /\ req'[r].name = req[r].name /\ req'[r].old = req[r].old
    BY <1>0, <1>2, Goes
  <2>2. Sound(r)' /\ Checked(r)'
    BY <1>0, <2>1 DEF Inv, Sound, Replacing, Checked
  <2>. QED BY <1>0, <2>1, <2>2, Quiet
<1>. QED BY <1>1, <1>2 DEF CheckSlug

LEMMA CheckCategoryInv == ASSUME Inv, NEW r \in Requests, CheckCategory(r) PROVE Inv'
<1>0. /\ req[r].pc = "category" /\ req[r].op \in {"post", "edit"} /\ "tags" \in PCs
      /\ UNCHANGED <<terms, refs>>
  BY DEF CheckCategory, Inv, Sound, PCs
<1>1. CASE Answer(r)
  BY <1>0, <1>1, AnswerInv
<1>2. CASE (req[r].want.cat # None => Live(req[r].want.cat)) /\ Goto(r, "tags")
  <2>1. /\ Mover(r) /\ hist' = hist
        /\ req'[r].pc = "tags" /\ req'[r].op = req[r].op /\ req'[r].row = req[r].row
        /\ req'[r].want = req[r].want /\ req'[r].old = req[r].old
    BY <1>0, <1>2, Goes
  <2>2. Sound(r)'
    BY <1>0, <2>1 DEF Inv, Sound, Replacing, Mover
  <2>3. r \in hist'.alone => Checked(r)'
    BY <1>0, <1>2, <2>1 DEF Inv, Lone, Checked, Live
  <2>. QED BY <1>0, <2>1, <2>2, <2>3, Quiet
<1>. QED BY <1>1, <1>2 DEF CheckCategory

LEMMA LoadPostsInv == ASSUME Inv, NEW r \in Requests, LoadPosts(r) PROVE Inv'
<1>. DEFINE posts == InCategory(Row(r))
            new == [req[r] EXCEPT !.pc = "write", !.posts = posts]
<1>1. /\ req[r].pc = "posts" /\ req[r].op = "delete" /\ UNCHANGED <<terms, refs, hist>>
      /\ req' = [req EXCEPT ![r] = new]
  BY DEF LoadPosts, At
<1>2. posts \subseteq Posts /\ posts \subseteq hist.was[r] /\ req[r].row \in Terms
  BY <1>1 DEF Inv, Sound, Row, InCategory
<1>. HIDE DEF posts
<1>3. /\ new \in Request /\ new.pc = "write" /\ new.posts = posts /\ new.op = "delete"
      /\ new.row = req[r].row
  BY <1>1, <1>2 DEF Inv, TypeOK, Request, PCs
<1>. HIDE DEF new
<1>4. req'[r] = new /\ req' \in [Requests -> Request] /\ \A q \in Requests \ {r} : req'[q] = req[q]
  BY <1>1, <1>3 DEF Inv, TypeOK
<1>5. \A c \in Terms : InCategory(c)' = InCategory(c)
  BY <1>1 DEF InCategory
<1>6. Sound(r)' /\ Checked(r)'
  BY <1>1, <1>2, <1>3, <1>4, <1>5 DEF Inv, Sound, Replacing, Checked
<1>. QED BY <1>1, <1>4, <1>6, Acts, Quiet DEF Inv, TypeOK

\* A request about a post goes on, its references read or filtered.
LEMMA PostMoves ==
  ASSUME Inv, NEW r \in Requests, req[r].op \in {"post", "edit"}, req[r].pc \notin {"idle", "conflict"},
         NEW pc \in {"related", "category", "write"}, NEW want \in Wanted, NEW old \in Refs \cup Term \cup {None},
         pc \in {"related", "category"} => req[r].op = "edit",
         req[r].op = "edit" => old \in Refs,
         req' = [req EXCEPT ![r] = [req[r] EXCEPT !.pc = pc, !.want = want, !.old = old]],
         UNCHANGED <<terms, refs, hist>>,
         req[r].op = "edit" /\ pc \in {"category", "write"} /\ want.tags # None =>
           Differ(old.tags, refs[req[r].row].tags) \subseteq hist.touched[r],
         r \in hist.alone =>
           /\ pc = "write" /\ want.cat # None => Live(want.cat)
           /\ pc = "write" /\ want.tags # None => \A t \in want.tags : Live(t)
           /\ req[r].op = "edit" /\ pc \in {"category", "write"} => old.tags = refs[req[r].row].tags
  PROVE  Inv'
<1>. DEFINE new == [req[r] EXCEPT !.pc = pc, !.want = want, !.old = old]
<1>1. /\ new \in Request /\ new.pc = pc /\ new.want = want /\ new.old = old
      /\ new.op = req[r].op /\ new.row = req[r].row
  BY ZenonT(60) DEF Inv, TypeOK, Request, PCs
<1>. HIDE DEF new
<1>2. req'[r] = new /\ req' \in [Requests -> Request] /\ \A q \in Requests \ {r} : req'[q] = req[q]
  BY <1>1 DEF Inv, TypeOK, new
<1>3. Sound(r)'
  BY <1>1, <1>2 DEF Inv, Sound, Replacing
<1>4. r \in hist'.alone => Checked(r)'
  BY <1>1, <1>2 DEF Checked, Live
<1>. QED BY <1>2, <1>3, <1>4, Acts, Quiet DEF Inv, TypeOK

LEMMA LoadRefsInv == ASSUME Inv, NEW r \in Requests, LoadRefs(r) PROVE Inv'
<1>. DEFINE old == [NoRefs EXCEPT !.cat = refs[Row(r)].cat]
<1>0. req[r].pc = "load" /\ req[r].op = "edit" /\ UNCHANGED <<terms, refs>>
  BY DEF LoadRefs, At
<1>1. CASE Answer(r)
  BY <1>0, <1>1, AnswerInv
<1>2. CASE req' = [req EXCEPT ![r].pc = "related", ![r].old = old] /\ UNCHANGED hist
  <2>1. refs[Row(r)] \in Refs /\ req[r].want \in Wanted
    BY <1>0 DEF Inv, Sound, Row, TypeOK
  <2>2. old \in Refs
    BY <2>1 DEF NoRefs, Refs
  <2>. HIDE DEF old
  <2>3. req' = [req EXCEPT ![r] = [req[r] EXCEPT !.pc = "related", !.want = req[r].want, !.old = old]]
    BY <1>2 DEF Inv, TypeOK, Request
  <2>. QED BY <1>0, <1>2, <2>1, <2>2, <2>3, PostMoves
<1>. QED BY <1>1, <1>2 DEF LoadRefs

LEMMA LoadRelatedInv == ASSUME Inv, NEW r \in Requests, LoadRelated(r) PROVE Inv'
<1>. DEFINE cat == req[r].old.cat
            tags == refs[Row(r)].tags
            keep == IF req[r].want.cat # None /\ req[r].want.cat = cat /\ Live(cat)
                    THEN None ELSE req[r].want.cat
            want == [req[r].want EXCEPT !.cat = keep]
            old == [NoRefs EXCEPT !.tags = tags]
<1>0. req[r].pc = "related" /\ req[r].op = "edit" /\ UNCHANGED <<terms, refs, hist>>
  BY DEF LoadRelated, At
<1>1. refs[Row(r)] \in Refs /\ req[r].want \in Wanted /\ req[r].old \in Refs
  BY <1>0 DEF Inv, Sound, Row, TypeOK
<1>2. req' = [req EXCEPT ![r].pc = "category", ![r].old = old, ![r].want.cat = keep]
  BY DEF LoadRelated
<1>3. keep \in Cats \cup {None} /\ tags \subseteq Tags
  BY <1>1 DEF Wanted, Refs
<1>. HIDE DEF keep, tags, cat
<1>4. want \in Wanted /\ old \in Refs /\ old.tags = tags
  BY <1>1, <1>3 DEF Wanted, Refs, NoRefs
<1>5. req' = [req EXCEPT ![r] = [req[r] EXCEPT !.pc = "category", !.want = want, !.old = old]]
  BY <1>1, <1>2, ZenonT(60) DEF Inv, TypeOK, Request
<1>6. Differ(old.tags, refs[req[r].row].tags) = {}
  BY <1>4 DEF tags, Row, Differ
<1>. HIDE DEF want, old
<1>. QED BY <1>0, <1>4, <1>5, <1>6, PostMoves DEF tags, Row

LEMMA LoadTagsInv == ASSUME Inv, NEW r \in Requests, LoadTags(r) PROVE Inv'
<1>. DEFINE tags == IF req[r].want.tags = None THEN None ELSE {t \in req[r].want.tags : Live(t)}
            want == [req[r].want EXCEPT !.tags = tags]
<1>0. req[r].pc = "tags" /\ req[r].op \in {"post", "edit"} /\ UNCHANGED <<terms, refs, hist>>
  BY DEF LoadTags, Inv, Sound
<1>1. req[r].want \in Wanted /\ (req[r].op = "edit" => req[r].old \in Refs)
      /\ req[r].old \in Refs \cup Term \cup {None}
  BY <1>0 DEF Inv, Sound, TypeOK, Request
<1>2. req' = [req EXCEPT ![r].pc = "write", ![r].want.tags = tags]
  BY DEF LoadTags
<1>3. tags \in (SUBSET Tags) \cup {None} /\ (tags # None => \A t \in tags : Live(t))
  BY <1>1 DEF Wanted
<1>. HIDE DEF tags
<1>4. want \in Wanted /\ want.tags = tags /\ want.cat = req[r].want.cat
  BY <1>1, <1>3 DEF Wanted
<1>5. req' = [req EXCEPT ![r] = [req[r] EXCEPT !.pc = "write", !.want = want, !.old = req[r].old]]
  BY <1>1, <1>2 DEF Inv, TypeOK, Request
<1>. HIDE DEF want
<1>6. r \in hist.alone =>
        /\ want.cat # None => Live(want.cat)
        /\ req[r].op = "edit" => req[r].old.tags = refs[req[r].row].tags
  BY <1>0, <1>4 DEF Inv, Lone, Checked
<1>7. req[r].op = "edit" /\ want.tags # None =>
        Differ(req[r].old.tags, refs[req[r].row].tags) \subseteq hist.touched[r]
  BY <1>0, <1>4 DEF Inv, Sound, Replacing, tags
<1>. QED BY <1>0, <1>1, <1>3, <1>4, <1>5, <1>6, <1>7, PostMoves

\* A write that is answered.
LEMMA Wrote ==
  ASSUME Inv, NEW r \in Requests, req[r].pc # "idle", Kept(r),
         req' = [req EXCEPT ![r] = Idle], hist' \in History, hist'.alone \subseteq hist.alone,
         terms' \in [Terms -> Term \cup {None, Gone}], refs' \in [Posts -> Refs \cup {None}],
         ReferencesExist'
  PROVE  Inv'
<1>1. Idle \in Request /\ Idle.op = None /\ Idle.pc = "idle"
  BY DEF Idle, Request, PCs
<1>2. req' \in [Requests -> Request] /\ req'[r] = Idle /\ \A q \in Requests \ {r} : req'[q] = req[q]
  BY <1>1 DEF Inv, TypeOK
<1>3. Sound(r)' /\ Checked(r)'
  BY <1>1, <1>2, NoneAssumption DEF Sound, Replacing, Checked, Ops
<1>4. Mover(r)
  BY <1>2, Acts
<1>5. TypeOK'
  BY <1>2 DEF TypeOK
<1>. QED BY <1>3, <1>4, <1>5, Frame DEF Inv

LEMMA StoreInv ==
  ASSUME Inv, NEW r \in Requests, req[r].pc = "write", req[r].op \in {"create", "rename"},
         NEW row \in Term, Store(r, row), UNCHANGED refs,
         r \in hist.alone => row.name = req[r].name /\ row.slug = Slug(req[r].name)
  PROVE  Inv'
<1>1. CASE (NameTaken(row.name, Row(r)) \/ SlugTaken(row.slug, Row(r))) /\ Conflict(r) /\ UNCHANGED terms
  BY <1>1, ConflictInv DEF Taken
<1>2. CASE terms' = [terms EXCEPT ![Row(r)] = row] /\ Answer(r)
  <2>1. /\ terms' \in [Terms -> Term \cup {None, Gone}] /\ row \notin {None, Gone}
        /\ \A t \in Terms : terms'[t] = terms[t] \/ terms'[t] = row
    BY <1>2, NoneAssumption DEF Inv, TypeOK
  <2>2. ReferencesExist'
    BY <2>1 DEF Inv, TypeOK, ReferencesExist, Live, Refs, Terms
  <2>3. /\ req' = [req EXCEPT ![r] = Idle] /\ hist' \in History /\ hist'.alone \subseteq hist.alone
        /\ \A q \in Requests \ {r} : hist'.was[q] = hist.was[q] /\ hist'.touched[q] = hist.touched[q]
    BY <1>2 DEF Answer, Ended, Inv, TypeOK, History
  <2>4. Kept(r)
    BY <2>3 DEF Kept, InCategory, Differ
  <2>5. refs' \in [Posts -> Refs \cup {None}]
    BY DEF Inv, TypeOK
  <2>. QED BY <2>1, <2>2, <2>3, <2>4, <2>5, Wrote
<1>. QED BY <1>1, <1>2 DEF Store

LEMMA InsertInv == ASSUME Inv, NEW r \in Requests, Insert(r) PROVE Inv'
<1>1. req[r].pc = "write" /\ req[r].op = "create" /\ Store(r, NewTerm(req[r].name)) /\ UNCHANGED refs
  BY DEF Insert, At
<1>2. /\ NewTerm(req[r].name) \in Term /\ NewTerm(req[r].name).name = req[r].name
      /\ NewTerm(req[r].name).slug = Slug(req[r].name)
  BY <1>1 DEF Inv, Sound, NewTerm, Term
<1>. QED BY <1>1, <1>2, StoreInv

LEMMA RenameInv == ASSUME Inv, NEW r \in Requests, Rename(r) PROVE Inv'
<1>. DEFINE old == req[r].old
            now == terms[Row(r)]
            new == NewTerm(req[r].name)
            row == [name |-> IF new.name = old.name THEN now.name ELSE new.name,
                    slug |-> IF new.slug = old.slug THEN now.slug ELSE new.slug]
<1>0. req[r].pc = "write" /\ req[r].op = "rename" /\ UNCHANGED refs
  BY DEF Rename, At
<1>1. CASE Answer(r) /\ UNCHANGED terms
  BY <1>0, <1>1, AnswerInv
<1>2. CASE Live(Row(r)) /\ Store(r, row)
  <2>1. now \in Term /\ new \in Term /\ new.name = req[r].name /\ new.slug = Slug(req[r].name)
    BY <1>0, <1>2 DEF Inv, Sound, Row, TypeOK, Live, NewTerm, Term
  <2>2. row \in Term
    BY <2>1 DEF Term
  <2>3. r \in hist.alone => old = now
    BY <1>0 DEF Inv, Lone, Checked, Row
  <2>4. r \in hist.alone => row.name = req[r].name /\ row.slug = Slug(req[r].name)
    BY <2>1, <2>3
  <2>. HIDE DEF row
  <2>. QED BY <1>0, <1>2, <2>2, <2>4, StoreInv
<1>. QED BY <1>1, <1>2 DEF Rename

\* What Touched collects: the tags each edit of another request must know of.
LEMMA TouchedTyped ==
  ASSUME Inv, NEW r \in Requests, refs' \in [Posts -> Refs \cup {None}],
         \A p \in Posts : refs[p] # None => refs'[p] # None
  PROVE  /\ Touched(r) \in [Requests -> SUBSET Tags]
         /\ \A q \in Requests \ {r} : Replacing(q) =>
              /\ hist.touched[q] \subseteq Touched(r)[q]
              /\ Differ(refs[req[q].row].tags, refs'[req[q].row].tags) \subseteq Touched(r)[q]
<1>1. ASSUME NEW q \in Requests, Replacing(q)
      PROVE  Differ(refs[req[q].row].tags, refs'[req[q].row].tags) \subseteq Tags
  <2>1. req[q].row \in Posts /\ refs[req[q].row] \in Refs /\ refs'[req[q].row] \in Refs
    BY <1>1 DEF Replacing, Inv, Sound, TypeOK
  <2>. QED BY <2>1 DEF Refs, Differ
<1>2. \A q \in Requests : hist.touched[q] \subseteq Tags
  BY DEF Inv, TypeOK, History
<1>. QED BY <1>1, <1>2 DEF Touched, Row

LEMMA DeleteInv == ASSUME Inv, NEW r \in Requests, Delete(r) PROVE Inv'
<1>1. /\ req[r].pc = "write" /\ req[r].op = "delete" /\ Row(r) \in Terms
      /\ terms' = [terms EXCEPT ![Row(r)] = Gone] /\ req' = [req EXCEPT ![r] = Idle]
      /\ hist' = [Ended(r) EXCEPT !.touched = Touched(r)]
      /\ refs' = [p \in Posts |-> IF refs[p] = None THEN None ELSE Detached(r, p)]
  BY DEF Delete, At, Inv, Sound, Row
<1>2. ASSUME NEW p \in Posts, refs[p] # None
      PROVE  /\ Detached(r, p) \in Refs /\ Detached(r, p) # None
             /\ Detached(r, p).cat \in {None, refs[p].cat} /\ Detached(r, p).cat # Row(r)
             /\ Detached(r, p).tags = refs[p].tags \ {Row(r)}
  <2>1. refs[p] \in Refs /\ Row(r) # None
    BY <1>1, <1>2, KeysAssumption DEF Inv, TypeOK, Terms
  <2>2. Detached(r, p) \in Refs
    BY <2>1 DEF Detached, Refs
  <2>. QED BY <2>1, <2>2, NoneAssumption DEF Detached
<1>3. refs' \in [Posts -> Refs \cup {None}] /\ terms' \in [Terms -> Term \cup {None, Gone}]
  BY <1>1, <1>2 DEF Inv, TypeOK
<1>4. ReferencesExist'
  <2>1. ASSUME NEW p \in Posts, refs'[p] # None
        PROVE  /\ refs'[p].cat # None => terms'[refs'[p].cat] \notin {None, Gone}
               /\ \A t \in refs'[p].tags : terms'[t] \notin {None, Gone}
    <3>1. refs[p] # None /\ refs'[p] = Detached(r, p)
      BY <1>1, <2>1
    <3>2. refs[p] \in Refs /\ (refs[p].cat # None => Live(refs[p].cat)) /\ \A t \in refs[p].tags : Live(t)
      BY <3>1 DEF Inv, TypeOK, ReferencesExist
    <3>3. ASSUME NEW t \in Terms \ {Row(r)}, Live(t) PROVE terms'[t] \notin {None, Gone}
      BY <1>1, <3>3 DEF Inv, TypeOK, Live
    <3>. QED BY <1>2, <3>1, <3>2, <3>3 DEF Refs, Terms
  <2>. QED BY <2>1 DEF ReferencesExist, Live
<1>5. /\ hist' \in History /\ hist'.alone \subseteq hist.alone /\ hist'.touched = Touched(r)
      /\ \A q \in Requests \ {r} : hist'.was[q] = hist.was[q]
  <2>1. hist' = [alone |-> hist.alone \ {r}, was |-> [hist.was EXCEPT ![r] = {}],
                 touched |-> Touched(r)]
    BY <1>1 DEF Ended
  <2>2. hist.alone \subseteq Requests /\ hist.was \in [Requests -> SUBSET Posts]
    BY DEF Inv, TypeOK, History
  <2>3. Touched(r) \in [Requests -> SUBSET Tags]
    BY <1>1, <1>2, <1>3, TouchedTyped
  <2>. QED BY <2>1, <2>2, <2>3 DEF History
<1>6. \A p \in Posts : refs'[p] = None <=> refs[p] = None
  BY <1>1, <1>2
<1>7. ASSUME NEW q \in Requests \ {r}, req[q].op = "delete", NEW p \in Posts, refs'[p] # None,
             refs'[p].cat = req[q].row
      PROVE  p \in InCategory(req[q].row)
  <2>1. req[q].row # None
    BY <1>7, KeysAssumption DEF Inv, Sound, Terms
  <2>. QED BY <1>1, <1>2, <1>7, <2>1 DEF InCategory
<1>8. Kept(r)
  BY <1>3, <1>5, <1>6, <1>7, TouchedTyped DEF Kept
<1>. QED BY <1>1, <1>3, <1>4, <1>5, <1>8, Wrote

LEMMA WriteRefsInv == ASSUME Inv, NEW r \in Requests, WriteRefs(r) PROVE Inv'
<1>. DEFINE want == req[r].want
            old == IF req[r].op = "post" THEN NoRefs ELSE req[r].old
            now == IF req[r].op = "post" THEN NoRefs ELSE refs[Row(r)]
            adds == IF want.tags = None THEN {} ELSE Adds(want.tags, old.tags)
            drops == IF want.tags = None THEN {} ELSE Drops(want.tags, old.tags)
            new == [cat |-> IF want.cat = None THEN now.cat ELSE want.cat,
                    tags |-> (now.tags \ drops) \cup adds]
<1>0. req[r].pc = "write" /\ req[r].op \in {"post", "edit"} /\ UNCHANGED terms
  BY DEF WriteRefs
<1>1. /\ want \in Wanted /\ (req[r].op = "edit" => refs[Row(r)] \in Refs /\ req[r].old \in Refs)
      /\ Row(r) \in Posts /\ (req[r].op = "post" => refs[Row(r)] = None)
  BY <1>0 DEF Inv, Sound, Row, TypeOK
<1>2. NoRefs \in Refs
  BY DEF NoRefs, Refs
<1>3. now \in Refs /\ old \in Refs
  BY <1>0, <1>1, <1>2
<1>4. adds \in SUBSET Tags
  <2>1. want.tags \in (SUBSET Tags) \cup {None}
    BY <1>1 DEF Wanted
  <2>. QED BY <2>1 DEF Adds
<1>5. new \in Refs
  BY <1>1, <1>3, <1>4 DEF Wanted, Refs
<1>6. (now.cat # None => Live(now.cat)) /\ \A t \in now.tags : Live(t)
  BY <1>0, <1>1, NoneAssumption DEF Inv, ReferencesExist, NoRefs
<1>7. CASE Refused(want.cat, adds, now) /\ Conflict(r) /\ UNCHANGED refs
  <2>1. r \notin hist.alone
    <3>1. SUFFICES ASSUME r \in hist.alone PROVE FALSE
      OBVIOUS
    <3>2. /\ want.cat # None => Live(want.cat)
          /\ want.tags # None => \A t \in want.tags : Live(t)
          /\ old.tags = now.tags
      BY <1>0, <3>1 DEF Inv, Lone, Checked, Row
    <3>. QED BY <1>7, <3>2 DEF Refused, Adds
  <2>. QED BY <1>0, <1>7, <2>1, ConflictInv
<1>8. CASE /\ ~Refused(want.cat, adds, now)
           /\ req' = [req EXCEPT ![r] = Idle]
           /\ refs' = [refs EXCEPT ![Row(r)] = new]
           /\ hist' = [Ended(r) EXCEPT !.touched = Touched(r), !.was = [q \in Requests |->
                IF req[q].op = "delete" /\ want.cat = Row(q) THEN @[q] \cup {Row(r)} ELSE @[q]]]
  <2>0. /\ refs' \in [Posts -> Refs \cup {None}]
        /\ \A p \in Posts : refs[p] # None => refs'[p] # None
    BY <1>1, <1>5, <1>8, NoneAssumption DEF Inv, TypeOK
  <2>1. /\ hist' \in History /\ hist'.alone = hist.alone \ {r} /\ hist'.touched = Touched(r)
        /\ \A q \in Requests \ {r} : hist'.was[q] =
             IF req[q].op = "delete" /\ want.cat = Row(q) THEN hist.was[q] \cup {Row(r)} ELSE hist.was[q]
    <3>. DEFINE was == [hist.was EXCEPT ![r] = {}]
                entered == [q \in Requests |->
                  IF req[q].op = "delete" /\ want.cat = Row(q) THEN was[q] \cup {Row(r)} ELSE was[q]]
    <3>0. hist' = [alone |-> Ended(r).alone, touched |-> Touched(r), was |-> [q \in Requests |->
            IF req[q].op = "delete" /\ want.cat = Row(q) THEN Ended(r).was[q] \cup {Row(r)}
            ELSE Ended(r).was[q]]]
      <4>. DEFINE touched == Touched(r)
      <4>1. hist' = [Ended(r) EXCEPT !.touched = touched, !.was = [q \in Requests |->
              IF req[q].op = "delete" /\ want.cat = Row(q) THEN @[q] \cup {Row(r)} ELSE @[q]]]
        BY <1>8
      <4>2. Ended(r) = [alone |-> Ended(r).alone, was |-> Ended(r).was, touched |-> Ended(r).touched]
        BY DEF Ended
      <4>. HIDE DEF touched, want
      <4>. QED BY <4>1, <4>2 DEF touched
    <3>1. hist' = [alone |-> hist.alone \ {r}, was |-> entered, touched |-> Touched(r)]
      BY <3>0 DEF Ended
    <3>2. hist.alone \subseteq Requests /\ hist.was \in [Requests -> SUBSET Posts]
      BY DEF Inv, TypeOK, History
    <3>3. Touched(r) \in [Requests -> SUBSET Tags]
      BY <2>0, TouchedTyped
    <3>. QED BY <1>1, <3>1, <3>2, <3>3 DEF History
  <2>2. /\ refs' \in [Posts -> Refs \cup {None}] /\ refs'[Row(r)] = new /\ new # None
        /\ \A p \in Posts \ {Row(r)} : refs'[p] = refs[p]
    BY <1>1, <1>5, <1>8, NoneAssumption DEF Inv, TypeOK
  <2>3. (new.cat # None => Live(new.cat)) /\ \A t \in new.tags : Live(t)
    BY <1>6, <1>8 DEF Refused
  <2>. HIDE DEF new, now, adds, drops
  <2>4. ReferencesExist'
    <3>1. \A t \in Terms \cup {None} : Live(t)' <=> Live(t)
      BY <1>0 DEF Live
    <3>. QED
      BY <1>0, <2>2, <2>3 DEF Inv, ReferencesExist, Live
  <2>5. new.cat = want.cat \/ new.cat = now.cat
    BY DEF new
  <2>6. \A q \in Requests \ {r} : req[q].op = "delete" => req[q].row # None
    BY KeysAssumption DEF Inv, Sound, Terms
  <2>7. req[r].op = "edit" => now = refs[Row(r)]
    BY <1>0 DEF now
  <2>8. req[r].op = "post" => now.cat = None
    BY DEF now, NoRefs
  <2>9. req[r].op = "edit" => refs[Row(r)] # None
    BY DEF Inv, Sound, Row
  <2>10. \A p \in Posts : (req[r].op = "post" /\ p = req[r].row) \/ (refs'[p] = None <=> refs[p] = None)
    BY <1>0, <2>2, <2>9 DEF Row
  <2>11. ASSUME NEW q \in Requests \ {r}, req[q].op = "delete", NEW p \in Posts, refs'[p] # None,
                refs'[p].cat = req[q].row
         PROVE  p \in InCategory(req[q].row) \/ p \in hist'.was[q]
    <3>1. CASE p # Row(r)
      BY <2>2, <2>11, <3>1 DEF InCategory
    <3>2. CASE p = Row(r) /\ want.cat = req[q].row
      BY <2>1, <2>11, <3>2 DEF Row
    <3>3. CASE p = Row(r) /\ want.cat # req[q].row
      BY <1>0, <2>2, <2>5, <2>6, <2>7, <2>8, <2>9, <2>11, <3>3 DEF InCategory
    <3>. QED BY <3>1, <3>2, <3>3
  <2>12. Kept(r)
    BY <2>0, <2>1, <2>10, <2>11, TouchedTyped DEF Kept
  <2>13. terms' \in [Terms -> Term \cup {None, Gone}]
    BY <1>0 DEF Inv, TypeOK
  <2>. QED BY <1>0, <1>8, <2>1, <2>2, <2>4, <2>12, <2>13, Wrote
<1>. QED BY <1>7, <1>8 DEF WriteRefs

LEMMA InitInv == Init => Inv
<1>. SUFFICES ASSUME Init PROVE Inv
  OBVIOUS
<1>1. Idle \in Request /\ Idle.op = None /\ Idle.pc = "idle"
  BY DEF Idle, Request, PCs
<1>2. TypeOK
  BY <1>1 DEF Init, TypeOK, History
<1>3. ASSUME NEW r \in Requests PROVE Sound(r) /\ Lone(r)
  BY <1>1, NoneAssumption DEF Init, Sound, Replacing, Lone, Ops
<1>. QED BY <1>2, <1>3 DEF Inv, Init, ReferencesExist

LEMMA NextInv == Inv /\ [Next]_vars => Inv'
<1>. SUFFICES ASSUME Inv, [Next]_vars PROVE Inv'
  OBVIOUS
<1>1. ASSUME NEW r \in Requests, Abort(r) \/ AnswerConflict(r) PROVE Inv'
  BY <1>1, AnswerInv DEF Abort, AnswerConflict, PCs
<1>2. CASE UNCHANGED vars
  <2>1. \A c : InCategory(c)' = InCategory(c)
    BY <1>2 DEF vars, InCategory
  <2>2. ASSUME NEW r \in Requests PROVE Sound(r)' /\ Lone(r)'
    BY <1>2, <2>1 DEF vars, Inv, Sound, Replacing, Lone, Checked, Taken, NameTaken, SlugTaken, Row, Live
  <2>. QED BY <1>2, <2>2 DEF vars, Inv, TypeOK, ReferencesExist, Live
<1>. QED
  BY <1>1, <1>2, BeginsInv, LoadTermInv, CheckNameInv, CheckSlugInv, InsertInv, RenameInv,
     LoadPostsInv, DeleteInv, LoadRefsInv, LoadRelatedInv, CheckCategoryInv, LoadTagsInv, WriteRefsInv
  DEF Next, Serve

-----------------------------------------------------------------------------
\* The inductive invariant of Taxonomy holds in every reachable state, for any categories,
\* tags, names, posts and requests and any slugify.
THEOREM Invariance == Spec => []Inv
BY InitInv, NextInv, PTL DEF Spec

\* Every reachable state is well typed.
THEOREM TypeCorrect == Spec => []TypeOK
BY Invariance, PTL DEF Inv

\* However deletions race with create and update of posts, no post refers to a category
\* or a tag that is not there.
THEOREM ReferencesAreThere == Spec => []ReferencesExist
BY Invariance, PTL DEF Inv

\* create and update that no other request overlaps conflict only with another row's name
\* or slug.
THEOREM ConflictsAreReal == Spec => []ConflictOnlyWhenTaken
<1>1. Inv => ConflictOnlyWhenTaken
  BY DEF Inv, TypeOK, History, Lone, Checked, Taken, ConflictOnlyWhenTaken
<1>. QED BY <1>1, Invariance, PTL

\* A post loses its category only to the deletion of one it has been in meanwhile.
THEOREM CategoriesAreKept == Spec => CategoryKept
<1>. DEFINE Keeping(p) == refs[p] # None /\ refs[p].cat # None /\ refs'[p].cat = None =>
       \E r \in Requests : At(r, "delete", "write") /\ p \in hist.was[r]
             AllKeep == \A p \in Posts : Keeping(p)
<1>1. ASSUME Inv, [Next]_vars, NEW p \in Posts PROVE Keeping(p)
  <2>1. ASSUME NEW r \in Requests, Delete(r) PROVE Keeping(p)
    <3>1. /\ At(r, "delete", "write") /\ InCategory(Row(r)) \subseteq hist.was[r]
          /\ req[r].posts \subseteq hist.was[r]
      BY <1>1, <2>1 DEF Delete, At, Inv, Sound, Row
    <3>2. refs[p] # None => refs'[p] = Detached(r, p)
      BY <2>1 DEF Delete
    <3>. QED BY <3>1, <3>2 DEF Detached, InCategory
  <2>2. ASSUME NEW r \in Requests, WriteRefs(r) PROVE Keeping(p)
    <3>1. req[r].op = "post" => refs[Row(r)] = None
      BY <1>1 DEF Inv, Sound, Row
    <3>2. CASE UNCHANGED refs
      BY <3>2
    <3>3. ASSUME NEW cat, NEW tags,
                 refs' = [refs EXCEPT ![Row(r)] = [cat |-> cat, tags |-> tags]],
                 req[r].op = "edit" => cat # None \/ cat = refs[Row(r)].cat
          PROVE  Keeping(p)
      BY <1>1, <2>2, <3>1, <3>3 DEF WriteRefs, Inv, TypeOK
    <3>4. \/ UNCHANGED refs
          \/ \E cat, tags :
               /\ refs' = [refs EXCEPT ![Row(r)] = [cat |-> cat, tags |-> tags]]
               /\ req[r].op = "edit" => cat # None \/ cat = refs[Row(r)].cat
      BY <2>2 DEF WriteRefs
    <3>. QED BY <3>2, <3>3, <3>4
  <2>3. UNCHANGED refs \/ \E r \in Requests : Delete(r) \/ WriteRefs(r)
    BY <1>1, ZenonT(60) DEF Next, Serve, vars, Begin, BeginCreate, BeginRename, BeginDelete, BeginPost, LoadTerm,
                CheckName, CheckSlug, Insert, Rename, LoadPosts, LoadRefs, LoadRelated,
                CheckCategory, LoadTags, Abort, AnswerConflict
  <2>. QED BY <2>1, <2>2, <2>3
<1>2. ASSUME Inv, [Next]_vars PROVE [AllKeep]_vars
  BY <1>1, <1>2
<1>. QED
  BY <1>2, Invariance, PTL DEF Spec, CategoryKept

\* PostService.update replaces the tags of a post by those asked for, up to what other requests
\* did to its tags after it had loaded them.
THEOREM TagsAreReplaced == Spec => TagsReplaced
<1>. DEFINE Replaced(r) == WriteRefs(r) /\ req'[r].pc = "idle" /\ Replacing(r) =>
              Differ(refs'[Row(r)].tags, req[r].want.tags) \subseteq hist.touched[r]
            AllReplaced == \A r \in Requests : Replaced(r)
<1>1. ASSUME Inv, NEW r \in Requests, WriteRefs(r), req'[r].pc = "idle", Replacing(r)
      PROVE  Differ(refs'[Row(r)].tags, req[r].want.tags) \subseteq hist.touched[r]
  <2>. DEFINE old == req[r].old.tags
              now == refs[Row(r)].tags
              want == req[r].want.tags
  <2>1. req[r].op = "edit" /\ want # None
    BY <1>1 DEF Replacing
  <2>2. Row(r) \in Posts /\ refs \in [Posts -> Refs \cup {None}] /\ req \in [Requests -> Request]
    BY <1>1, <2>1 DEF Inv, Sound, Row, TypeOK
  <2>3. ~Conflict(r)
    BY <1>1, <2>2 DEF Conflict, Idle
  <2>4. refs'[Row(r)].tags = (now \ Drops(want, old)) \cup Adds(want, old)
    <3>1. \E cat : refs' = [refs EXCEPT ![Row(r)] =
            [cat |-> cat, tags |-> (now \ Drops(want, old)) \cup Adds(want, old)]]
      BY <1>1, <2>1, <2>3 DEF WriteRefs
    <3>. QED BY <2>2, <3>1
  <2>5. Differ(old, now) \subseteq hist.touched[r]
    BY <1>1 DEF Inv, Sound, Row
  <2>. QED BY <2>4, <2>5 DEF Differ, Drops, Adds
<1>2. ASSUME Inv, [Next]_vars PROVE [AllReplaced]_vars
  BY <1>1, <1>2
<1>. QED
  BY <1>2, Invariance, PTL DEF Spec, TagsReplaced
=============================================================================
