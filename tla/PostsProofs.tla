----------------------------- MODULE PostsProofs -----------------------------
(***************************************************************************)
(* Proofs about Posts, for any rows, titles, slugify and requests.         *)
(*                                                                         *)
(* The inductive invariant says what a request knows of the row it is      *)
(* about: a create has it to itself (Creating), every other request works  *)
(* on a row that stays (Changing), a slug chosen or kept is that of its    *)
(* title (Updating), a loaded view count was answered (Viewing), and one   *)
(* that no other overlaps still sees what it saw when it chose (Alone).    *)
(***************************************************************************)
EXTENDS Posts, TLAPS

Hist == [reads : [Rows -> Nat], alone : SUBSET Requests, crossed : SUBSET Rows]

\* A chosen slug is plain, or has the row as its suffix, and is of the title asked for.
SlugFor(r) == req[r].slug[1] = Slug(req[r].title) /\ req[r].slug[2] \in {0, Row(r)}

Stage(r) == (req[r].op = "none") <=> (req[r].pc \in {"idle", "reload", "conflict"})
Creating(r) == req[r].op = "create" =>
  /\ Row(r) \in Rows /\ ~Exists(Row(r)) /\ \A q \in Requests \ {r} : Row(q) # Row(r)
  /\ req[r].pc = "write" => /\ req[r].title \in Titles /\ req[r].status \in Statuses
                            /\ req[r].slug # None /\ SlugFor(r)
Changing(r) == req[r].op \in {"update", "delete", "view"} => Row(r) \in Rows /\ Exists(Row(r))
Updating(r) == req[r].op = "update" =>
  /\ req[r].pc \in {"load", "slug"} => req[r].slug = None
  /\ req[r].pc = "slug" => req[r].title \in Titles
  /\ req[r].pc = "write" => /\ req[r].slug # None => req[r].title # None /\ SlugFor(r)
                            /\ req[r].title # None /\ req[r].slug = None =>
                                 req[r].old = Plain(Slug(req[r].title))
Viewing(r) == req[r].op = "view" /\ req[r].pc = "write" => req[r].views <= hist.reads[Row(r)]
Alone(r) == r \in hist.alone =>
  /\ req[r].pc # "idle" /\ \A q \in Requests \ {r} : req[q].pc = "idle"
  /\ req[r].op \in {"create", "update"} /\ req[r].pc = "write" /\ req[r].slug # None
       /\ req[r].slug[2] = 0 => ~Found(req[r].slug)
  /\ req[r].pc = "conflict" =>
       \E p \in Rows : Exists(p) /\ posts[p].deleted /\ posts[p].slug = Plain(Slug(req[r].title))

Holds(r) ==
  Stage(r) /\ Creating(r) /\ Changing(r) /\ Updating(r) /\ Viewing(r) /\ Alone(r)

\* The unique index, and the suffix that no other row can have.
SlugsOf(p) == Exists(p) =>
  /\ posts[p].slug[2] \in {0, p}
  /\ \A q \in Rows \ {p} : Exists(q) => posts[q].slug # posts[p].slug
  /\ p \notin hist.crossed => posts[p].slug[1] = Slug(posts[p].title)
  /\ posts[p].views <= hist.reads[p]

Inv == TypeOK /\ (\A p \in Rows : SlugsOf(p)) /\ (\A r \in Requests : Holds(r))

\* The steps that write no post: a request moves on, or ends.
LEMMA Reads ==
  ASSUME Inv, NEW r \in Requests, req[r].pc # "idle",
         NEW new \in Request, new.row \in {Row(r), 0},
         req' = [req EXCEPT ![r] = new], UNCHANGED posts,
         hist' \in Hist, hist'.reads = hist.reads, hist'.alone \subseteq hist.alone,
         hist'.crossed = hist.crossed, Holds(r)'
  PROVE  Inv'
<1>1. TypeOK'
  BY DEF Inv, TypeOK, Hist
<1>2. ASSUME NEW p \in Rows PROVE SlugsOf(p)'
  BY DEF Inv, SlugsOf, Exists
<1>3. ASSUME NEW q \in Requests PROVE Holds(q)'
  <2>1. CASE q = r
    BY <2>1
  <2>2. CASE q # r
    <3>1. req'[q] = req[q] /\ req'[r] = new
      BY <2>2 DEF Inv, TypeOK
    <3>2. q \notin hist'.alone
      BY <2>2 DEF Inv, Holds, Alone
    <3>3. Creating(q)'
      BY <2>2, <3>1, RowsAssumption DEF Inv, TypeOK, Holds, Creating, SlugFor, Row, Exists
    <3>4. (Stage(q) /\ Changing(q) /\ Updating(q) /\ Viewing(q))'
      BY <2>2, <3>1 DEF Inv, Holds, Stage, Changing, Updating, Viewing, SlugFor, Row, Exists
    <3>. QED
      BY <3>2, <3>3, <3>4 DEF Holds, Alone
  <2>. QED BY <2>1, <2>2
<1>. QED BY <1>1, <1>2, <1>3 DEF Inv

LEMMA Answers == ASSUME Inv, NEW r \in Requests, req[r].pc # "idle", Answer(r), UNCHANGED posts
                 PROVE  Inv'
<1>1. Idle \in Request /\ Idle.row = 0 /\ Idle.op = "none" /\ Idle.pc = "idle"
  BY DEF Idle, Request, PCs
<1>2. req'[r] = Idle
  BY DEF Answer, Inv, TypeOK
<1>3. /\ hist' \in Hist /\ hist'.reads = hist.reads /\ hist'.crossed = hist.crossed
      /\ hist'.alone \subseteq hist.alone /\ r \notin hist'.alone
  BY DEF Answer, Inv, TypeOK, Hist
<1>4. Holds(r)'
  BY <1>1, <1>2, <1>3 DEF Holds, Stage, Creating, Changing, Updating, Viewing, Alone
<1>. QED
  BY <1>1, <1>3, <1>4, Reads DEF Answer

\* What ReadBack and Answer leave of the requests.
LEMMA ReadsBack ==
  ASSUME Inv, NEW r \in Requests, ReadBack(r)
  PROVE  /\ req' \in [Requests -> Request] /\ \A q \in Requests \ {r} : req'[q] = req[q]
         /\ req'[r].row = 0 /\ req'[r].op = "none" /\ req'[r].pc = "reload"
<1>. DEFINE new == [Idle EXCEPT !.pc = "reload"]
<1>1. new \in Request /\ new.row = 0 /\ new.op = "none" /\ new.pc = "reload"
  BY DEF Idle, Request, PCs
<1>2. req' = [req EXCEPT ![r] = new]
  BY DEF ReadBack
<1>. HIDE DEF new
<1>. QED BY <1>1, <1>2 DEF Inv, TypeOK

LEMMA Ends ==
  ASSUME Inv, NEW r \in Requests, req' = [req EXCEPT ![r] = Idle]
  PROVE  /\ req' \in [Requests -> Request] /\ \A q \in Requests \ {r} : req'[q] = req[q]
         /\ req'[r].row = 0 /\ req'[r].op = "none" /\ req'[r].pc = "idle"
<1>1. Idle \in Request /\ Idle.row = 0 /\ Idle.op = "none" /\ Idle.pc = "idle"
  BY DEF Idle, Request, PCs
<1>. QED BY <1>1 DEF Inv, TypeOK

LEMMA HistTyped == Inv => hist \in Hist /\ \A p \in Rows : hist.reads[p] \in Nat
BY DEF Inv, TypeOK, Hist

\* The steps that write the row of a request; past its write a request has nothing to hold.
LEMMA Writes ==
  ASSUME Inv, NEW r \in Requests, req[r].pc # "idle", Row(r) \in Rows,
         NEW post \in Post, posts' = [posts EXCEPT ![Row(r)] = post],
         post.slug[2] \in {0, Row(r)}, ~Taken(post.slug, Row(r)),
         Row(r) \notin hist'.crossed => post.slug[1] = Slug(post.title),
         hist' \in Hist, hist.crossed \ {Row(r)} \subseteq hist'.crossed, \A p \in Rows : hist.reads[p] <= hist'.reads[p],
         post.views <= hist'.reads[Row(r)],
         hist'.alone \subseteq hist.alone,
         req' \in [Requests -> Request], \A q \in Requests \ {r} : req'[q] = req[q],
         req'[r].row = 0, req'[r].op = "none",
         req'[r].pc \in {"reload", "idle"}, r \in hist'.alone => req'[r].pc = "reload"
  PROVE  Inv'
<1>1. post # None /\ \A p \in Rows : posts'[p] = IF p = Row(r) THEN post ELSE posts[p]
  BY NoneAssumption DEF Inv, TypeOK
<1>2. TypeOK'
  BY DEF Inv, TypeOK, Hist
<1>3. \A p \in Rows : posts[p] # None => posts[p].views \in Nat
  BY DEF Inv, TypeOK, Post
<1>4. ASSUME NEW p \in Rows PROVE SlugsOf(p)'
  <2>1. CASE p = Row(r)
    BY <1>1, <2>1 DEF SlugsOf, Exists, Taken
  <2>2. CASE p # Row(r)
    <3>1. Exists(p) => posts[p].views <= hist'.reads[p]
      <4>1. hist.reads[p] \in Nat /\ hist'.reads[p] \in Nat
        BY DEF Inv, TypeOK, Hist
      <4>. QED
        BY <1>3, <4>1 DEF Inv, SlugsOf, Exists
    <3>. QED
      BY <1>1, <2>2, <3>1 DEF Inv, SlugsOf, Exists, Taken
  <2>. QED BY <2>1, <2>2
<1>5. ASSUME NEW q \in Requests PROVE Holds(q)'
  <2>1. CASE q = r
    <3>2. Alone(r)'
      BY DEF Inv, TypeOK, Holds, Alone
    <3>. QED
      BY <2>1, <3>2 DEF Holds, Stage, Creating, Changing, Updating, Viewing
  <2>2. CASE q # r
    <3>1. req'[q] = req[q]
      BY <2>2
    <3>2. q \notin hist'.alone
      BY <2>2 DEF Inv, Holds, Alone
    <3>3. Creating(q)'
      BY <1>1, <2>2, <3>1, RowsAssumption DEF Inv, TypeOK, Holds, Creating, SlugFor, Row, Exists
    <3>4. (Stage(q) /\ Changing(q) /\ Updating(q))'
      BY <1>1, <2>2, <3>1
        DEF Inv, Holds, Stage, Changing, Updating, SlugFor, Row, Exists
    <3>5. Viewing(q)'
      <4>1. CASE req[q].op = "view" /\ req[q].pc = "write"
        <5>1. Row(q) \in Rows /\ req[q].views <= hist.reads[Row(q)]
          BY <4>1 DEF Inv, Holds, Changing, Viewing
        <5>2. req[q].views \in Nat /\ hist.reads[Row(q)] \in Nat /\ hist'.reads[Row(q)] \in Nat
          BY <5>1 DEF Inv, TypeOK, Request, Hist
        <5>. QED
          BY <3>1, <5>1, <5>2 DEF Viewing, Row
      <4>. QED BY <3>1, <4>1 DEF Viewing
    <3>. QED
      BY <3>2, <3>3, <3>4, <3>5 DEF Holds, Alone
  <2>. QED BY <2>1, <2>2
<1>. QED BY <1>2, <1>4, <1>5 DEF Inv

-----------------------------------------------------------------------------
LEMMA InitInv == Init => Inv
<1>. SUFFICES ASSUME Init PROVE Inv
  OBVIOUS
<1>1. TypeOK
  BY DEF Init, TypeOK, Idle, Request, PCs
<1>2. ASSUME NEW p \in Rows PROVE SlugsOf(p)
  BY DEF Init, SlugsOf, Exists
<1>3. ASSUME NEW r \in Requests PROVE Holds(r)
  BY DEF Init, Idle, Holds, Stage, Creating, Changing, Updating, Viewing, Alone
<1>. QED BY <1>1, <1>2, <1>3 DEF Inv

\* A request that begins takes part in no other's row, and overlaps every other.
LEMMA Begins ==
  ASSUME Inv, NEW r \in Requests, req[r].pc = "idle", UNCHANGED posts,
         NEW new \in Request, new.row \in Rows, new.slug = None,
         req' = [req EXCEPT ![r] = new], hist' = [hist EXCEPT !.alone = AloneAfter(r)],
         \/ /\ new.op = "create" /\ new.pc = "slug" /\ FreeRow(new.row)
         \/ new.op \in {"update", "delete", "view"} /\ new.pc = "load" /\ Exists(new.row)
  PROVE  Inv'
<1>1. /\ hist' \in Hist /\ hist'.reads = hist.reads /\ hist'.crossed = hist.crossed
      /\ hist'.alone = AloneAfter(r)
  BY DEF Inv, TypeOK, Hist, AloneAfter
<1>2. TypeOK'
  BY <1>1 DEF Inv, TypeOK, Hist
<1>3. ASSUME NEW p \in Rows PROVE SlugsOf(p)'
  BY <1>1 DEF Inv, SlugsOf, Exists
<1>4. \A q \in Requests : req'[q] = IF q = r THEN new ELSE req[q]
  BY DEF Inv, TypeOK
<1>5. FreeRow(new.row) => ~Exists(new.row) /\ \A q \in Requests : Row(q) # new.row
  BY DEF FreeRow
<1>6. ASSUME NEW q \in Requests PROVE Holds(q)'
  <2>1. CASE q = r
    <3>1. (Stage(q) /\ Creating(q) /\ Changing(q) /\ Updating(q) /\ Viewing(q))'
      BY <1>4, <1>5, <2>1 DEF Stage, Creating, Changing, Updating, Viewing, Row, Exists
    <3>2. Alone(q)'
      BY <1>1, <1>4, <2>1 DEF Alone, AloneAfter
    <3>. QED BY <3>1, <3>2 DEF Holds
  <2>2. CASE q # r
    <3>1. q \notin hist'.alone
      BY <1>1, <2>2 DEF AloneAfter
    <3>2. req[q].op = "create" => ~Exists(Row(q)) /\ Row(q) \in Rows
      BY DEF Inv, Holds, Creating
    <3>3. Creating(q)'
      BY <1>4, <1>5, <2>2, <3>2 DEF Inv, Holds, Creating, SlugFor, Row, Exists
    <3>4. (Stage(q) /\ Changing(q) /\ Updating(q) /\ Viewing(q))'
      BY <1>1, <1>4, <2>2 DEF Inv, Holds, Stage, Changing, Updating, Viewing, SlugFor, Row, Exists
    <3>. QED
      BY <3>1, <3>3, <3>4 DEF Holds, Alone
  <2>. QED BY <2>1, <2>2
<1>. QED BY <1>2, <1>3, <1>6 DEF Inv

LEMMA BeginCreateInv == ASSUME Inv, NEW r \in Requests, BeginCreate(r) PROVE Inv'
<1>1. PICK p \in Rows :
        /\ FreeRow(p)
        /\ req' = [req EXCEPT ![r] = [Idle EXCEPT !.op = "create", !.pc = "slug", !.row = p]]
        /\ req[r].pc = "idle" /\ hist' = [hist EXCEPT !.alone = AloneAfter(r)] /\ UNCHANGED posts
  BY DEF BeginCreate
<1>. DEFINE new == [Idle EXCEPT !.op = "create", !.pc = "slug", !.row = p]
<1>2. new \in Request /\ new.row = p /\ new.slug = None /\ new.op = "create" /\ new.pc = "slug"
  BY DEF Idle, Request, Ops, PCs
<1>. HIDE DEF new
<1>3. req' = [req EXCEPT ![r] = new]
  BY <1>1 DEF new
<1>. QED BY <1>1, <1>2, <1>3, Begins

LEMMA BeginInv ==
  ASSUME Inv, NEW r \in Requests, NEW op \in {"update", "delete", "view"}, Begin(r, op)
  PROVE  Inv'
<1>1. PICK p \in Rows :
        /\ Exists(p)
        /\ req' = [req EXCEPT ![r] = [Idle EXCEPT !.op = op, !.pc = "load", !.row = p]]
        /\ req[r].pc = "idle" /\ hist' = [hist EXCEPT !.alone = AloneAfter(r)] /\ UNCHANGED posts
  BY DEF Begin
<1>. DEFINE new == [Idle EXCEPT !.op = op, !.pc = "load", !.row = p]
<1>2. new \in Request /\ new.row = p /\ new.slug = None /\ new.op = op /\ new.pc = "load"
  BY DEF Idle, Request, Ops, PCs
<1>. HIDE DEF new
<1>3. req' = [req EXCEPT ![r] = new]
  BY <1>1 DEF new
<1>. QED BY <1>1, <1>2, <1>3, Begins

-----------------------------------------------------------------------------
\* Past a conflict a request is an answer to come; the title it names must be taken.
LEMMA ConflictInv ==
  ASSUME Inv, NEW r \in Requests, req[r].pc # "idle", Conflict(r), UNCHANGED posts,
         r \in hist.alone => \E p \in Rows :
           Exists(p) /\ posts[p].deleted /\ posts[p].slug = Plain(Slug(req[r].title))
  PROVE  Inv'
<1>. DEFINE new == [Idle EXCEPT !.pc = "conflict", !.title = req[r].title]
<1>1. new \in Request /\ new.op = "none" /\ new.pc = "conflict" /\ new.row = 0
      /\ new.title = req[r].title
  BY DEF Idle, Request, PCs, Inv, TypeOK
<1>2. req' = [req EXCEPT ![r] = new] /\ hist' = hist
  BY DEF Conflict
<1>3. \A q \in Requests : req'[q] = IF q = r THEN new ELSE req[q]
  BY <1>2 DEF Inv, TypeOK
<1>. HIDE DEF new
<1>4. Alone(r)'
  BY <1>1, <1>2, <1>3 DEF Inv, Holds, Alone, Exists
<1>5. (Stage(r) /\ Creating(r) /\ Changing(r) /\ Updating(r) /\ Viewing(r))'
  BY <1>1, <1>3 DEF Stage, Creating, Changing, Updating, Viewing
<1>6. hist \in Hist
  BY DEF Inv, TypeOK, Hist
<1>. QED
  BY <1>1, <1>2, <1>4, <1>5, <1>6, Reads DEF Holds

\* A slug chosen for row p by a request that nobody overlaps is taken by a deleted post only.
LEMMA TakenByDeleted ==
  ASSUME Inv, NEW r \in Requests, r \in hist.alone, req[r].op \in {"create", "update"},
         req[r].pc = "write", req[r].slug # None, SlugFor(r), Row(r) \in Rows,
         Taken(req[r].slug, Row(r))
  PROVE  \E p \in Rows : Exists(p) /\ posts[p].deleted /\ posts[p].slug = Plain(Slug(req[r].title))
<1>. DEFINE slug == req[r].slug
<1>1. PICK q \in Rows \ {Row(r)} : Exists(q) /\ posts[q].slug = slug
  BY DEF Taken
<1>2. slug[2] \in {0, q}
  BY <1>1 DEF Inv, SlugsOf
<1>3. slug[2] = 0
  BY <1>1, <1>2, RowsAssumption DEF SlugFor
<1>4. slug \in SlugValues
  BY DEF Inv, TypeOK, Request
<1>5. slug = Plain(Slug(req[r].title))
  <2>1. PICK a \in Slugs, b \in Rows \cup {0} : slug = <<a, b>>
    BY <1>4 DEF SlugValues
  <2>. QED BY <1>3, <2>1 DEF Plain, SlugFor
<1>6. ~Found(slug)
  BY <1>3 DEF Inv, Holds, Alone
<1>7. posts[q].deleted \in BOOLEAN
  BY <1>1 DEF Inv, TypeOK, Post, Exists
<1>. QED
  BY <1>1, <1>5, <1>6, <1>7 DEF Found, Visible

\* A row that exists is a post.
LEMMA Stored == ASSUME Inv, NEW p \in Rows, Exists(p) PROVE posts[p] \in Post /\ SlugsOf(p)
BY DEF Inv, TypeOK, Exists

LEMMA Chosen ==
  ASSUME Inv, NEW t \in Titles, NEW p \in Rows
  PROVE  LET slug == ChosenSlug(Slug(t), p)
         IN  /\ slug \in SlugValues /\ slug # None
             /\ slug[1] = Slug(t) /\ slug[2] \in {0, p}
             /\ slug[2] = 0 => ~Found(slug)
BY NoneAssumption, RowsAssumption DEF ChosenSlug, SlugValues, Slugs, Plain, Suffixed

\* The steps that keep hist.
LEMMA Goes ==
  ASSUME Inv, NEW r \in Requests, req[r].pc # "idle",
         NEW new \in Request, new.row = Row(r), new.op = req[r].op,
         req' = [req EXCEPT ![r] = new], UNCHANGED <<posts, hist>>,
         new.pc \notin {"idle", "conflict"},
         (Stage(r) /\ Creating(r) /\ Changing(r) /\ Updating(r) /\ Viewing(r))',
         new.op \in {"create", "update"} /\ new.pc = "write" /\ new.slug # None
           /\ new.slug[2] = 0 => ~Found(new.slug)
  PROVE  Inv'
<1>1. \A q \in Requests : req'[q] = IF q = r THEN new ELSE req[q]
  BY DEF Inv, TypeOK
<1>2. Alone(r)'
  BY <1>1 DEF Inv, Holds, Alone, Found, Visible, Exists
<1>3. hist \in Hist
  BY DEF Inv, TypeOK, Hist
<1>. QED
  BY <1>2, <1>3, Reads DEF Holds

LEMMA ChooseSlugForCreateInv ==
  ASSUME Inv, NEW r \in Requests, ChooseSlugForCreate(r) PROVE Inv'
<1>1. PICK t \in Titles, s \in Statuses :
        /\ req[r].op = "create" /\ req[r].pc = "slug"
        /\ req' = [req EXCEPT ![r].pc = "write", ![r].title = t, ![r].status = s,
                              ![r].slug = ChosenSlug(Slug(t), Row(r))]
        /\ UNCHANGED <<posts, hist>>
  BY DEF ChooseSlugForCreate
<1>. DEFINE slug == ChosenSlug(Slug(t), Row(r))
            new == [req[r] EXCEPT !.pc = "write", !.title = t, !.status = s, !.slug = slug]
<1>2. Row(r) \in Rows /\ ~Exists(Row(r)) /\ \A q \in Requests \ {r} : Row(q) # Row(r)
  BY <1>1 DEF Inv, Holds, Creating
<1>3. /\ slug \in SlugValues /\ slug # None
      /\ slug[1] = Slug(t) /\ slug[2] \in {0, Row(r)}
      /\ slug[2] = 0 => ~Found(slug)
  BY <1>2, Chosen
<1>4. req' = [req EXCEPT ![r] = new]
  BY <1>1
<1>. HIDE DEF slug
<1>5. /\ new \in Request /\ new.op = "create" /\ new.pc = "write" /\ new.row = Row(r)
      /\ new.slug = slug /\ new.title = t /\ new.status = s
  BY <1>1, <1>3 DEF Inv, TypeOK, Request, PCs, Row
<1>6. \A q \in Requests : req'[q] = IF q = r THEN new ELSE req[q]
  BY <1>4 DEF Inv, TypeOK
<1>. HIDE DEF new
<1>7. (Stage(r) /\ Creating(r) /\ Changing(r) /\ Updating(r) /\ Viewing(r))'
  BY <1>1, <1>2, <1>3, <1>5, <1>6
    DEF Stage, Creating, Changing, Updating, Viewing, SlugFor, Row, Exists
<1>. QED
  BY <1>1, <1>3, <1>4, <1>5, <1>7, Goes

LEMMA LoadInv == ASSUME Inv, NEW r \in Requests, Load(r) PROVE Inv'
<1>. DEFINE views == IF req[r].op = "view" THEN posts[Row(r)].views ELSE 0
            new == [req[r] EXCEPT !.pc = "write", !.views = views]
<1>1. Row(r) \in Rows /\ Exists(Row(r))
  BY DEF Load, Inv, Holds, Changing
<1>2. views \in Nat /\ (req[r].op = "view" => views <= hist.reads[Row(r)])
  BY <1>1, Stored DEF Post, SlugsOf
<1>3. req' = [req EXCEPT ![r] = new] /\ UNCHANGED <<posts, hist>>
  BY DEF Load
<1>. HIDE DEF views
<1>4. /\ new \in Request /\ new.op = req[r].op /\ new.pc = "write" /\ new.row = Row(r)
      /\ new.views = views
  BY <1>2, ZenonT(60) DEF Load, Inv, TypeOK, Request, PCs, Row
<1>5. req'[r] = new
  BY <1>3 DEF Inv, TypeOK
<1>. HIDE DEF new
<1>6. (Stage(r) /\ Creating(r) /\ Changing(r) /\ Updating(r) /\ Viewing(r))'
  BY <1>1, <1>2, <1>3, <1>4, <1>5
    DEF Load, Stage, Creating, Changing, Updating, Viewing, Row, Exists
<1>. QED
  BY <1>3, <1>4, <1>6, Goes DEF Load

LEMMA LoadForUpdateInv == ASSUME Inv, NEW r \in Requests, LoadForUpdate(r) PROVE Inv'
<1>. DEFINE now == posts[Row(r)]
<1>0. PICK t \in Titles \cup {None}, s \in Statuses \cup {None} :
        /\ req[r].op = "update" /\ req[r].pc = "load" /\ UNCHANGED <<posts, hist>>
        /\ LET title == Changed(t, now.title)
           IN  req' = [req EXCEPT ![r].old = IF title = None THEN None ELSE now.slug,
                 ![r].title = title, ![r].status = Changed(s, now.status),
                 ![r].pc = IF title = None THEN "write" ELSE "slug"]
  BY DEF LoadForUpdate
<1>. DEFINE title == Changed(t, now.title)
            old == IF title = None THEN None ELSE now.slug
            status == Changed(s, now.status)
            pc == IF title = None THEN "write" ELSE "slug"
            new == [req[r] EXCEPT !.old = old, !.title = title, !.status = status, !.pc = pc]
<1>1. Row(r) \in Rows /\ Exists(Row(r)) /\ req[r].slug = None
  BY <1>0 DEF Inv, Holds, Changing, Updating
<1>2. /\ title \in Titles \cup {None} /\ status \in Statuses \cup {None}
      /\ old \in SlugValues \cup {None}
  BY <1>1, Stored DEF Post, Changed
<1>3. req' = [req EXCEPT ![r] = new] /\ UNCHANGED <<posts, hist>>
  BY <1>0
<1>. HIDE DEF old, title, status
<1>4. /\ new \in Request /\ new.op = "update" /\ new.pc = pc /\ new.row = Row(r)
      /\ new.slug = None /\ new.title = title
  BY <1>0, <1>1, <1>2 DEF Inv, TypeOK, Request, PCs, Row
<1>5. req'[r] = new
  BY <1>3 DEF Inv, TypeOK
<1>. HIDE DEF new
<1>6. (Stage(r) /\ Creating(r) /\ Changing(r) /\ Updating(r) /\ Viewing(r))'
  BY <1>1, <1>2, <1>3, <1>4, <1>5, NoneAssumption
    DEF Stage, Creating, Changing, Updating, Viewing, Row, Exists
<1>. QED
  BY <1>0, <1>3, <1>4, <1>6, Goes

LEMMA ChooseSlugForUpdateInv ==
  ASSUME Inv, NEW r \in Requests, ChooseSlugForUpdate(r) PROVE Inv'
<1>. DEFINE title == req[r].title
            kept == Plain(Slug(title)) = req[r].old
            slug == IF kept THEN None ELSE ChosenSlug(Slug(title), Row(r))
            old == IF kept THEN req[r].old ELSE None
            new == [req[r] EXCEPT !.pc = "write", !.old = old, !.slug = slug]
<1>1. Row(r) \in Rows /\ Exists(Row(r)) /\ title \in Titles
  BY DEF ChooseSlugForUpdate, Inv, Holds, Changing, Updating
<1>2. /\ slug \in SlugValues \cup {None} /\ old \in SlugValues \cup {None}
      /\ slug # None => /\ slug[1] = Slug(title) /\ slug[2] \in {0, Row(r)}
                        /\ slug[2] = 0 => ~Found(slug)
  BY <1>1, Chosen DEF Inv, TypeOK, Request
<1>3. slug = None => old = Plain(Slug(title))
  BY <1>1, Chosen
<1>4. req' = [req EXCEPT ![r] = new] /\ UNCHANGED <<posts, hist>>
  BY DEF ChooseSlugForUpdate
<1>. HIDE DEF slug, old
<1>5. /\ new \in Request /\ new.op = "update" /\ new.pc = "write" /\ new.row = Row(r)
      /\ new.slug = slug /\ new.title = title /\ new.old = old
  BY <1>2, ZenonT(60) DEF ChooseSlugForUpdate, Inv, TypeOK, Request, PCs, Row
<1>6. req'[r] = new
  BY <1>4 DEF Inv, TypeOK
<1>. HIDE DEF new
<1>7. (Stage(r) /\ Creating(r) /\ Changing(r) /\ Updating(r) /\ Viewing(r))'
  BY <1>1, <1>2, <1>3, <1>4, <1>5, <1>6, NoneAssumption
    DEF Stage, Creating, Changing, Updating, Viewing, SlugFor, Row, Exists
<1>. QED
  BY <1>2, <1>4, <1>5, <1>7, Goes DEF ChooseSlugForUpdate

-----------------------------------------------------------------------------
LEMMA InsertInv == ASSUME Inv, NEW r \in Requests, Insert(r) PROVE Inv'
<1>1. /\ req[r].op = "create" /\ req[r].pc = "write" /\ Row(r) \in Rows
      /\ req[r].title \in Titles /\ req[r].status \in Statuses
      /\ req[r].slug # None /\ SlugFor(r)
  BY DEF Insert, Inv, Holds, Creating
<1>2. CASE Taken(req[r].slug, Row(r)) /\ Conflict(r) /\ UNCHANGED posts
  BY <1>1, <1>2, TakenByDeleted, ConflictInv
<1>3. CASE /\ ~Taken(req[r].slug, Row(r)) /\ ReadBack(r) /\ UNCHANGED hist
           /\ posts' = [posts EXCEPT ![Row(r)] = NewPost(r)]
  <2>1. req[r].slug \in SlugValues
    BY <1>1 DEF Inv, TypeOK, Request
  <2>2. /\ NewPost(r) \in Post /\ NewPost(r).slug = req[r].slug
        /\ NewPost(r).title = req[r].title /\ NewPost(r).views = 0
    BY <1>1, <2>1 DEF NewPost, Post
  <2>3. 0 <= hist.reads[Row(r)]
    BY <1>1 DEF Inv, TypeOK
  <2>4. /\ req' \in [Requests -> Request] /\ \A q \in Requests \ {r} : req'[q] = req[q]
        /\ req'[r].row = 0 /\ req'[r].op = "none" /\ req'[r].pc = "reload"
    BY <1>3, ReadsBack
  <2>5. /\ req[r].pc # "idle" /\ NewPost(r).slug[2] \in {0, Row(r)}
        /\ NewPost(r).slug[1] = Slug(NewPost(r).title) /\ ~Taken(NewPost(r).slug, Row(r))
    BY <1>1, <1>3, <2>2 DEF SlugFor
  <2>6. /\ hist' \in Hist /\ \A p \in Rows : hist.reads[p] <= hist'.reads[p]
        /\ NewPost(r).views <= hist'.reads[Row(r)] /\ hist'.alone \subseteq hist.alone
        /\ hist.crossed \ {Row(r)} \subseteq hist'.crossed
    BY <1>3, <2>2, <2>3, HistTyped
  <2>. QED
    BY <1>1, <1>3, <2>2, <2>4, <2>5, <2>6, Writes
<1>. QED BY <1>2, <1>3 DEF Insert

\* What an update makes of a post: its own columns, and the rest as stored.
LEMMA EditedPost ==
  ASSUME Inv, NEW r \in Requests, posts[Row(r)] \in Post
  PROVE  LET now == posts[Row(r)]
         IN  /\ Edited(r) \in Post
             /\ Edited(r).slug = Written(req[r].slug, now.slug)
             /\ Edited(r).title = Written(req[r].title, now.title)
             /\ Edited(r).status = Written(req[r].status, now.status)
             /\ Edited(r).views = now.views /\ Edited(r).deleted = now.deleted
<1>. DEFINE now == posts[Row(r)]
            slug == Written(req[r].slug, now.slug)
            title == Written(req[r].title, now.title)
            status == Written(req[r].status, now.status)
<1>1. slug \in SlugValues /\ title \in Titles /\ status \in Statuses
  BY DEF Written, Post, Inv, TypeOK, Request
<1>2. Edited(r) = [now EXCEPT !.slug = slug, !.title = title, !.status = status]
  BY DEF Edited, UnchangedColumns, Post
<1>. HIDE DEF slug, title, status
<1>3. [now EXCEPT !.slug = slug, !.title = title, !.status = status] \in Post
  BY <1>1 DEF Post
<1>. QED
  BY <1>2, <1>3 DEF Post, slug, title, status

LEMMA UpdateInv == ASSUME Inv, NEW r \in Requests, Update(r) PROVE Inv'
<1>. DEFINE now == posts[Row(r)]
            post == Edited(r)
<1>1. /\ req[r].op = "update" /\ req[r].pc = "write" /\ Row(r) \in Rows /\ Exists(Row(r))
      /\ req[r].slug # None => req[r].title # None /\ SlugFor(r)
      /\ req[r].title # None /\ req[r].slug = None => req[r].old = Plain(Slug(req[r].title))
  BY DEF Update, Inv, Holds, Changing, Updating
<1>2. now \in Post /\ SlugsOf(Row(r))
  BY <1>1, Stored
<1>3. /\ post \in Post /\ post.views = now.views
      /\ post.slug = Written(req[r].slug, now.slug) /\ post.title = Written(req[r].title, now.title)
  BY <1>2, EditedPost
<1>4. CASE Taken(post.slug, Row(r)) /\ Conflict(r) /\ UNCHANGED posts
  <2>1. req[r].slug # None /\ post.slug = req[r].slug
    BY <1>1, <1>3, <1>4 DEF Written, Taken, SlugsOf, Inv
  <2>. QED
    BY <1>1, <1>4, <2>1, TakenByDeleted, ConflictInv
<1>5. CASE /\ ~Taken(post.slug, Row(r)) /\ ReadBack(r) /\ posts' = [posts EXCEPT ![Row(r)] = post]
           /\ hist' = [hist EXCEPT !.crossed = CrossedBy(r)]
  <2>0. /\ CrossedBy(r) \in SUBSET Rows
        /\ hist.crossed \ {Row(r)} \subseteq CrossedBy(r)
    BY <1>1, HistTyped DEF CrossedBy, Hist
  <2>1. post.slug[2] \in {0, Row(r)}
    BY <1>1, <1>2, <1>3 DEF Written, SlugsOf, SlugFor
  <2>2. Row(r) \notin CrossedBy(r) => post.slug[1] = Slug(post.title)
    <3>1. CASE req[r].title = None
      BY <1>1, <1>2, <1>3, <3>1 DEF Written, SlugsOf, CrossedBy
    <3>2. CASE req[r].title # None /\ req[r].slug # None
      BY <1>1, <1>3, <3>2 DEF Written, SlugFor
    <3>3. CASE req[r].title # None /\ req[r].slug = None
      <4>1. Row(r) \notin CrossedBy(r) => now.slug = Plain(Slug(req[r].title))
        BY <1>1, <3>3 DEF CrossedBy
      <4>. QED BY <1>3, <3>3, <4>1 DEF Written, Plain
    <3>. QED BY <3>1, <3>2, <3>3
  <2>3. /\ req' \in [Requests -> Request] /\ \A q \in Requests \ {r} : req'[q] = req[q]
        /\ req'[r].row = 0 /\ req'[r].op = "none" /\ req'[r].pc = "reload"
    BY <1>5, ReadsBack
  <2>4. /\ hist' \in Hist /\ hist'.reads = hist.reads /\ hist'.alone = hist.alone
        /\ hist'.crossed = CrossedBy(r)
    BY <1>5, <2>0, HistTyped DEF Hist
  <2>5. /\ \A p \in Rows : hist.reads[p] <= hist'.reads[p]
        /\ post.views <= hist'.reads[Row(r)] /\ req[r].pc # "idle"
    BY <1>1, <1>2, <1>3, <2>4, HistTyped DEF SlugsOf
  <2>. HIDE DEF post
  <2>. QED
    BY <1>1, <1>3, <1>5, <2>0, <2>1, <2>2, <2>3, <2>4, <2>5, Writes
<1>. QED BY <1>4, <1>5 DEF Update

LEMMA DeleteInv == ASSUME Inv, NEW r \in Requests, Delete(r) PROVE Inv'
<1>. DEFINE post == [posts[Row(r)] EXCEPT !.deleted = TRUE]
<1>1. Row(r) \in Rows /\ Exists(Row(r)) /\ req[r].pc # "idle"
  BY DEF Delete, Inv, Holds, Changing
<1>2. posts[Row(r)] \in Post /\ SlugsOf(Row(r))
  BY <1>1, Stored
<1>3. /\ post \in Post /\ post.slug = posts[Row(r)].slug /\ post.title = posts[Row(r)].title
      /\ post.views = posts[Row(r)].views
  BY <1>2 DEF Post
<1>4. posts' = [posts EXCEPT ![Row(r)] = post] /\ req' = [req EXCEPT ![r] = Idle]
  BY DEF Delete, Answer
<1>. HIDE DEF post
<1>5. ~Taken(post.slug, Row(r))
  BY <1>1, <1>2, <1>3 DEF Taken, SlugsOf
<1>6. /\ hist' \in Hist /\ hist'.reads = hist.reads /\ hist'.crossed = hist.crossed
      /\ hist'.alone \subseteq hist.alone /\ r \notin hist'.alone
  BY HistTyped DEF Delete, Answer, Hist
<1>7. \A p \in Rows : hist.reads[p] <= hist'.reads[p]
  BY <1>6, HistTyped
<1>8. /\ req' \in [Requests -> Request] /\ \A q \in Requests \ {r} : req'[q] = req[q]
      /\ req'[r].row = 0 /\ req'[r].op = "none" /\ req'[r].pc = "idle"
  BY <1>4, Ends
<1>9. /\ post.slug[2] \in {0, Row(r)} /\ post.views <= hist'.reads[Row(r)]
      /\ Row(r) \notin hist'.crossed => post.slug[1] = Slug(post.title)
      /\ hist.crossed \ {Row(r)} \subseteq hist'.crossed
  BY <1>1, <1>2, <1>3, <1>6 DEF SlugsOf
<1>. QED
  BY <1>1, <1>3, <1>4, <1>5, <1>6, <1>7, <1>8, <1>9, Writes

LEMMA ViewInv == ASSUME Inv, NEW r \in Requests, View(r) PROVE Inv'
<1>. DEFINE post == [posts[Row(r)] EXCEPT !.views = AddOne(req[r].views)]
<1>1. Row(r) \in Rows /\ Exists(Row(r)) /\ req[r].pc # "idle" /\ req[r].views <= hist.reads[Row(r)]
  BY DEF View, Inv, Holds, Changing, Viewing
<1>2. posts[Row(r)] \in Post /\ SlugsOf(Row(r))
  BY <1>1, Stored
<1>3. req[r].views \in Nat
  BY DEF Inv, TypeOK, Request
<1>4. /\ post \in Post /\ post.slug = posts[Row(r)].slug /\ post.title = posts[Row(r)].title
      /\ post.views = req[r].views + 1
  BY <1>2, <1>3 DEF Post, AddOne
<1>5. posts' = [posts EXCEPT ![Row(r)] = post] /\ req' = [req EXCEPT ![r] = Idle]
  BY DEF View
<1>. HIDE DEF post
<1>6. ~Taken(post.slug, Row(r))
  BY <1>1, <1>2, <1>4 DEF Taken, SlugsOf
<1>7. /\ hist' \in Hist /\ hist'.reads = [hist.reads EXCEPT ![Row(r)] = @ + 1]
      /\ hist'.alone \subseteq hist.alone /\ r \notin hist'.alone /\ hist'.crossed = hist.crossed
  <2>1. hist' = [reads |-> [hist.reads EXCEPT ![Row(r)] = @ + 1], alone |-> hist.alone \ {r},
                 crossed |-> hist.crossed]
    BY HistTyped DEF View, Hist
  <2>2. /\ [hist.reads EXCEPT ![Row(r)] = @ + 1] \in [Rows -> Nat]
        /\ hist.alone \ {r} \in SUBSET Requests /\ hist.crossed \in SUBSET Rows
    BY <1>1, HistTyped DEF Hist
  <2>. QED BY <2>1, <2>2 DEF Hist
<1>8. \A p \in Rows : hist.reads[p] <= hist'.reads[p]
  BY <1>7, HistTyped DEF Hist
<1>9. post.views <= hist'.reads[Row(r)]
  BY <1>1, <1>3, <1>4, <1>7, HistTyped DEF Hist
<1>10. /\ req' \in [Requests -> Request] /\ \A q \in Requests \ {r} : req'[q] = req[q]
       /\ req'[r].row = 0 /\ req'[r].op = "none" /\ req'[r].pc = "idle"
  BY <1>5, Ends
<1>11. /\ post.slug[2] \in {0, Row(r)}
       /\ Row(r) \notin hist'.crossed => post.slug[1] = Slug(post.title)
       /\ hist.crossed \ {Row(r)} \subseteq hist'.crossed
  BY <1>1, <1>2, <1>4, <1>7 DEF SlugsOf
<1>. QED
  BY <1>1, <1>4, <1>5, <1>6, <1>7, <1>8, <1>9, <1>10, <1>11, Writes

LEMMA NextInv == Inv /\ [Next]_vars => Inv'
<1>. SUFFICES ASSUME Inv, [Next]_vars PROVE Inv'
  OBVIOUS
<1>1. ASSUME NEW r \in Requests, \E op \in Ops \ {"create"} : Begin(r, op) PROVE Inv'
  BY <1>1, BeginInv DEF Ops
<1>2. ASSUME NEW r \in Requests,
             Refuse(r) \/ CategoryMissing(r) \/ Reload(r) \/ Abort(r) \/ AnswerConflict(r)
      PROVE  Inv'
  BY <1>2, Answers DEF Refuse, CategoryMissing, Reload, Abort, AnswerConflict
<1>3. CASE UNCHANGED vars
  BY <1>3 DEF vars, Inv, TypeOK, SlugsOf, Holds, Stage, Creating, Changing, Updating, Viewing, Alone,
    SlugFor, Row, Exists, Found, Visible
<1>. QED
  BY <1>1, <1>2, <1>3, BeginCreateInv, ChooseSlugForCreateInv, InsertInv, LoadInv, LoadForUpdateInv,
     ChooseSlugForUpdateInv, UpdateInv, DeleteInv, ViewInv DEF Next, Serve

-----------------------------------------------------------------------------
\* The inductive invariant of Posts holds in every reachable state.
THEOREM Invariance == Spec => []Inv
BY InitInv, NextInv, PTL DEF Spec

\* Every reachable state is well typed: what PostService stores is always a post.
THEOREM TypeCorrect == Spec => []TypeOK
BY Invariance, PTL DEF Inv

\* increment_view_count never counts a view that was not answered.
THEOREM ViewsAreAnswered == Spec => []ViewsNeverAhead
<1>1. Inv => ViewsNeverAhead
  BY DEF Inv, SlugsOf, ViewsNeverAhead
<1>. QED BY <1>1, Invariance, PTL

\* Whatever titles share a slug, title and slug part only where an update that writes no slug
\* (post_service.py:132) meets a row that another has renamed since it was loaded.
THEOREM SlugsFollow == Spec => []SlugFollowsTitle
<1>1. Inv => SlugFollowsTitle
  BY DEF Inv, SlugsOf, SlugFollowsTitle
<1>. QED BY <1>1, Invariance, PTL

\* A 409 of a request that ran by itself is due to a soft-deleted post.
THEOREM ConflictsAreWithDeleted == Spec => []ConflictOnlyWithDeleted
<1>1. Inv => ConflictOnlyWithDeleted
  BY DEF Inv, TypeOK, Holds, Alone, ConflictOnlyWithDeleted
<1>. QED BY <1>1, Invariance, PTL

\* No UPDATE brings a deleted post back or changes a status nobody asked to change.
THEOREM EditsAreOfTheirColumns == Spec => EditsWriteTheirColumns
<1>. DEFINE Edit(p) == Exists(p) =>
              /\ posts[p].deleted => posts'[p].deleted
              /\ posts'[p].status # posts[p].status =>
                   \E r \in Requests : Row(r) = p /\ req[r].status = posts'[p].status
            Edits == \A p \in Rows : Edit(p)
<1>1. ASSUME Inv, [Next]_vars, NEW p \in Rows, Exists(p) PROVE Edit(p)
  <2>. USE <1>1
  <2>0. posts[p] \in Post
    BY Stored
  <2>1. ASSUME NEW r \in Requests, Insert(r) PROVE Edit(p)
    BY <2>1 DEF Insert, Inv, Holds, Creating, Exists, TypeOK
  <2>2. ASSUME NEW r \in Requests, Update(r) PROVE Edit(p)
    <3>1. UNCHANGED posts \/ posts' = [posts EXCEPT ![Row(r)] = Edited(r)]
      BY <2>2 DEF Update
    <3>3. p # Row(r) => posts'[p] = posts[p]
      BY <3>1 DEF Inv, TypeOK
    <3>4. p = Row(r) => posts'[p] = posts[p] \/ posts'[p] = Edited(r)
      BY <3>1 DEF Inv, TypeOK
    <3>2. Row(r) = p => /\ Edited(r).deleted = posts[p].deleted
                        /\ Edited(r).status = Written(req[r].status, posts[p].status)
      BY <2>0, EditedPost
    <3>. QED
      BY <3>2, <3>3, <3>4 DEF Written
  <2>3. ASSUME NEW r \in Requests, Delete(r) \/ View(r) PROVE Edit(p)
    BY <2>0, <2>3 DEF Delete, View, Inv, TypeOK, Post
  <2>4. UNCHANGED posts \/ \E r \in Requests : Insert(r) \/ Update(r) \/ Delete(r) \/ View(r)
    <3>1. ASSUME NEW r \in Requests,
                 \/ BeginCreate(r) \/ (\E op \in Ops : Begin(r, op)) \/ Refuse(r) \/ Abort(r)
                 \/ Load(r) \/ LoadForUpdate(r) \/ CategoryMissing(r) \/ Reload(r)
          PROVE  UNCHANGED posts
      BY <3>1 DEF BeginCreate, Begin, Refuse, Abort, Load, LoadForUpdate, CategoryMissing, Reload
    <3>2. ASSUME NEW r \in Requests,
                 ChooseSlugForCreate(r) \/ ChooseSlugForUpdate(r) \/ AnswerConflict(r)
          PROVE  UNCHANGED posts
      BY <3>2 DEF ChooseSlugForCreate, ChooseSlugForUpdate, AnswerConflict
    <3>. QED
      BY <3>1, <3>2 DEF Next, Serve, vars
  <2>. QED BY <2>1, <2>2, <2>3, <2>4
<1>2. ASSUME Inv, [Next]_vars PROVE [Edits]_vars
  BY <1>1, <1>2
<1>. QED
  BY <1>2, Invariance, PTL DEF Spec, EditsWriteTheirColumns
=============================================================================
