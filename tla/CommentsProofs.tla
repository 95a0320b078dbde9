---------------------------- MODULE CommentsProofs ----------------------------
(***************************************************************************)
(* Proofs about Comments, for any comments, posts and requests.            *)
(*                                                                         *)
(* A step only adds comments and deletions (Grown): what a request has     *)
(* seen of the post, of the parent or of a comment stays true of them, and *)
(* what was deleted when it began still is (Gone).                         *)
(***************************************************************************)
EXTENDS Comments, TLAPS

Grown ==
  /\ comments' \in [Rows -> Comment \cup {None}]
  /\ deleted \subseteq deleted' /\ deleted' \subseteq Posts
  /\ \A c \in Rows : comments[c] # None =>
       /\ comments'[c] # None
       /\ comments'[c].post = comments[c].post /\ comments'[c].parent = comments[c].parent
       /\ comments[c].deleted => comments'[c].deleted

Gone(r) == \A x \in hist[r].gone :
  x \in deleted \/ (x \in Rows /\ comments[x] # None /\ comments[x].deleted)
Listed(r) ==
  /\ req[r].pc # "ok" => hist[r].listed = {}
  /\ \A c \in hist[r].listed :
       /\ comments[c] # None
       /\ (IF comments[c].parent = Top THEN c ELSE comments[c].parent) \notin hist[r].gone
\* The parent was found, on the post, and a post or parent that was gone was refused.
Creating(r) == req[r].op = "create" =>
  /\ req[r].post \in Posts /\ req[r].parent \in Rows \cup {Top}
  /\ req[r].pc = "insert" /\ req[r].parent # Top =>
       comments[req[r].parent] # None /\ comments[req[r].parent].post = req[r].post
  /\ req[r].pc \in {"parent", "insert", "reload", "ok"} => req[r].post \notin hist[r].gone
  /\ req[r].pc \in {"insert", "reload", "ok"} => req[r].parent \notin hist[r].gone
  /\ req[r].pc \in {"reload", "ok"} => req[r].row \in Rows /\ req[r].row \notin hist[r].gone
Editing(r) == req[r].op \in {"update", "delete"} =>
  /\ req[r].post = None /\ req[r].parent = None
  /\ req[r].row \in Rows /\ comments[req[r].row] # None
  /\ req[r].pc \in {"write", "reload", "ok"} => req[r].row \notin hist[r].gone
Refused(r) == req[r].op \in {None, "list"} => req[r].pc # "reload" /\ (req[r].op = None => req[r].pc # "ok")

Holds(r) == Gone(r) /\ Listed(r) /\ Creating(r) /\ Editing(r) /\ Refused(r)
Hung(c) == comments[c] # None /\ comments[c].parent # Top =>
  comments[comments[c].parent] # None /\ comments[comments[c].parent].post = comments[c].post

Inv == TypeOK /\ (\A c \in Rows : Hung(c)) /\ (\A r \in Requests : Holds(r))

LEMMA Stored == TypeOK => \A c \in Rows : comments[c] # None =>
  /\ comments[c] \in Comment /\ comments[c].parent \in Rows \cup {Top}
BY DEF TypeOK, Comment

\* What a request has seen stays true while others add and delete.
LEMMA Stays ==
  ASSUME Inv, Grown, NEW q \in Requests, req'[q] = req[q], hist'[q] = hist[q]
  PROVE  Holds(q)'
<1>1. hist[q].listed \subseteq Rows /\ req[q] \in Request
  BY DEF Inv, TypeOK, History
<1>2. Gone(q)'
  BY DEF Inv, Holds, Gone, Grown
<1>3. Listed(q)'
  BY <1>1 DEF Inv, Holds, Listed, Grown
<1>4. Creating(q)'
  BY DEF Inv, Holds, Creating, Grown
<1>5. Editing(q)' /\ Refused(q)'
  BY DEF Inv, Holds, Editing, Refused, Grown
<1>. QED BY <1>2, <1>3, <1>4, <1>5 DEF Holds

LEMMA HangsOn == ASSUME Inv, Grown, NEW c \in Rows, comments[c] # None PROVE Hung(c)'
BY Stored DEF Inv, Grown, Hung

\* One request moves, nobody writes a comment.
LEMMA Moves ==
  ASSUME Inv, NEW r \in Requests, UNCHANGED <<comments, deleted>>,
         req' \in [Requests -> Request], \A q \in Requests \ {r} : req'[q] = req[q],
         hist' \in [Requests -> History], \A q \in Requests \ {r} : hist'[q] = hist[q],
         Holds(r)'
  PROVE  Inv'
<1>1. Grown
  BY DEF Grown, Inv, TypeOK
<1>2. TypeOK'
  BY DEF Inv, TypeOK
<1>3. \A c \in Rows : Hung(c)'
  BY DEF Inv, Hung
<1>4. \A q \in Requests : Holds(q)'
  BY <1>1, Stays
<1>. QED BY <1>2, <1>3, <1>4 DEF Inv

\* Refuse, and Goto without a change of history.
LEMMA RefuseInv ==
  ASSUME Inv, NEW r \in Requests, NEW pc \in PCs \ {"ok", "reload"}, Refuse(r, pc), req[r].pc # "ok",
         UNCHANGED <<comments, deleted, hist>>
  PROVE  Inv'
<1>. DEFINE new == [Idle EXCEPT !.pc = pc]
<1>1. new \in Request /\ new.op = None /\ new.pc = pc
  BY DEF Idle, Request
<1>2. req' = [req EXCEPT ![r] = new]
  BY DEF Refuse
<1>. HIDE DEF new
<1>3. req'[r] = new /\ req' \in [Requests -> Request] /\ \A q \in Requests \ {r} : req'[q] = req[q]
  BY <1>1, <1>2 DEF Inv, TypeOK
<1>4. Holds(r)'
  BY <1>1, <1>3, NoneAssumption
    DEF Inv, Holds, Gone, Listed, Creating, Editing, Refused, Ops
<1>. QED
  BY <1>3, <1>4, Moves DEF Inv, TypeOK

\* What Goto leaves.
LEMMA Goes ==
  ASSUME Inv, NEW r \in Requests, NEW pc \in PCs, Goto(r, pc)
  PROVE  /\ req' \in [Requests -> Request] /\ \A q \in Requests \ {r} : req'[q] = req[q]
         /\ req'[r].op = req[r].op /\ req'[r].pc = pc /\ req'[r].row = req[r].row
         /\ req'[r].post = req[r].post /\ req'[r].parent = req[r].parent
<1>. DEFINE new == [req[r] EXCEPT !.pc = pc]
<1>1. /\ new \in Request /\ new.op = req[r].op /\ new.pc = pc /\ new.row = req[r].row
      /\ new.post = req[r].post /\ new.parent = req[r].parent
  BY DEF Inv, TypeOK, Request
<1>2. req' = [req EXCEPT ![r] = new]
  BY DEF Goto
<1>. HIDE DEF new
<1>. QED
  BY <1>1, <1>2 DEF Inv, TypeOK

LEMMA InitInv == Init => Inv
<1>. SUFFICES ASSUME Init PROVE Inv
  OBVIOUS
<1>1. TypeOK
  BY DEF Init, TypeOK, Idle, NoHistory, Request, History, PCs
<1>2. ASSUME NEW r \in Requests PROVE Holds(r)
  BY NoneAssumption
    DEF Init, Idle, NoHistory, Holds, Gone, Listed, Creating, Editing, Refused, Ops
<1>3. ASSUME NEW c \in Rows PROVE Hung(c)
  BY DEF Init, Hung
<1>. QED BY <1>1, <1>2, <1>3 DEF Inv

-----------------------------------------------------------------------------
LEMMA Begins ==
  ASSUME Inv, NEW r \in Requests, NEW op \in Ops, NEW pc \in {"post", "load"},
         NEW c \in Rows \cup {None}, NEW p \in Posts \cup {None},
         NEW parent \in Rows \cup {Top, None}, Begin(r, op, pc, c, p, parent),
         op = "create" => p \in Posts /\ parent \in Rows \cup {Top} /\ pc = "post",
         op \in {"update", "delete"} => p = None /\ parent = None /\ c \in Rows /\ Exists(c) /\ pc = "load"
  PROVE  Inv'
<1>. DEFINE new == [op |-> op, pc |-> pc, row |-> c, post |-> p, parent |-> parent, deep |-> FALSE]
            gone == (DeletedRows \cup deleted) \cap
              (IF op = "list" THEN {d \in Rows : Exists(d) /\ comments[d].post = p} ELSE {c, p, parent})
            seen == [hist[r] EXCEPT !.gone = gone]
<1>1. new \in Request
  BY DEF Request, PCs
<1>2. /\ gone \subseteq Rows \cup Posts
      /\ \A x \in gone : x \in deleted \/ (x \in Rows /\ comments[x] # None /\ comments[x].deleted)
  BY DEF DeletedRows, Exists, Inv, TypeOK
<1>. HIDE DEF gone
<1>3. seen \in History /\ seen.gone = gone /\ seen.listed = hist[r].listed
  BY <1>2 DEF Inv, TypeOK, History
<1>4. req' = [req EXCEPT ![r] = new] /\ hist' = [hist EXCEPT ![r] = seen] /\ UNCHANGED <<comments, deleted>>
  BY DEF Begin, gone
<1>5. /\ req'[r] = new /\ req' \in [Requests -> Request] /\ \A q \in Requests \ {r} : req'[q] = req[q]
      /\ hist'[r] = seen /\ hist' \in [Requests -> History]
      /\ \A q \in Requests \ {r} : hist'[q] = hist[q]
  BY <1>1, <1>3, <1>4 DEF Inv, TypeOK
<1>6. hist[r].listed = {}
  BY DEF Begin, Inv, Holds, Listed
<1>. HIDE DEF seen
<1>7. (Gone(r) /\ Listed(r))'
  BY <1>2, <1>3, <1>4, <1>5, <1>6 DEF Gone, Listed
<1>8. (Creating(r) /\ Editing(r) /\ Refused(r))'
  BY <1>4, <1>5 DEF Creating, Editing, Refused, Exists
<1>. QED
  BY <1>4, <1>5, <1>7, <1>8, Moves DEF Holds

LEMMA BeginInv ==
  ASSUME Inv, NEW r \in Requests, BeginCreate(r) \/ BeginEdit(r) \/ BeginList(r) PROVE Inv'
<1>1. CASE BeginCreate(r)
  <2>1. PICK p \in Posts, parent \in Rows \cup {Top} : Begin(r, "create", "post", None, p, parent)
    BY <1>1 DEF BeginCreate
  <2>. QED BY <2>1, Begins DEF Ops
<1>2. CASE BeginEdit(r)
  <2>1. PICK c \in Rows, op \in {"update", "delete"} : Exists(c) /\ Begin(r, op, "load", c, None, None)
    BY <1>2 DEF BeginEdit
  <2>2. op \in Ops /\ op # "create"
    BY DEF Ops
  <2>. QED BY <2>1, <2>2, Begins
<1>3. CASE BeginList(r)
  <2>1. PICK p \in Posts : Begin(r, "list", "load", None, p, None)
    BY <1>3 DEF BeginList
  <2>. QED BY <2>1, Begins DEF Ops
<1>. QED BY <1>1, <1>2, <1>3

-----------------------------------------------------------------------------
\* A request that goes on, with its history and the comments as they are.
LEMMA GoesOn ==
  ASSUME Inv, NEW r \in Requests, NEW pc \in PCs, Goto(r, pc), req[r].pc # "ok",
         UNCHANGED <<comments, deleted, hist>>, req[r].op \in {"create", "update", "delete"},
         (Creating(r) /\ Editing(r))'
  PROVE  Inv'
<1>1. /\ req' \in [Requests -> Request] /\ \A q \in Requests \ {r} : req'[q] = req[q]
      /\ req'[r].op = req[r].op
  BY Goes
<1>2. Holds(r)'
  BY <1>1, NoneAssumption DEF Inv, Holds, Gone, Listed, Refused, Ops
<1>. QED
  BY <1>1, <1>2, Moves DEF Inv, TypeOK

LEMMA LoadPostInv == ASSUME Inv, NEW r \in Requests, LoadPost(r) PROVE Inv'
<1>0. req[r].op = "create" /\ req[r].pc = "post" /\ UNCHANGED <<comments, deleted, hist>>
  BY DEF LoadPost, At
<1>1. CASE Refuse(r, "missing")
  BY <1>0, <1>1, RefuseInv DEF PCs
<1>2. CASE /\ req[r].post \notin deleted
           /\ Goto(r, IF req[r].parent = Top THEN "insert" ELSE "parent")
  <2>. DEFINE pc == IF req[r].parent = Top THEN "insert" ELSE "parent"
  <2>1. pc \in PCs
    BY DEF PCs
  <2>2. /\ req'[r].op = req[r].op /\ req'[r].pc = pc /\ req'[r].row = req[r].row
        /\ req'[r].post = req[r].post /\ req'[r].parent = req[r].parent
    BY <1>2, <2>1, Goes
  <2>3. Top \notin hist[r].gone /\ req[r].post \notin hist[r].gone
    <3>1. \A x \in hist[r].gone : x \in deleted \/ x \in Rows
      BY DEF Inv, Holds, Gone
    <3>2. deleted \subseteq Posts /\ req[r].post \in Posts
      BY <1>0 DEF Inv, TypeOK, Holds, Creating
    <3>. QED BY <1>2, <3>1, <3>2, TopAssumption
  <2>4. Creating(r)' /\ Editing(r)'
    BY <1>0, <1>2, <2>2, <2>3, TopAssumption DEF Inv, Holds, Creating, Editing
  <2>. QED
    BY <1>0, <1>2, <2>1, <2>4, GoesOn
<1>. QED BY <1>1, <1>2 DEF LoadPost

LEMMA LoadParentInv == ASSUME Inv, NEW r \in Requests, LoadParent(r) PROVE Inv'
<1>0. req[r].op = "create" /\ req[r].pc = "parent" /\ UNCHANGED <<comments, deleted, hist>>
  BY DEF LoadParent, At
<1>1. CASE Refuse(r, "denied")
  BY <1>0, <1>1, RefuseInv DEF PCs
<1>2. CASE IsParentOn(req[r].parent, req[r].post) /\ Goto(r, "insert")
  <2>1. "insert" \in PCs
    BY DEF PCs
  <2>2. /\ req'[r].op = req[r].op /\ req'[r].pc = "insert" /\ req'[r].row = req[r].row
        /\ req'[r].post = req[r].post /\ req'[r].parent = req[r].parent
    BY <1>2, <2>1, Goes
  <2>3. req[r].parent \notin hist[r].gone
    BY <1>0, <1>2, TopAssumption DEF Inv, TypeOK, Holds, Gone, Creating, IsParentOn, Visible, Exists
  <2>4. Creating(r)' /\ Editing(r)'
    BY <1>0, <1>2, <2>2, <2>3 DEF Inv, Holds, Creating, Editing, IsParentOn, Visible, Exists
  <2>. QED
    BY <1>0, <1>2, <2>1, <2>4, GoesOn
<1>. QED BY <1>1, <1>2 DEF LoadParent

LEMMA LoadCommentInv == ASSUME Inv, NEW r \in Requests, LoadComment(r) PROVE Inv'
<1>0. req[r].op \in {"update", "delete"} /\ req[r].pc = "load" /\ UNCHANGED <<comments, deleted, hist>>
  BY DEF LoadComment
<1>1. CASE Refuse(r, "missing") \/ Refuse(r, "denied")
  BY <1>0, <1>1, RefuseInv DEF PCs
<1>2. CASE /\ Visible(req[r].row)
           /\ req' = [req EXCEPT ![r].pc = "write", ![r].deep = Deep({Row(r)})]
  <2>. DEFINE new == [req[r] EXCEPT !.pc = "write", !.deep = Deep({Row(r)})]
  <2>1. Deep({Row(r)}) \in BOOLEAN
    BY DEF Deep
  <2>2. req' = [req EXCEPT ![r] = new]
    BY <1>2
  <2>3. /\ new \in Request /\ new.op = req[r].op /\ new.pc = "write" /\ new.row = req[r].row
        /\ new.post = req[r].post /\ new.parent = req[r].parent
    BY <2>1 DEF Inv, TypeOK, Request, PCs
  <2>. HIDE DEF new
  <2>4. req'[r] = new /\ req' \in [Requests -> Request] /\ \A q \in Requests \ {r} : req'[q] = req[q]
    BY <2>2, <2>3 DEF Inv, TypeOK
  <2>5. req[r].row \notin hist[r].gone
    BY <1>0, <1>2, TopAssumption DEF Inv, TypeOK, Holds, Gone, Editing, Visible, Exists
  <2>6. Holds(r)'
    BY <1>0, <2>3, <2>4, <2>5, NoneAssumption
      DEF Inv, Holds, Gone, Listed, Creating, Editing, Refused, Ops
  <2>. QED
    BY <1>0, <2>4, <2>6, Moves DEF Inv, TypeOK
<1>. QED BY <1>1, <1>2 DEF LoadComment, Row

LEMMA ReloadInv == ASSUME Inv, NEW r \in Requests, Reload(r) PROVE Inv'
<1>0. req[r].pc = "reload" /\ UNCHANGED <<comments, deleted, hist>>
  BY DEF Reload
<1>1. CASE Refuse(r, "missing") \/ Refuse(r, "failed")
  BY <1>0, <1>1, RefuseInv DEF PCs
<1>2. CASE Goto(r, "ok")
  <2>1. "ok" \in PCs /\ req[r].op \in {"create", "update", "delete"}
    BY <1>0 DEF PCs, Ops, Inv, TypeOK, Request, Holds, Refused
  <2>2. /\ req'[r].op = req[r].op /\ req'[r].pc = "ok" /\ req'[r].row = req[r].row
        /\ req'[r].post = req[r].post /\ req'[r].parent = req[r].parent
    BY <1>2, <2>1, Goes
  <2>3. Creating(r)' /\ Editing(r)'
    BY <1>0, <2>2 DEF Inv, Holds, Creating, Editing
  <2>. QED
    BY <1>0, <1>2, <2>1, <2>3, GoesOn
<1>. QED BY <1>1, <1>2 DEF Reload

LEMMA LoadThreadsInv == ASSUME Inv, NEW r \in Requests, LoadThreads(r) PROVE Inv'
<1>. DEFINE p == req[r].post
            seen == [hist[r] EXCEPT !.listed = Thread(p)]
<1>0. req[r].op = "list" /\ req[r].pc = "load" /\ UNCHANGED <<comments, deleted>>
  BY DEF LoadThreads, At
<1>1. CASE Refuse(r, "failed") /\ UNCHANGED hist
  BY <1>0, <1>1, RefuseInv DEF PCs
<1>2. CASE Goto(r, "ok") /\ hist' = [hist EXCEPT ![r].listed = Thread(p)]
  <2>1. "ok" \in PCs
    BY DEF PCs
  <2>2. /\ req' \in [Requests -> Request] /\ \A q \in Requests \ {r} : req'[q] = req[q]
        /\ req'[r].op = req[r].op /\ req'[r].pc = "ok"
    BY <1>2, <2>1, Goes
  <2>3. Thread(p) \subseteq Rows
    BY DEF Thread, TopLevel, Below
  <2>4. \A x \in hist[r].gone : x \in Rows => comments[x] # None /\ comments[x].deleted
    BY TopAssumption DEF Inv, TypeOK, Holds, Gone
  <2>5. \A c \in Thread(p) :
          /\ comments[c] # None
          /\ (IF comments[c].parent = Top THEN c ELSE comments[c].parent) \notin hist[r].gone
    <3>1. ASSUME NEW c \in TopLevel(p)
          PROVE  c \in Rows /\ comments[c] # None /\ comments[c].parent = Top /\ c \notin hist[r].gone
      BY <2>4 DEF TopLevel, Visible, Exists
    <3>2. ASSUME NEW c \in Below(TopLevel(p))
          PROVE  comments[c] # None /\ comments[c].parent \in TopLevel(p)
      BY DEF Below, Exists
    <3>3. \A c \in TopLevel(p) : c # Top
      BY <3>1, TopAssumption
    <3>. QED
      BY <3>1, <3>2, <3>3 DEF Thread
  <2>. HIDE DEF p
  <2>6. seen \in History /\ seen.gone = hist[r].gone /\ seen.listed = Thread(p)
    BY <2>3 DEF Inv, TypeOK, History
  <2>7. hist' = [hist EXCEPT ![r] = seen]
    BY <1>2
  <2>. HIDE DEF seen
  <2>8. /\ hist'[r] = seen /\ hist' \in [Requests -> History]
        /\ \A q \in Requests \ {r} : hist'[q] = hist[q]
    BY <2>6, <2>7 DEF Inv, TypeOK
  <2>9. Gone(r)' /\ Listed(r)'
    BY <1>0, <2>2, <2>5, <2>6, <2>8 DEF Inv, Holds, Gone, Listed
  <2>10. (Creating(r) /\ Editing(r) /\ Refused(r))'
    BY <1>0, <2>2, NoneAssumption DEF Creating, Editing, Refused, Ops
  <2>. QED
    BY <1>0, <2>2, <2>8, <2>9, <2>10, Moves DEF Holds
<1>. QED BY <1>1, <1>2 DEF LoadThreads

LEMMA FinishInv == ASSUME Inv, NEW r \in Requests, Finish(r) PROVE Inv'
<1>1. /\ req'[r] = Idle /\ req' \in [Requests -> Request] /\ \A q \in Requests \ {r} : req'[q] = req[q]
      /\ hist'[r] = NoHistory /\ hist' \in [Requests -> History]
      /\ \A q \in Requests \ {r} : hist'[q] = hist[q]
  BY DEF Finish, Idle, NoHistory, Request, History, PCs, Inv, TypeOK
<1>2. Holds(r)'
  BY <1>1, NoneAssumption
    DEF Idle, NoHistory, Holds, Gone, Listed, Creating, Editing, Refused, Ops
<1>. QED
  BY <1>1, <1>2, Moves DEF Finish

-----------------------------------------------------------------------------
(* The steps that write.                                                   *)

LEMMA InsertGrows == ASSUME Inv, NEW r \in Requests, InsertComment(r) PROVE Grown
<1>1. PICK c \in Rows : NextRow(c) /\ comments' = [comments EXCEPT ![c] = NewComment(r)]
  BY DEF InsertComment
<1>2. req[r].post \in Posts /\ req[r].parent \in Rows \cup {Top}
  BY DEF InsertComment, At, Inv, Holds, Creating
<1>3. NewComment(r) \in Comment
  BY <1>2 DEF NewComment, Comment
<1>4. comments[c] = None
  BY <1>1 DEF NextRow, Exists
<1>. QED
  BY <1>1, <1>3, <1>4 DEF Grown, Inv, TypeOK, InsertComment

LEMMA EditGrows == ASSUME Inv, NEW r \in Requests, Update(r) \/ Delete(r) PROVE Grown
<1>. DEFINE c == req[r].row
<1>1. c \in Rows /\ comments[c] # None
  BY DEF Update, Delete, At, Inv, Holds, Editing
<1>2. comments[c] \in Comment
  BY <1>1 DEF Inv, TypeOK
<1>3. CASE Update(r)
  <2>1. comments' = comments
    BY <1>1, <1>3 DEF Update, UnchangedColumns, Inv, TypeOK, Row
  <2>. QED BY <1>3, <2>1 DEF Grown, Inv, TypeOK, Update
<1>4. CASE Delete(r)
  <2>. DEFINE new == [comments[c] EXCEPT !.deleted = TRUE]
  <2>1. comments' = [comments EXCEPT ![c] = new]
    BY <1>4 DEF Delete, Row
  <2>2. /\ new \in Comment /\ new.post = comments[c].post /\ new.parent = comments[c].parent
        /\ new.deleted = TRUE
    BY <1>2 DEF Comment
  <2>. HIDE DEF new
  <2>. QED BY <1>4, <2>1, <2>2, NoneAssumption DEF Grown, Inv, TypeOK, Delete
<1>. QED BY <1>3, <1>4

LEMMA InsertInv == ASSUME Inv, NEW r \in Requests, InsertComment(r) PROVE Inv'
<1>0. Grown
  BY InsertGrows
<1>1. PICK c \in Rows :
        /\ NextRow(c) /\ comments' = [comments EXCEPT ![c] = NewComment(r)]
        /\ req' = [req EXCEPT ![r].pc = "reload", ![r].row = c]
  BY DEF InsertComment
<1>. DEFINE new == [req[r] EXCEPT !.pc = "reload", !.row = c]
<1>2. req' = [req EXCEPT ![r] = new] /\ UNCHANGED <<deleted, hist>>
  BY <1>1 DEF InsertComment
<1>3. /\ new \in Request /\ new.op = req[r].op /\ new.pc = "reload" /\ new.row = c
      /\ new.post = req[r].post /\ new.parent = req[r].parent
  BY DEF Inv, TypeOK, Request, PCs
<1>. HIDE DEF new
<1>4. req'[r] = new /\ req' \in [Requests -> Request] /\ \A q \in Requests \ {r} : req'[q] = req[q]
  BY <1>2, <1>3 DEF Inv, TypeOK
<1>5. /\ req[r].op = "create" /\ req[r].pc = "insert"
      /\ req[r].post \in Posts /\ req[r].parent \in Rows \cup {Top}
      /\ req[r].post \notin hist[r].gone /\ req[r].parent \notin hist[r].gone
      /\ req[r].parent # Top => comments[req[r].parent] # None
                               /\ comments[req[r].parent].post = req[r].post
  BY DEF InsertComment, At, Inv, Holds, Creating
<1>6. comments[c] = None /\ c \notin hist[r].gone
  BY <1>1, TopAssumption DEF NextRow, Exists, Inv, TypeOK, Holds, Gone
<1>7. /\ comments'[c].post = req[r].post /\ comments'[c].parent = req[r].parent
      /\ \A d \in Rows \ {c} : comments'[d] = comments[d]
  BY <1>1 DEF Inv, TypeOK, NewComment
<1>8. \A d \in Rows : Hung(d)'
  <2>1. Hung(c)'
    BY <1>5, <1>6, <1>7 DEF Hung
  <2>2. ASSUME NEW d \in Rows \ {c} PROVE Hung(d)'
    <3>1. CASE comments[d] = None
      BY <1>7, <2>2, <3>1 DEF Hung
    <3>2. CASE comments[d] # None
      BY <1>0, <2>2, <3>2, HangsOn
    <3>. QED BY <3>1, <3>2
  <2>. QED BY <2>1, <2>2
<1>9. Holds(r)'
  <2>1. (Gone(r) /\ Listed(r))'
    BY <1>0, <1>2, <1>3, <1>4, <1>5 DEF Inv, Holds, Gone, Listed, Grown
  <2>2. (Creating(r) /\ Editing(r) /\ Refused(r))'
    BY <1>2, <1>3, <1>4, <1>5, <1>6, NoneAssumption DEF Creating, Editing, Refused, Ops
  <2>. QED BY <2>1, <2>2 DEF Holds
<1>10. TypeOK'
  BY <1>0, <1>2, <1>4 DEF Inv, TypeOK, Grown
<1>11. \A q \in Requests : Holds(q)'
  BY <1>0, <1>2, <1>4, <1>9, Stays
<1>. QED BY <1>8, <1>10, <1>11 DEF Inv

\* Update and Delete neither hang nor unhang a comment.
LEMMA EditInv == ASSUME Inv, NEW r \in Requests, Update(r) \/ Delete(r) PROVE Inv'
<1>0. Grown
  BY EditGrows
<1>1. PICK pc \in {"reload", "ok"} : Goto(r, pc)
  BY DEF Update, Delete
<1>2. /\ req[r].op \in {"update", "delete"} /\ req[r].pc = "write" /\ UNCHANGED <<deleted, hist>>
      /\ req[r].row \in Rows /\ comments[req[r].row] # None
  BY DEF Update, Delete, At, Inv, Holds, Editing
<1>3. /\ req' \in [Requests -> Request] /\ \A q \in Requests \ {r} : req'[q] = req[q]
      /\ req'[r].op = req[r].op /\ req'[r].pc = pc /\ req'[r].row = req[r].row
      /\ req'[r].post = req[r].post /\ req'[r].parent = req[r].parent
  BY <1>1, Goes DEF PCs
<1>4. \A c \in Rows : comments[c] = None => comments'[c] = None
  BY <1>2 DEF Update, Delete, Row, Inv, TypeOK
<1>5. \A c \in Rows : Hung(c)'
  BY <1>0, <1>4, HangsOn DEF Hung
<1>6. Holds(r)'
  BY <1>0, <1>2, <1>3, NoneAssumption
    DEF Inv, Holds, Gone, Listed, Creating, Editing, Refused, Ops, Grown
<1>7. TypeOK'
  BY <1>0, <1>2, <1>3 DEF Inv, TypeOK, Grown
<1>8. \A q \in Requests : Holds(q)'
  BY <1>0, <1>2, <1>3, <1>6, Stays
<1>. QED BY <1>5, <1>7, <1>8 DEF Inv

LEMMA DeletePostInv == ASSUME Inv, NEW p \in Posts, DeletePost(p) PROVE Inv' /\ Grown
<1>1. Grown /\ UNCHANGED <<comments, req, hist>> /\ deleted' \subseteq Posts
  BY DEF DeletePost, Grown, Inv, TypeOK
<1>2. \A q \in Requests : Holds(q)'
  BY <1>1, Stays
<1>3. \A c \in Rows : Hung(c)'
  BY <1>1 DEF Inv, Hung
<1>4. TypeOK'
  BY <1>1 DEF Inv, TypeOK
<1>. QED BY <1>1, <1>2, <1>3, <1>4 DEF Inv

LEMMA NextInv == Inv /\ [Next]_vars => Inv'
<1>. SUFFICES ASSUME Inv, [Next]_vars PROVE Inv'
  OBVIOUS
<1>1. ASSUME NEW r \in Requests, Abort(r) PROVE Inv'
  <2>1. "failed" \in PCs \ {"ok", "reload"} /\ req[r].pc # "ok"
    BY <1>1 DEF Abort, PCs
  <2>. QED BY <1>1, <2>1, RefuseInv DEF Abort
<1>2. CASE UNCHANGED vars
  BY <1>2 DEF vars, Inv, TypeOK, Hung, Holds, Gone, Listed, Creating, Editing, Refused
<1>. QED
  BY <1>1, <1>2, BeginInv, LoadPostInv, LoadParentInv, InsertInv, LoadCommentInv, EditInv, ReloadInv,
     LoadThreadsInv, FinishInv, DeletePostInv DEF Next, Serve

LEMMA NextGrows == Inv /\ [Next]_vars => Grown
<1>. SUFFICES ASSUME Inv, [Next]_vars PROVE Grown
  OBVIOUS
<1>1. CASE UNCHANGED <<comments, deleted>>
  BY <1>1 DEF Grown, Inv, TypeOK
<1>2. \/ UNCHANGED <<comments, deleted>> \/ \E p \in Posts : DeletePost(p)
      \/ \E r \in Requests : InsertComment(r) \/ Update(r) \/ Delete(r)
  BY ZenonT(60) DEF Next, Serve, vars, BeginCreate, BeginEdit, BeginList, Begin, LoadPost, LoadParent,
    LoadComment, Reload, LoadThreads, Abort, Finish
<1>. QED
  BY <1>1, <1>2, InsertGrows, EditGrows, DeletePostInv

-----------------------------------------------------------------------------
\* The inductive invariant of Comments holds in every reachable state.
THEOREM Invariance == Spec => []Inv
BY InitInv, NextInv, PTL DEF Spec

\* Every reachable state is well typed.
THEOREM TypeCorrect == Spec => []TypeOK
BY Invariance, PTL DEF Inv

\* However deletions interleave with CommentService.create, a reply hangs under a comment of
\* its own post.
THEOREM ThreadsHang == Spec => []ThreadsOnOnePost
<1>1. Inv => ThreadsOnOnePost
  BY Stored DEF Inv, Hung, ThreadsOnOnePost, Exists
<1>. QED BY <1>1, Invariance, PTL

\* A request that begins after a deletion does not get past it.
THEOREM DeletedIsRefused == Spec => []NothingOnDeleted
<1>1. ASSUME Inv, NEW r \in Requests, req[r].pc = "ok", req[r].op # "list"
      PROVE  {req[r].post, req[r].parent, Row(r)} \cap hist[r].gone = {}
  <2>1. req[r].op \in Ops \cup {None} /\ hist[r].gone \subseteq Rows \cup Posts
    BY <1>1 DEF Inv, TypeOK, Request, History
  <2>2. CASE req[r].op = "create"
    BY <1>1, <2>2 DEF Inv, Holds, Creating, Row
  <2>3. CASE req[r].op \in {"update", "delete"}
    BY <1>1, <2>1, <2>3, NoneAssumption DEF Inv, Holds, Editing, Row
  <2>. QED
    BY <1>1, <2>1, <2>2, <2>3 DEF Ops, Inv, Holds, Refused
<1>2. Inv => NothingOnDeleted
  BY <1>1 DEF NothingOnDeleted
<1>. QED BY <1>2, Invariance, PTL

\* list_for_post hides a deleted thread with its replies.
THEOREM DeletedIsHidden == Spec => []DeletedThreadHidden
<1>1. Inv => DeletedThreadHidden
  BY DEF Inv, Holds, Listed, DeletedThreadHidden
<1>. QED BY <1>1, Invariance, PTL

\* No step brings a comment back or moves it to another thread.
THEOREM DeletionIsFinal == Spec => DeletedForever
<1>. DEFINE Final == \A c \in Rows : Exists(c) =>
              /\ comments[c].deleted => comments'[c].deleted
              /\ comments'[c].parent = comments[c].parent
<1>1. ASSUME Inv, [Next]_vars PROVE [Final]_vars
  BY <1>1, NextGrows DEF Grown, Exists
<1>. QED
  BY <1>1, Invariance, PTL DEF Spec, DeletedForever
=============================================================================
