--------------------------- MODULE ReactionsProofs ---------------------------
(***************************************************************************)
(* Proofs about Reactions, for any sets of users, posts and requests and   *)
(* any number of rows.  NothingLostSilently is inductive with the types: a *)
(* row appears only in an Insert, which counts it, and disappears only in  *)
(* a Delete, which counts that.                                            *)
(***************************************************************************)
EXTENDS Reactions, TLAPS

Request(n) == [op : Ops \cup {"none"}, pc : PCs, key : Keys \cup {None}, row : 0 .. n]

\* A request that runs has the key of the row it is about.
Keyed == \A r \in Requests : req[r].pc # "idle" => Key(r) \in Keys
Inv == TypeOK /\ Keyed /\ NothingLostSilently

\* Begin, Goto, GotoWith and Finish write one request and nothing else of the state.
LEMMA OneRequest ==
  ASSUME Inv, NEW r \in Requests, NEW new \in Request(last), new.pc # "idle" => new.key \in Keys,
         req' = [req EXCEPT ![r] = new], UNCHANGED <<rows, last, hist>>,
         deleted' \subseteq Posts
  PROVE  Inv'
<1>1. TypeOK'
  BY DEF Inv, TypeOK, Request
<1>2. Keyed'
  BY DEF Inv, TypeOK, Keyed, Key
<1>. QED BY <1>1, <1>2 DEF Inv, NothingLostSilently, Present

LEMMA Moves ==
  ASSUME Inv, NEW r \in Requests, req[r].pc # "idle", NEW pc \in PCs, NEW row \in 0 .. last,
         Goto(r, pc) \/ GotoWith(r, pc, row),
         UNCHANGED <<rows, last, hist>>, deleted' \subseteq Posts
  PROVE  Inv'
<1>1. req[r] \in Request(last) /\ req[r].key \in Keys
  BY DEF Inv, TypeOK, Request, Keyed, Key
<1>2. [req[r] EXCEPT !.pc = pc] \in Request(last) /\ [req[r] EXCEPT !.pc = pc].key = req[r].key
  BY <1>1 DEF Request
<1>3. /\ [req[r] EXCEPT !.pc = pc, !.row = row] \in Request(last)
      /\ [req[r] EXCEPT !.pc = pc, !.row = row].key = req[r].key
  BY <1>1 DEF Request
<1>4. CASE Goto(r, pc)
  <2>. DEFINE new == [req[r] EXCEPT !.pc = pc]
  <2>1. new \in Request(last) /\ new.key \in Keys
    BY <1>1, <1>2
  <2>2. req' = [req EXCEPT ![r] = new]
    BY <1>4 DEF Goto, Inv, TypeOK, Request
  <2>. HIDE DEF new
  <2>. QED BY <2>1, <2>2, OneRequest
<1>5. CASE GotoWith(r, pc, row)
  <2>. DEFINE new == [req[r] EXCEPT !.pc = pc, !.row = row]
  <2>1. new \in Request(last) /\ new.key \in Keys
    BY <1>1, <1>3
  <2>2. req' = [req EXCEPT ![r] = new]
    BY <1>5 DEF GotoWith, Inv, TypeOK, Request
  <2>. HIDE DEF new
  <2>. QED BY <2>1, <2>2, OneRequest
<1>. QED BY <1>4, <1>5

LEMMA InitInv == Init => Inv
<1>. SUFFICES ASSUME Init PROVE Inv
  OBVIOUS
<1>1. TypeOK
  BY MaxRowsAssumption DEF Init, TypeOK, Idle, PCs
<1>2. Keyed
  BY DEF Init, Keyed, Idle
<1>3. NothingLostSilently
  BY DEF Init, NothingLostSilently, Present
<1>. QED BY <1>1, <1>2, <1>3 DEF Inv

LEMMA InsertInv == ASSUME Inv, NEW r \in Requests, Insert(r) PROVE Inv'
<1>1. CASE Goto(r, "refused") /\ UNCHANGED <<rows, last, hist>>
  <2>1. req[r].pc # "idle" /\ "refused" \in PCs /\ deleted' \subseteq Posts /\ 0 \in 0 .. last
    BY DEF Insert, PCs, Inv, TypeOK
  <2>. QED BY <1>1, <2>1, Moves
<1>2. CASE /\ rows[Key(r)] = 0 /\ AddRow(Key(r))
           /\ GotoWith(r, IF req[r].op = "add" THEN "reload" ELSE "added", last + 1)
           /\ hist' = [hist EXCEPT !.on[Key(r)] = @ + 1]
  <2>. DEFINE pc == IF req[r].op = "add" THEN "reload" ELSE "added"
              new == [req[r] EXCEPT !.pc = pc, !.row = last + 1]
  <2>1. last' = last + 1 /\ last + 1 \in 0 .. MaxRows /\ last \in Nat
    BY <1>2, MaxRowsAssumption DEF AddRow, Inv, TypeOK
  <2>2. Key(r) \in Keys /\ rows' = [rows EXCEPT ![Key(r)] = last + 1]
    BY <1>2 DEF AddRow, Inv, Keyed, Insert
  <2>3. rows' \in [Keys -> 0 .. last']
    BY <2>1, <2>2 DEF Inv, TypeOK
  <2>4. req \in [Requests -> Request(last')]
    BY <2>1 DEF Inv, TypeOK, Request
  <2>5. pc \in PCs
    BY DEF PCs
  <2>6. new \in Request(last') /\ new.key = Key(r)
    <3>1. req[r] \in Request(last') /\ last + 1 \in 0 .. last'
      BY <2>1, <2>4
    <3>. HIDE DEF pc
    <3>. QED BY <2>5, <3>1 DEF Request, Key
  <2>7. req' = [req EXCEPT ![r] = new]
    BY <1>2 DEF GotoWith
  <2>. HIDE DEF new
  <2>8. req' \in [Requests -> Request(last')] /\ Keyed'
    BY <2>2, <2>4, <2>6, <2>7 DEF Inv, Keyed, Key
  <2>9. hist' \in [on : [Keys -> Nat], off : [Keys -> Nat]]
    BY <1>2 DEF Inv, TypeOK
  <2>10. TypeOK'
    BY <2>1, <2>3, <2>8, <2>9 DEF Inv, TypeOK, Request, Insert
  <2>11. ASSUME NEW k \in Keys PROVE (hist.on[k] - hist.off[k] <= Present(k))'
    <3>1. CASE k = Key(r)
      <4>1. hist'.on[k] = hist.on[k] + 1 /\ hist'.off[k] = hist.off[k] /\ rows'[k] = last + 1
        BY <1>2, <2>2, <3>1 DEF Inv, TypeOK
      <4>. QED
        BY <1>2, <2>1, <3>1, <4>1 DEF Inv, TypeOK, NothingLostSilently, Present
    <3>2. CASE k # Key(r)
      <4>1. hist'.on[k] = hist.on[k] /\ hist'.off[k] = hist.off[k] /\ rows'[k] = rows[k]
        BY <1>2, <2>2, <3>2 DEF Inv, TypeOK
      <4>. QED
        BY <4>1 DEF Inv, TypeOK, NothingLostSilently, Present
    <3>. QED BY <3>1, <3>2
  <2>. QED BY <2>8, <2>10, <2>11 DEF Inv, NothingLostSilently
<1>. QED BY <1>1, <1>2 DEF Insert

LEMMA DeleteInv == ASSUME Inv, NEW r \in Requests, Delete(r) PROVE Inv'
<1>1. /\ Key(r) \in Keys /\ rows' = [rows EXCEPT ![Key(r)] = Removes(r, @)]
      /\ hist' = [hist EXCEPT !.off[Key(r)] = @ + 1] /\ UNCHANGED <<deleted, last>>
  BY DEF Delete, Inv, Keyed
<1>2. Removes(r, rows[Key(r)]) \in 0 .. last
  BY <1>1 DEF Removes, Inv, TypeOK
<1>3. rows' \in [Keys -> 0 .. last']
  BY <1>1, <1>2 DEF Inv, TypeOK
<1>4. req' = [req EXCEPT ![r] = [req[r] EXCEPT !.pc = "removed"]]
  BY DEF Delete, Goto
<1>5. [req[r] EXCEPT !.pc = "removed"] \in Request(last)
  BY DEF Inv, TypeOK, Request, PCs
<1>6. req' \in [Requests -> Request(last)] /\ Keyed'
  BY <1>1, <1>4, <1>5 DEF Inv, TypeOK, Request, Keyed, Key
<1>7. hist' \in [on : [Keys -> Nat], off : [Keys -> Nat]]
  BY <1>1 DEF Inv, TypeOK
<1>8. TypeOK'
  BY <1>1, <1>3, <1>6, <1>7 DEF Inv, TypeOK, Request
<1>9. ASSUME NEW k \in Keys PROVE (hist.on[k] - hist.off[k] <= Present(k))'
  <2>1. hist'.on[k] = hist.on[k]
    BY <1>1 DEF Inv, TypeOK
  <2>2. CASE k = Key(r)
    <3>1. hist'.off[k] = hist.off[k] + 1 /\ rows'[k] = Removes(r, rows[k])
      BY <1>1, <2>2 DEF Inv, TypeOK
    <3>. QED
      BY <2>1, <3>1 DEF Removes, Inv, TypeOK, NothingLostSilently, Present
  <2>3. CASE k # Key(r)
    <3>1. hist'.off[k] = hist.off[k] /\ rows'[k] = rows[k]
      BY <1>1, <2>3 DEF Inv, TypeOK
    <3>. QED
      BY <2>1, <3>1 DEF Inv, TypeOK, NothingLostSilently, Present
  <2>. QED BY <2>2, <2>3
<1>. QED BY <1>6, <1>8, <1>9 DEF Inv, NothingLostSilently

LEMMA NextInv == Inv /\ [Next]_vars => Inv'
<1>. SUFFICES ASSUME Inv, [Next]_vars PROVE Inv'
  OBVIOUS
<1>0. deleted \subseteq Posts /\ last \in Nat /\ 0 \in 0 .. last
  BY MaxRowsAssumption DEF Inv, TypeOK
<1>1. ASSUME NEW r \in Requests, Begin(r) PROVE Inv'
  <2>1. PICK op \in Ops, k \in Keys :
          req' = [req EXCEPT ![r] = [op |-> op, key |-> k, row |-> 0,
                                     pc |-> IF op = "remove" THEN "row" ELSE "post"]]
    BY <1>1 DEF Begin
  <2>2. [op |-> op, key |-> k, row |-> 0, pc |-> IF op = "remove" THEN "row" ELSE "post"]
          \in Request(last)
    BY <1>0 DEF Request, PCs
  <2>. QED BY <1>0, <1>1, <2>1, <2>2, OneRequest DEF Begin
<1>2. ASSUME NEW r \in Requests, LoadPost(r) PROVE Inv'
  <2>1. req[r].pc # "idle" /\ "refused" \in PCs /\ "row" \in PCs
    BY <1>2 DEF LoadPost, PCs
  <2>. QED BY <1>0, <1>2, <2>1, Moves DEF LoadPost
<1>3. ASSUME NEW r \in Requests, LoadRow(r) PROVE Inv'
  <2>1. req[r].pc # "idle" /\ "refused" \in PCs /\ "insert" \in PCs /\ "delete" \in PCs
    BY <1>3 DEF LoadRow, PCs
  <2>2. rows[Key(r)] \in 0 .. last
    BY <2>1 DEF Inv, TypeOK, Keyed
  <2>3. \E pc \in PCs, row \in 0 .. last : Goto(r, pc) \/ GotoWith(r, pc, row)
    BY <1>0, <1>3, <2>1, <2>2 DEF LoadRow
  <2>. QED BY <1>0, <1>3, <2>1, <2>3, Moves DEF LoadRow
<1>4. ASSUME NEW r \in Requests, Reload(r) \/ Abort(r) PROVE Inv'
  <2>1. req[r].pc # "idle" /\ "refused" \in PCs /\ "added" \in PCs
    BY <1>4 DEF Reload, Abort, PCs
  <2>. QED BY <1>0, <1>4, <2>1, Moves DEF Reload, Abort
<1>5. ASSUME NEW r \in Requests, Finish(r) PROVE Inv'
  <2>1. Idle \in Request(last) /\ Idle.pc = "idle"
    BY <1>0 DEF Idle, Request, PCs
  <2>. QED BY <1>0, <1>5, <2>1, OneRequest DEF Finish
<1>6. ASSUME NEW p \in Posts, DeletePost(p) PROVE Inv'
  BY <1>6 DEF DeletePost, Inv, TypeOK, Keyed, Key, NothingLostSilently, Present
<1>7. CASE UNCHANGED vars
  BY <1>7 DEF vars, Inv, TypeOK, Keyed, Key, NothingLostSilently, Present
<1>. QED
  BY <1>1, <1>2, <1>3, <1>4, <1>5, <1>6, <1>7, InsertInv, DeleteInv DEF Next, Serve

-----------------------------------------------------------------------------
\* The inductive invariant of Reactions holds in every reachable state, for any sets of
\* users, posts and requests and any number of rows.
THEOREM Invariance == Spec => []Inv
BY InitInv, NextInv, PTL DEF Spec

\* Every reachable state is well typed.
THEOREM TypeCorrect == Spec => []TypeOK
BY Invariance, PTL DEF Inv

\* toggle_like, add and remove lose no like and no bookmark silently, however they race.
THEOREM LossesAnnounced == Spec => []NothingLostSilently
BY Invariance, PTL DEF Inv

\* A DELETE takes away the row its request has loaded and no other.
THEOREM RemovalsAreOfLoaded == Spec => OnlyLoadedRowRemoved
<1>. DEFINE Removing(k) == rows[k] # 0 /\ rows'[k] # rows[k] =>
       rows'[k] = 0 /\ \E r \in Requests : Key(r) = k /\ req[r].row = rows[k] /\ req'[r].pc = "removed"
             Removal == \A k \in Keys : Removing(k)
<1>1. ASSUME Inv, [Next]_vars, NEW k \in Keys PROVE Removing(k)
  <2>1. ASSUME NEW r \in Requests, Insert(r) PROVE Removing(k)
    BY <1>1, <2>1 DEF Insert, AddRow, Inv, TypeOK
  <2>2. ASSUME NEW r \in Requests, Delete(r) PROVE Removing(k)
    <3>1. rows' = [rows EXCEPT ![Key(r)] = Removes(r, @)] /\ req'[r].pc = "removed"
      BY <1>1, <2>2 DEF Delete, Goto, Inv, TypeOK
    <3>. QED BY <1>1, <3>1 DEF Removes, Inv, TypeOK
  <2>3. UNCHANGED rows \/ \E r \in Requests : Insert(r) \/ Delete(r)
    BY <1>1 DEF Next, Serve, vars, Begin, LoadPost, LoadRow, Reload, Abort, Finish, DeletePost
  <2>. QED BY <2>1, <2>2, <2>3
<1>2. ASSUME Inv, [Next]_vars PROVE [Removal]_vars
  BY <1>1, <1>2
<1>. QED
  BY <1>2, Invariance, PTL DEF Spec, OnlyLoadedRowRemoved
=============================================================================
