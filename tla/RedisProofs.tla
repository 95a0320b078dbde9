----------------------------- MODULE RedisProofs -----------------------------
(***************************************************************************)
(* Proofs about the three components whose state is in Redis: the mail     *)
(* queue (EmailDelivery), the access-token blacklist (AccessTokens) and    *)
(* the limiter (RateLimit).  They share no state, and each part below is   *)
(* about one of them, for every value of its constants.                    *)
(***************************************************************************)
EXTENDS EmailDelivery, RateLimit, AccessTokens, FiniteSetTheorems, TLAPS

-----------------------------------------------------------------------------
(* Mail delivery.  Each copy of a mail, sent, running or waiting, is       *)
(* accounted for: by a try whose reply was lost, or by the one that ended  *)
(* the request (Accounted).  A mail without a copy is one a fault touched  *)
(* (Lossless).                                                             *)

Copies(m) == sent[m] + queue[m] + Cardinality(InWorkers(m))
Accounted(m) ==
  /\ IsFiniteSet(InWorkers(m))
  /\ Copies(m) <= hist.lost[m] + (IF api[m] \in {"answered", "dead"} THEN 1 ELSE 0)
Tried(m) ==
  /\ hist.lost[m] <= tries[m]
  /\ api[m] \in {"idle", "publish"} => tries[m] < MaxTries
Lossless(m) == api[m] = "answered" /\ sent[m] = 0 =>
  queue[m] > 0 \/ InWorkers(m) # {} \/ m \in hist.hit
Mail(m) == Accounted(m) /\ Tried(m) /\ Lossless(m)

MailInv == TypeOK /\ \A m \in Mails : Mail(m)

History == [hit : SUBSET Mails, lost : [Mails -> 0 .. MaxTries], faults : 0 .. MaxFaults]

\* What a step about another mail leaves to this one.
Same(n) ==
  /\ api'[n] = api[n] /\ tries'[n] = tries[n] /\ queue'[n] = queue[n] /\ sent'[n] = sent[n]
  /\ InWorkers(n)' = InWorkers(n) /\ hist'.lost[n] = hist.lost[n]

LEMMA MailTyped ==
  ASSUME TypeOK, NEW m \in Mails
  PROVE  /\ queue[m] \in Nat /\ sent[m] \in Nat /\ tries[m] \in Nat /\ hist.lost[m] \in Nat
         /\ hist \in History /\ MaxTries \in Nat /\ MaxTries > 0 /\ MaxFaults \in Nat
BY MaxTriesAssumption, MaxFaultsAssumption DEF TypeOK, History

LEMMA Faulted ==
  ASSUME TypeOK, NEW m \in Mails, Fault(m)
  PROVE  /\ hist' \in History /\ hist'.lost = hist.lost
         /\ hist.hit \subseteq hist'.hit /\ m \in hist'.hit
<1>. DEFINE hit == hist.hit \cup {m}
            hits == hist.faults + 1
<1>1. hist \in History /\ hit \in SUBSET Mails
  BY DEF TypeOK, History
<1>2. hits \in 0 .. MaxFaults
  BY <1>1, MaxFaultsAssumption DEF Fault, History
<1>3. hist' = [hist EXCEPT !.hit = hit, !.faults = hits]
  BY DEF Fault
<1>4. hist.hit \subseteq hit /\ m \in hit
  OBVIOUS
<1>. HIDE DEF hit, hits
<1>. QED BY <1>1, <1>2, <1>3, <1>4 DEF History

LEMMA LostReply ==
  ASSUME TypeOK, NEW m \in Mails, hist.lost[m] < MaxTries,
         hist' = [hist EXCEPT !.lost[m] = @ + 1]
  PROVE  /\ hist' \in History /\ hist'.hit = hist.hit
         /\ hist'.lost[m] = hist.lost[m] + 1
         /\ \A n \in Mails \ {m} : hist'.lost[n] = hist.lost[n]
<1>. DEFINE lost == [hist.lost EXCEPT ![m] = @ + 1]
<1>1. hist \in History /\ hist.lost \in [Mails -> 0 .. MaxTries] /\ MaxTries \in Nat
  BY MailTyped DEF History
<1>2. /\ lost \in [Mails -> 0 .. MaxTries] /\ lost[m] = hist.lost[m] + 1
      /\ \A n \in Mails \ {m} : lost[n] = hist.lost[n]
  BY <1>1
<1>3. hist' = [hist EXCEPT !.lost = lost]
  OBVIOUS
<1>. HIDE DEF lost
<1>. QED BY <1>1, <1>2, <1>3 DEF History

LEMMA Delivered ==
  ASSUME TypeOK, NEW m \in Mails, Deliver(m)
  PROVE  sent'[m] = sent[m] + 1 /\ \A n \in Mails \ {m} : sent'[n] = sent[n]
BY DEF TypeOK, Deliver

LEMMA Enqueued ==
  ASSUME TypeOK, NEW m \in Mails, Enqueue(m)
  PROVE  /\ queue' \in [Mails -> Nat] /\ queue'[m] = queue[m] + 1
         /\ \A n \in Mails \ {m} : queue'[n] = queue[n]
BY DEF TypeOK, Enqueue

\* While no worker takes or ends a task, the copies of a mail are a sum of two numbers.
LEMMA CopiesOf ==
  ASSUME TypeOK, NEW m \in Mails, IsFiniteSet(InWorkers(m))
  PROVE  Copies(m) \in Nat /\ Copies(m) >= sent[m] /\ Cardinality(InWorkers(m)) \in Nat
BY MailTyped, FS_CardinalityType DEF Copies

\* A mail is sent at most once more than its publish is tried.
LEMMA SentBound ==
  ASSUME TypeOK, NEW m \in Mails, Mail(m), Deliver(m), UNCHANGED queue,
         Cardinality(InWorkers(m)) > 0 \/ api[m] \notin {"answered", "dead"}
  PROVE  sent' \in [Mails -> 0 .. MaxTries + 1]
<1>1. /\ hist.lost[m] \in 0 .. MaxTries /\ sent[m] \in 0 .. MaxTries + 1 /\ queue[m] \in Nat
      /\ MaxTries \in Nat /\ sent \in [Mails -> 0 .. MaxTries + 1]
  BY MaxTriesAssumption DEF TypeOK
<1>2. sent[m] + queue[m] + Cardinality(InWorkers(m))
        <= hist.lost[m] + (IF api[m] \in {"answered", "dead"} THEN 1 ELSE 0)
      /\ Cardinality(InWorkers(m)) \in Nat
  BY CopiesOf DEF Mail, Accounted, Copies
<1>3. sent[m] + 1 \in 0 .. MaxTries + 1
  BY <1>1, <1>2
<1>. QED BY <1>1, <1>3 DEF Deliver

\* A step about one mail leaves the others as they are.
LEMMA OneMail ==
  ASSUME MailInv, TypeOK', NEW m \in Mails, Mail(m)', hist.hit \subseteq hist'.hit,
         \A n \in Mails \ {m} : Same(n)
  PROVE  MailInv'
<1>1. ASSUME NEW n \in Mails \ {m} PROVE Mail(n)'
  BY <1>1 DEF MailInv, Mail, Accounted, Copies, Tried, Lossless, Same
<1>. QED BY <1>1 DEF MailInv

LEMMA MailInitInv == Init => MailInv
<1>1. SUFFICES ASSUME Init PROVE MailInv
  OBVIOUS
<1>2. TypeOK
  BY <1>1, MaxTriesAssumption, MaxFaultsAssumption DEF Init, TypeOK
<1>3. ASSUME NEW m \in Mails PROVE Mail(m)
  <2>1. InWorkers(m) = {}
    BY <1>1, NoneAssumption DEF Init, InWorkers
  <2>. QED BY <1>1, <2>1, FS_EmptySet, MaxTriesAssumption
              DEF Init, Mail, Accounted, Copies, Tried, Lossless
<1>. QED BY <1>2, <1>3 DEF MailInv

\* The steps of the request of one mail.
LEMMA RequestInv ==
  ASSUME MailInv, NEW m \in Mails, Request(m) \/ Step(m) \/ RequestDies(m)
  PROVE  MailInv'
<1>0. /\ TypeOK /\ Mail(m) /\ IsFiniteSet(InWorkers(m)) /\ UNCHANGED worker
      /\ \A n \in Mails : InWorkers(n)' = InWorkers(n)
  BY DEF MailInv, Mail, Accounted, Request, Step, RequestDies, Publish, PublishFails,
         SendFromRequest, InWorkers
<1>1. /\ queue[m] \in Nat /\ sent[m] \in Nat /\ tries[m] \in Nat /\ hist.lost[m] \in Nat
      /\ hist \in History /\ MaxTries \in Nat /\ MaxTries > 0
      /\ Cardinality(InWorkers(m)) \in Nat
  BY <1>0, MailTyped, CopiesOf
<1>. DEFINE Api == {"idle", "publish", "fallback", "answered", "dead"}
<1>2. CASE Request(m)
  <2>1. /\ api[m] = "idle" /\ api'[m] = "publish" /\ api' \in [Mails -> Api]
        /\ \A n \in Mails \ {m} : api'[n] = api[n]
        /\ UNCHANGED <<tries, queue, worker, sent, hist>>
    BY <1>0, <1>2 DEF Request, Goto, TypeOK
  <2>2. TypeOK' /\ \A n \in Mails \ {m} : Same(n)
    BY <1>0, <2>1 DEF TypeOK, Same
  <2>3. Mail(m)'
    BY <1>0, <2>1 DEF Mail, Accounted, Copies, Tried, Lossless
  <2>. QED BY <2>1, <2>2, <2>3, OneMail
<1>3. CASE Publish(m)
  <2>1. /\ api[m] = "publish" /\ api'[m] = "answered" /\ api' \in [Mails -> Api]
        /\ \A n \in Mails \ {m} : api'[n] = api[n]
        /\ UNCHANGED <<tries, worker, sent, hist>> /\ Enqueue(m)
    BY <1>0, <1>3 DEF Publish, Goto, TypeOK
  <2>2. TypeOK' /\ \A n \in Mails \ {m} : Same(n)
    BY <1>0, <2>1, Enqueued DEF TypeOK, Same
  <2>3. queue'[m] = queue[m] + 1
    BY <1>0, <2>1, Enqueued
  <2>4. Mail(m)'
    BY <1>0, <1>1, <2>1, <2>3 DEF Mail, Accounted, Copies, Tried, Lossless
  <2>. QED BY <2>1, <2>2, <2>4, OneMail
<1>4. CASE PublishFails(m)
  <2>1. /\ api[m] = "publish" /\ api' \in [Mails -> Api] /\ api'[m] \in {"publish", "fallback"}
        /\ api'[m] = "publish" => tries'[m] < MaxTries
        /\ \A n \in Mails \ {m} : api'[n] = api[n]
        /\ UNCHANGED <<worker, sent>>
    BY <1>0, <1>4 DEF PublishFails, OnPublishError, Goto, TypeOK
  <2>2. tries[m] < MaxTries /\ hist.lost[m] <= tries[m]
    BY <1>0, <2>1 DEF Mail, Tried
  <2>3. /\ tries' \in [Mails -> 0 .. MaxTries] /\ tries'[m] = tries[m] + 1
        /\ \A n \in Mails \ {m} : tries'[n] = tries[n]
    <3>1. tries[m] + 1 \in 0 .. MaxTries
      BY <1>1, <2>2
    <3>. QED BY <1>0, <1>4, <3>1 DEF PublishFails, TypeOK
  <2>4. \/ UNCHANGED <<queue, hist>>
        \/ Enqueue(m) /\ hist' = [hist EXCEPT !.lost[m] = @ + 1]
    BY <1>4 DEF PublishFails
  <2>5. /\ queue' \in [Mails -> Nat] /\ hist' \in History /\ hist'.hit = hist.hit
        /\ \A n \in Mails \ {m} : queue'[n] = queue[n] /\ hist'.lost[n] = hist.lost[n]
        /\ \/ queue'[m] = queue[m] /\ hist'.lost[m] = hist.lost[m]
           \/ queue'[m] = queue[m] + 1 /\ hist'.lost[m] = hist.lost[m] + 1
    <3>1. CASE UNCHANGED <<queue, hist>>
      BY <1>0, <1>1, <3>1 DEF TypeOK
    <3>2. CASE Enqueue(m) /\ hist' = [hist EXCEPT !.lost[m] = @ + 1]
      <4>1. hist.lost[m] < MaxTries
        BY <1>1, <2>2
      <4>. QED BY <1>0, <3>2, <4>1, Enqueued, LostReply
    <3>. QED BY <2>4, <3>1, <3>2
  <2>6. TypeOK' /\ \A n \in Mails \ {m} : Same(n)
    BY <1>0, <2>1, <2>3, <2>5 DEF TypeOK, History, Same
  <2>7. Mail(m)'
    BY <1>0, <1>1, <2>1, <2>2, <2>3, <2>5 DEF Mail, Accounted, Copies, Tried, Lossless
  <2>. QED BY <2>5, <2>6, <2>7, OneMail
<1>5. CASE SendFromRequest(m)
  <2>1. /\ api[m] = "fallback" /\ api'[m] = "answered" /\ api' \in [Mails -> Api]
        /\ \A n \in Mails \ {m} : api'[n] = api[n]
        /\ UNCHANGED <<tries, queue, worker>>
        /\ \/ Deliver(m) /\ UNCHANGED hist
           \/ Fault(m) /\ (Deliver(m) \/ UNCHANGED sent)
    BY <1>0, <1>5 DEF SendFromRequest, Goto, TypeOK
  <2>2. /\ hist' \in History /\ hist'.lost = hist.lost /\ hist.hit \subseteq hist'.hit
        /\ sent'[m] = sent[m] + 1 \/ (sent'[m] = sent[m] /\ m \in hist'.hit)
        /\ \A n \in Mails \ {m} : sent'[n] = sent[n]
    BY <1>0, <1>1, <2>1, Faulted, Delivered
  <2>3. sent' \in [Mails -> 0 .. MaxTries + 1]
    <3>1. CASE Deliver(m)
      BY <1>0, <2>1, <3>1, SentBound
    <3>. QED BY <1>0, <2>1, <3>1 DEF TypeOK
  <2>4. TypeOK' /\ \A n \in Mails \ {m} : Same(n)
    BY <1>0, <2>1, <2>2, <2>3 DEF TypeOK, History, Same
  <2>5. Mail(m)'
    BY <1>0, <1>1, <2>1, <2>2 DEF Mail, Accounted, Copies, Tried, Lossless
  <2>. QED BY <2>2, <2>4, <2>5, OneMail
<1>6. CASE RequestDies(m)
  <2>1. /\ api[m] \in {"publish", "fallback"} /\ api'[m] = "dead" /\ api' \in [Mails -> Api]
        /\ \A n \in Mails \ {m} : api'[n] = api[n]
        /\ UNCHANGED <<tries, worker>> /\ Fault(m)
        /\ \/ (Enqueue(m) \/ UNCHANGED queue) /\ UNCHANGED sent
           \/ (Deliver(m) \/ UNCHANGED sent) /\ UNCHANGED queue
    BY <1>0, <1>6 DEF RequestDies, Goto, TypeOK
  <2>2. hist' \in History /\ hist'.lost = hist.lost /\ hist.hit \subseteq hist'.hit
    BY <1>0, <2>1, Faulted
  <2>3. /\ queue' \in [Mails -> Nat] /\ sent' \in [Mails -> 0 .. MaxTries + 1]
        /\ \A n \in Mails \ {m} : queue'[n] = queue[n] /\ sent'[n] = sent[n]
        /\ \/ queue'[m] = queue[m] /\ sent'[m] = sent[m]
           \/ queue'[m] = queue[m] + 1 /\ sent'[m] = sent[m]
           \/ queue'[m] = queue[m] /\ sent'[m] = sent[m] + 1
    <3>1. CASE Enqueue(m) /\ UNCHANGED sent
      BY <1>0, <3>1, Enqueued DEF TypeOK
    <3>2. CASE UNCHANGED <<queue, sent>>
      BY <1>0, <3>2 DEF TypeOK
    <3>3. CASE Deliver(m) /\ UNCHANGED queue
      BY <1>0, <2>1, <3>3, SentBound, Delivered DEF TypeOK
    <3>. QED BY <2>1, <3>1, <3>2, <3>3
  <2>4. TypeOK' /\ \A n \in Mails \ {m} : Same(n)
    BY <1>0, <2>1, <2>2, <2>3 DEF TypeOK, History, Same
  <2>5. Mail(m)'
    BY <1>0, <1>1, <2>1, <2>2, <2>3 DEF Mail, Accounted, Copies, Tried, Lossless
  <2>. QED BY <2>2, <2>4, <2>5, OneMail
<1>. QED BY <1>2, <1>3, <1>4, <1>5, <1>6 DEF Step

\* The steps of one worker: take a task, run it, die with it.
LEMMA WorkerInv ==
  ASSUME MailInv, NEW w \in Workers, Work(w) \/ WorkerDies(w)
  PROVE  MailInv'
<1>1. ASSUME Take(w) PROVE MailInv'
  <2>1. PICK m \in Mails : /\ worker[w] = None /\ queue[m] > 0
                           /\ worker' = [worker EXCEPT ![w] = m]
                           /\ queue' = [queue EXCEPT ![m] = @ - 1]
                           /\ UNCHANGED <<api, tries, sent, hist>>
    BY <1>1 DEF Take
  <2>2. TypeOK /\ Mail(m) /\ IsFiniteSet(InWorkers(m)) /\ m # None /\ w \notin InWorkers(m)
    BY <2>1, NoneAssumption DEF MailInv, Mail, Accounted, InWorkers
  <2>3. /\ InWorkers(m)' = InWorkers(m) \cup {w}
        /\ \A n \in Mails \ {m} : InWorkers(n)' = InWorkers(n)
    BY <2>1, <2>2, NoneAssumption DEF TypeOK, InWorkers
  <2>4. /\ IsFiniteSet(InWorkers(m)') /\ Cardinality(InWorkers(m)') = Cardinality(InWorkers(m)) + 1
        /\ Cardinality(InWorkers(m)) \in Nat
    BY <2>2, <2>3, FS_AddElement, FS_CardinalityType
  <2>5. /\ queue' \in [Mails -> Nat] /\ queue[m] \in Nat /\ queue'[m] = queue[m] - 1
        /\ \A n \in Mails \ {m} : queue'[n] = queue[n]
    BY <2>1, <2>2 DEF TypeOK
  <2>6. TypeOK' /\ \A n \in Mails \ {m} : Same(n)
    BY <2>1, <2>2, <2>3, <2>5 DEF TypeOK, Same
  <2>7. Copies(m)' = Copies(m)
    BY <2>1, <2>2, <2>4, <2>5, MailTyped DEF Copies
  <2>8. Mail(m)'
    BY <2>1, <2>2, <2>3, <2>4, <2>7 DEF Mail, Accounted, Tried, Lossless
  <2>. QED BY <2>1, <2>6, <2>8, OneMail
<1>2. ASSUME RunTask(w) \/ WorkerDies(w) PROVE MailInv'
  <2>1. PICK m \in Mails :
          /\ worker[w] = m /\ worker' = [worker EXCEPT ![w] = None]
          /\ UNCHANGED <<api, tries, queue>>
          /\ \/ Deliver(m) /\ UNCHANGED hist
             \/ Fault(m) /\ (Deliver(m) \/ UNCHANGED sent)
    BY <1>2 DEF RunTask, EndTask, WorkerDies
  <2>2. TypeOK /\ Mail(m) /\ IsFiniteSet(InWorkers(m)) /\ m # None /\ w \in InWorkers(m)
    BY <2>1, NoneAssumption DEF MailInv, Mail, Accounted, InWorkers
  <2>3. /\ InWorkers(m)' = InWorkers(m) \ {w}
        /\ \A n \in Mails \ {m} : InWorkers(n)' = InWorkers(n)
    BY <2>1, <2>2, NoneAssumption DEF TypeOK, InWorkers
  <2>4. /\ IsFiniteSet(InWorkers(m)') /\ Cardinality(InWorkers(m)') = Cardinality(InWorkers(m)) - 1
        /\ Cardinality(InWorkers(m)) \in Nat /\ Cardinality(InWorkers(m)') \in Nat
    BY <2>2, <2>3, FS_RemoveElement, FS_CardinalityType
  <2>5. /\ hist' \in History /\ hist'.lost = hist.lost /\ hist.hit \subseteq hist'.hit
        /\ sent'[m] = sent[m] + 1 \/ (sent'[m] = sent[m] /\ m \in hist'.hit)
        /\ \A n \in Mails \ {m} : sent'[n] = sent[n]
    BY <2>1, <2>2, Faulted, Delivered, MailTyped
  <2>6. sent' \in [Mails -> 0 .. MaxTries + 1]
    <3>1. Cardinality(InWorkers(m)) > 0
      BY <2>4
    <3>2. CASE Deliver(m)
      BY <2>1, <2>2, <3>1, <3>2, SentBound
    <3>. QED BY <2>1, <2>2, <3>2 DEF TypeOK
  <2>7. TypeOK' /\ \A n \in Mails \ {m} : Same(n)
    BY <2>1, <2>2, <2>3, <2>5, <2>6 DEF TypeOK, History, Same
  <2>8. Mail(m)'
    BY <2>1, <2>2, <2>4, <2>5, MailTyped DEF Mail, Accounted, Copies, Tried, Lossless
  <2>. QED BY <2>5, <2>7, <2>8, OneMail
<1>. QED BY <1>1, <1>2 DEF Work

LEMMA MailNextInv == MailInv /\ [Next]_vars => MailInv'
<1>1. ASSUME MailInv, UNCHANGED vars PROVE MailInv'
  BY <1>1 DEF vars, MailInv, TypeOK, Mail, Accounted, Copies, Tried, Lossless, InWorkers
<1>. QED BY <1>1, RequestInv, WorkerInv DEF Next

------------------------------------------------------------------------------
\* The inductive invariant of EmailDelivery holds in every reachable state, for any mails,
\* workers, tries of a publish and number of faults.
THEOREM MailInvariance == Spec => []MailInv
BY MailInitInv, MailNextInv, PTL DEF Spec

\* Every reachable state is well typed: a mail is sent at most once more than its publish
\* is tried.
THEOREM MailTypeCorrect == Spec => []TypeOK
BY MailInvariance, PTL DEF MailInv

\* A mail whose request was answered is sent, waits, runs, or was touched by a fault.
THEOREM NothingLost == Spec => []NotLostSilently
<1>1. MailInv => NotLostSilently
  BY DEF MailInv, Mail, Lossless, NotLostSilently
<1>. QED BY <1>1, MailInvariance, PTL

\* The copies of a mail, sent or to be sent, are at most one more than the tries of its
\* publish whose reply was lost, whether delay() returned, raised or died.
THEOREM CopiesFromLostReplies == Spec => []ExtraCopiesFromLostReplies
<1>1. ASSUME MailInv, NEW m \in Mails
      PROVE  sent[m] + queue[m] + Cardinality(InWorkers(m)) <= 1 + hist.lost[m]
  <2>1. TypeOK /\ Accounted(m) /\ Copies(m) \in Nat /\ hist.lost[m] \in Nat
    BY <1>1, MailTyped, CopiesOf DEF MailInv, Mail, Accounted
  <2>. QED BY <2>1 DEF Accounted, Copies
<1>2. MailInv => ExtraCopiesFromLostReplies
  BY <1>1 DEF ExtraCopiesFromLostReplies
<1>. QED BY <1>2, MailInvariance, PTL

-----------------------------------------------------------------------------
(* Access tokens.  The clock only moves forward, so what the logout knows  *)
(* when it computes the TTL (its blacklist key will outlast the start of   *)
(* the token's last second) is still true when the SET reaches Redis; and  *)
(* a request that found no key found it after that instant.                *)

\* The instant from which the blacklist need not hold: the last second of the token's life.
LastSecond(t) == (exp[t] - 1) * Res

Issued(t) == t \in Tokens /\ exp[t] # NotIssued
Covered(t) == Issued(t) /\ until[t] > LastSecond(t)
Running(r) == req[r].pc # "idle" => Issued(req[r].tok)
Reaches(r) == At(r, "logout", "set") =>
  req[r].ttl > 0 /\ now + req[r].ttl * Res > LastSecond(req[r].tok)
PassedLate(r) == req[r].op = "use" /\ req[r].pc \in {"user", "ok"}
Late(r) == r \in logouts.late =>
  /\ req[r].pc # "idle" /\ req[r].tok \in logouts.out
  /\ PassedLate(r) => now >= LastSecond(req[r].tok)

TokensInv ==
  /\ TokensTypeOK
  /\ \A t \in logouts.out : Covered(t)
  /\ \A r \in Requests : Running(r) /\ Reaches(r) /\ Late(r)

Slot == [op : {"none", "use", "logout"},
         pc : {"idle", "decode", "redis", "user", "set", "ok", "refused"},
         tok : Tokens \cup {NoToken}, ttl : Nat]

\* A whole number of seconds in ticks, cut down to seconds, is at most one second short.
LEMMA Truncated ==
  ASSUME NEW a \in Nat
  PROVE  a \div Res \in Nat /\ (a \div Res) * Res > a - Res
BY ResAssumption

LEMMA TicksAreInt ==
  ASSUME NEW s \in Int
  PROVE  s * Res \in Int /\ (s \in Nat => s * Res \in Nat)
BY ResAssumption

LEMMA LastSecondInt ==
  ASSUME TokensTypeOK, NEW t, Issued(t)
  PROVE  exp[t] \in Nat /\ LastSecond(t) \in Int /\ LastSecond(t) = exp[t] * Res - Res
<1>1. exp[t] \in Nat
  BY DEF TokensTypeOK, Issued
<1>. QED BY <1>1, ResAssumption DEF LastSecond

\* The TTL a logout computes reaches the token's last second, however close exp is.
LEMMA TtlReaches ==
  ASSUME TokensTypeOK, NEW t, Issued(t)
  PROVE  Ttl(t) \in Nat /\ Ttl(t) > 0 /\ now + Ttl(t) * Res > LastSecond(t)
<1>. DEFINE left == exp[t] * Res - now
<1>1. exp[t] \in Nat /\ now \in Nat /\ LastSecond(t) = exp[t] * Res - Res /\ Res \in Nat \ {0}
  BY LastSecondInt, ResAssumption, MaxNowAssumption DEF TokensTypeOK
<1>2. left \in Int /\ LastSecond(t) = left + now - Res
  BY <1>1, TicksAreInt
<1>. HIDE DEF left
<1>3. CASE left < Res
  <2>1. Ttl(t) = 1
    BY <1>3 DEF Ttl, left
  <2>. QED BY <1>1, <1>2, <1>3, <2>1
<1>4. CASE ~(left < Res)
  <2>1. Ttl(t) = left \div Res
    BY <1>4 DEF Ttl, left
  <2>2. left \in Nat
    BY <1>1, <1>2, <1>4
  <2>3. Ttl(t) \in Nat /\ Ttl(t) * Res > left - Res
    BY <2>1, <2>2, Truncated
  <2>4. Ttl(t) * Res \in Int /\ (Ttl(t) = 0 => Ttl(t) * Res = 0)
    BY <1>1, <2>3, TicksAreInt
  <2>5. Ttl(t) # 0
    BY <1>1, <1>4, <2>2, <2>3, <2>4
  <2>. HIDE DEF Ttl
  <2>. QED BY <1>1, <1>2, <2>3, <2>4, <2>5
<1>. QED BY <1>3, <1>4

LEMMA TokensInitInv == TokensInit => TokensInv
<1>. SUFFICES ASSUME TokensInit PROVE TokensInv
  OBVIOUS
<1>1. Idle \in Slot
  BY DEF Idle, Slot
<1>2. TokensTypeOK
  <2>1. now \in 0 .. MaxNow
    BY MaxNowAssumption DEF TokensInit
  <2>2. logouts \in [out : SUBSET Tokens, late : SUBSET Requests]
    BY DEF TokensInit
  <2>3. exp \in [Tokens -> Nat \cup {NotIssued}] /\ until \in [Tokens -> Nat \cup {NotIssued}]
    BY DEF TokensInit
  <2>4. req \in [Requests -> Slot]
    BY <1>1 DEF TokensInit
  <2>5. deleted \in BOOLEAN
    BY DEF TokensInit
  <2>. QED BY <2>1, <2>2, <2>3, <2>4, <2>5 DEF TokensTypeOK, Slot
<1>3. logouts.out = {} /\ logouts.late = {} /\ \A r \in Requests : req[r].pc = "idle"
  BY DEF TokensInit, Idle
<1>. QED BY <1>2, <1>3 DEF TokensInv, Running, Reaches, Late, At

\* A step of one request that changes no token but its own.
LEMMA OneRequest ==
  ASSUME TokensInv, TokensTypeOK', NEW r \in Requests, UNCHANGED <<now, exp>>,
         logouts.out \subseteq logouts'.out, \A s \in Requests \ {r} : req'[s] = req[s],
         \A s \in Requests \ {r} : s \in logouts'.late => s \in logouts.late,
         \A t \in logouts'.out : Covered(t)',
         Running(r)', Reaches(r)', Late(r)'
  PROVE  TokensInv'
<1>1. ASSUME NEW s \in Requests \ {r} PROVE Running(s)' /\ Reaches(s)' /\ Late(s)'
  <2>1. Running(s) /\ Reaches(s) /\ Late(s) /\ req'[s] = req[s]
    BY DEF TokensInv
  <2>. QED BY <2>1 DEF Running, Reaches, Late, PassedLate, At, LastSecond, Issued, NotIssued
<1>. QED BY <1>1 DEF TokensInv

\* The steps of one request that leave the blacklist and the history alone.
LEMMA PureInv ==
  ASSUME TokensInv, NEW r \in Requests,
         DecodeForUse(r) \/ CheckBlacklist(r) \/ LoadUser(r) \/ DecodeForLogout(r)
  PROVE  TokensInv'
<1>. DEFINE t == req[r].tok
<1>1. UNCHANGED <<now, exp, until, deleted, logouts>> /\ req[r] \in Slot /\ req[r].pc # "idle"
  BY DEF DecodeForUse, CheckBlacklist, LoadUser, DecodeForLogout, At, TokensInv, TokensTypeOK, Slot
<1>2. Issued(t) /\ Running(r) /\ Reaches(r) /\ Late(r)
  BY <1>1 DEF TokensInv, Running
<1>3. PICK pc \in {"redis", "user", "set", "ok", "refused"}, new \in Slot :
        /\ req' = [req EXCEPT ![r] = new] /\ new.pc = pc /\ new.op = req[r].op /\ new.tok = t
        /\ pc = "set" => new.ttl = Ttl(t)
        /\ new.op = "use" /\ pc = "ok" => req[r].pc = "user"
        /\ new.op = "use" /\ pc = "user" => ~Blacklisted(t)
  <2>1. ASSUME NEW pc \in {"redis", "user", "ok", "refused"}
        PROVE  [req[r] EXCEPT !.pc = pc] \in Slot
    BY <1>1, ZenonT(30) DEF Slot
  <2>2. [req[r] EXCEPT !.pc = "set", !.ttl = Ttl(t)] \in Slot
    BY <1>1, <1>2, TtlReaches, ZenonT(30) DEF Slot, TokensInv
  <2>3. CASE DecodeForUse(r) \/ CheckBlacklist(r) \/ LoadUser(r)
    <3>1. PICK pc \in {"redis", "user", "ok", "refused"} :
            /\ req' = [req EXCEPT ![r] = [req[r] EXCEPT !.pc = pc]]
            /\ pc = "ok" => req[r].pc = "user"
            /\ pc = "user" => ~Blacklisted(t)
      BY <2>3 DEF DecodeForUse, CheckBlacklist, LoadUser, Turn, At
    <3>. DEFINE new == [req[r] EXCEPT !.pc = pc]
    <3>2. new \in Slot /\ new.pc = pc /\ new.op = req[r].op /\ new.tok = t
      BY <1>1, <2>1 DEF Slot
    <3>. HIDE DEF new
    <3>. QED BY <3>1, <3>2 DEF new
  <2>4. CASE DecodeForLogout(r)
    <3>1. CASE ~Valid(t)
      <4>. DEFINE new == [req[r] EXCEPT !.pc = "ok"]
      <4>1. new \in Slot /\ new.pc = "ok" /\ new.op = "logout" /\ req[r].op = "logout" /\ new.tok = t
        BY <1>1, <2>1, <2>4 DEF Slot, DecodeForLogout, At
      <4>2. req' = [req EXCEPT ![r] = new]
        BY <2>4, <3>1 DEF DecodeForLogout, Turn
      <4>. QED BY <4>1, <4>2
    <3>2. CASE Valid(t)
      <4>. DEFINE new == [req[r] EXCEPT !.pc = "set", !.ttl = Ttl(t)]
      <4>1. new \in Slot /\ new.pc = "set" /\ new.op = "logout" /\ req[r].op = "logout"
            /\ new.tok = t /\ new.ttl = Ttl(t)
        BY <1>1, <2>2, <2>4 DEF Slot, DecodeForLogout, At
      <4>2. req' = [req EXCEPT ![r] = new]
        BY <2>4, <3>2 DEF DecodeForLogout
      <4>. QED BY <4>1, <4>2
    <3>. QED BY <3>1, <3>2
  <2>. QED BY <2>3, <2>4
<1>4. req'[r] = new /\ \A s \in Requests \ {r} : req'[s] = req[s]
  BY <1>3 DEF TokensInv, TokensTypeOK
<1>5. TokensTypeOK'
  BY <1>1, <1>3 DEF TokensInv, TokensTypeOK, Slot
<1>6. Running(r)' /\ \A u \in logouts'.out : Covered(u)'
  BY <1>1, <1>2, <1>3, <1>4 DEF TokensInv, Covered, Running, Issued, LastSecond, NotIssued
<1>7. Reaches(r)'
  BY <1>1, <1>2, <1>3, <1>4, TtlReaches DEF TokensInv, Reaches, At, LastSecond
<1>8. Late(r)'
  <2>1. r \in logouts.late => t \in logouts.out /\ (~Blacklisted(t) => now >= LastSecond(t))
    <3>1. ASSUME r \in logouts.late PROVE t \in logouts.out /\ until[t] > LastSecond(t)
      BY <1>2, <3>1 DEF Late, TokensInv, Covered
    <3>2. now \in Int /\ LastSecond(t) \in Int /\ until[t] \in Int
      BY <1>2, LastSecondInt, MaxNowAssumption DEF TokensInv, TokensTypeOK, Issued, NotIssued
    <3>. QED BY <3>1, <3>2 DEF Blacklisted
  <2>2. r \in logouts.late /\ new.op = "use" /\ new.pc \in {"user", "ok"} => now >= LastSecond(t)
    BY <1>2, <1>3, <2>1 DEF Late, PassedLate
  <2>. QED BY <1>1, <1>3, <1>4, <2>1, <2>2 DEF Late, PassedLate, LastSecond
<1>. QED BY <1>1, <1>4, <1>5, <1>6, <1>7, <1>8, OneRequest

\* SET applied: the key of r's token now outlasts the start of its last second.
LEMMA SetCovers ==
  ASSUME TokensInv, NEW r \in Requests, At(r, "logout", "set"), UNCHANGED exp,
         NEW t, t = req[r].tok, until' = [until EXCEPT ![t] = now + req[r].ttl * Res]
  PROVE  /\ until' \in [Tokens -> Nat \cup {NotIssued}]
         /\ Covered(t)'
         /\ \A u \in logouts.out : Covered(u)'
<1>. DEFINE end == now + req[r].ttl * Res
<1>1. Issued(t) /\ end > LastSecond(t)
  BY DEF TokensInv, Running, Reaches, At
<1>2. end \in Nat
  <2>1. req[r].ttl \in Nat /\ now \in Nat
    BY MaxNowAssumption DEF TokensInv, TokensTypeOK
  <2>2. req[r].ttl * Res \in Nat
    BY <2>1, TicksAreInt
  <2>. QED BY <2>1, <2>2
<1>. HIDE DEF end
<1>3. until \in [Tokens -> Nat \cup {NotIssued}] /\ until' = [until EXCEPT ![t] = end]
  BY DEF TokensInv, TokensTypeOK, end
<1>4. Covered(t)'
  BY <1>1, <1>3 DEF Covered, Issued, LastSecond, NotIssued
<1>5. ASSUME NEW u \in logouts.out PROVE Covered(u)'
  <2>1. Covered(u)
    BY DEF TokensInv
  <2>. QED BY <1>3, <1>4, <2>1 DEF Covered, Issued, LastSecond, NotIssued
<1>. QED BY <1>2, <1>3, <1>4, <1>5

\* The steps of one request that write the blacklist, or may have written it.
LEMMA BlacklistInv ==
  ASSUME TokensInv, NEW r \in Requests, SetBlacklist(r) \/ RedisFails(r)
  PROVE  TokensInv'
<1>0. PICK t : t = req[r].tok
  OBVIOUS
<1>1. UNCHANGED <<now, exp, deleted>> /\ req[r] \in Slot /\ req[r].pc # "idle"
  BY DEF SetBlacklist, RedisFails, At, TokensInv, TokensTypeOK, Slot
<1>2. Running(r) /\ Issued(t) /\ Late(r)
  BY <1>0, <1>1 DEF TokensInv, Running
<1>3. PICK pc \in {"ok", "refused"} :
        /\ req' = [req EXCEPT ![r] = [req[r] EXCEPT !.pc = pc]]
        /\ pc = "ok" => req[r].op = "logout"
  BY DEF SetBlacklist, RedisFails, Turn, At
<1>. DEFINE new == [req[r] EXCEPT !.pc = pc]
<1>4. new \in Slot /\ new.pc = pc /\ new.op = req[r].op /\ new.tok = t
  BY <1>0, <1>1, ZenonT(30) DEF Slot
<1>. HIDE DEF new
<1>5. req' = [req EXCEPT ![r] = new] /\ req'[r] = new /\ \A s \in Requests \ {r} : req'[s] = req[s]
  BY <1>3 DEF new, TokensInv, TokensTypeOK
<1>6. CASE UNCHANGED <<until, logouts>>
  <2>1. TokensTypeOK'
    BY <1>1, <1>4, <1>5, <1>6 DEF TokensInv, TokensTypeOK, Slot
  <2>2. \A u \in logouts'.out : Covered(u)'
    BY <1>1, <1>6 DEF TokensInv, Covered, Issued, LastSecond, NotIssued
  <2>3. Running(r)' /\ Reaches(r)' /\ Late(r)'
    BY <1>0, <1>1, <1>2, <1>3, <1>4, <1>5, <1>6 DEF Running, Reaches, At, Late, PassedLate, Issued, NotIssued
  <2>. QED BY <1>1, <1>5, <1>6, <2>1, <2>2, <2>3, OneRequest
<1>7. CASE ~UNCHANGED <<until, logouts>>
  <2>1. /\ At(r, "logout", "set")
        /\ until' = [until EXCEPT ![t] = now + req[r].ttl * Res]
        /\ \/ UNCHANGED logouts
           \/ logouts' = [logouts EXCEPT !.out = @ \cup {t}]
    BY <1>0, <1>7 DEF SetBlacklist, RedisFails
  <2>2. /\ until' \in [Tokens -> Nat \cup {NotIssued}] /\ Covered(t)'
        /\ \A u \in logouts.out : Covered(u)'
    BY <1>0, <1>1, <2>1, SetCovers
  <2>3. /\ logouts'.late = logouts.late /\ logouts.out \subseteq logouts'.out
        /\ logouts'.out \subseteq logouts.out \cup {t}
        /\ logouts' \in [out : SUBSET Tokens, late : SUBSET Requests]
    BY <1>2, <2>1 DEF TokensInv, TokensTypeOK, Issued
  <2>4. TokensTypeOK'
    BY <1>1, <1>4, <1>5, <2>2, <2>3 DEF TokensInv, TokensTypeOK, Slot
  <2>5. Running(r)' /\ Reaches(r)' /\ Late(r)'
    BY <1>0, <1>1, <1>2, <1>3, <1>4, <1>5, <2>1, <2>3
       DEF Running, Reaches, At, Late, PassedLate, Issued, NotIssued
  <2>6. \A u \in logouts'.out : Covered(u)'
    BY <2>2, <2>3
  <2>. QED BY <1>1, <1>5, <2>3, <2>4, <2>5, <2>6, OneRequest
<1>. QED BY <1>6, <1>7

LEMMA BeginFinishInv ==
  ASSUME TokensInv, NEW r \in Requests, Begin(r) \/ Finish(r)
  PROVE  TokensInv'
<1>1. CASE Begin(r)
  <2>1. PICK t \in Tokens, op \in {"use", "logout"} :
          /\ req[r].pc = "idle" /\ exp[t] # NotIssued
          /\ req' = [req EXCEPT ![r] = [Idle EXCEPT !.op = op, !.pc = "decode", !.tok = t]]
          /\ logouts' = [logouts EXCEPT !.late = IF t \in logouts.out THEN @ \cup {r} ELSE @]
          /\ UNCHANGED <<now, exp, until, deleted>>
    BY <1>1 DEF Begin
  <2>. DEFINE new == [Idle EXCEPT !.op = op, !.pc = "decode", !.tok = t]
  <2>2. new \in Slot /\ new.op = op /\ new.pc = "decode" /\ new.tok = t
    BY ZenonT(30) DEF Idle, Slot
  <2>. HIDE DEF new
  <2>3. req' = [req EXCEPT ![r] = new] /\ req'[r] = new /\ \A s \in Requests \ {r} : req'[s] = req[s]
    BY <2>1 DEF new, TokensInv, TokensTypeOK
  <2>4. /\ logouts'.out = logouts.out /\ logouts'.late \subseteq logouts.late \cup {r}
        /\ logouts' \in [out : SUBSET Tokens, late : SUBSET Requests]
        /\ r \in logouts'.late => t \in logouts.out \/ r \in logouts.late
    BY <2>1 DEF TokensInv, TokensTypeOK
  <2>5. TokensTypeOK'
    BY <2>1, <2>2, <2>3, <2>4 DEF TokensInv, TokensTypeOK, Slot
  <2>6. r \notin logouts.late
    BY <2>1 DEF TokensInv, Late
  <2>7. Running(r)' /\ Reaches(r)' /\ Late(r)'
    BY <2>1, <2>2, <2>3, <2>4, <2>6 DEF Running, Reaches, At, Late, PassedLate, Issued, NotIssued
  <2>8. \A u \in logouts'.out : Covered(u)'
    BY <2>1, <2>4 DEF TokensInv, Covered, Issued, LastSecond, NotIssued
  <2>. QED BY <2>1, <2>3, <2>4, <2>5, <2>7, <2>8, OneRequest
<1>2. CASE Finish(r)
  <2>1. Idle \in Slot
    BY DEF Idle, Slot
  <2>2. /\ req' = [req EXCEPT ![r] = Idle] /\ req'[r] = Idle
        /\ \A s \in Requests \ {r} : req'[s] = req[s]
        /\ UNCHANGED <<now, exp, until, deleted>>
    BY <1>2 DEF Finish, TokensInv, TokensTypeOK
  <2>3. /\ logouts'.out = logouts.out /\ logouts'.late = logouts.late \ {r}
        /\ logouts' \in [out : SUBSET Tokens, late : SUBSET Requests]
    BY <1>2 DEF Finish, TokensInv, TokensTypeOK
  <2>4. TokensTypeOK'
    BY <2>1, <2>2, <2>3 DEF TokensInv, TokensTypeOK, Slot
  <2>5. Running(r)' /\ Reaches(r)' /\ Late(r)'
    BY <2>2, <2>3 DEF Running, Reaches, At, Late, Idle
  <2>6. \A u \in logouts'.out : Covered(u)'
    BY <2>2, <2>3 DEF TokensInv, Covered, Issued, LastSecond, NotIssued
  <2>. QED BY <2>2, <2>3, <2>4, <2>5, <2>6, OneRequest
<1>. QED BY <1>1, <1>2

\* A token is issued: no request and no logout knew it.
LEMMA IssueInv ==
  ASSUME TokensInv, NEW t \in Tokens, Issue(t)
  PROVE  TokensInv'
<1>. DEFINE e == (now + Life * Res) \div Res
<1>1. exp[t] = NotIssued /\ exp' = [exp EXCEPT ![t] = e] /\ UNCHANGED <<now, until, deleted, req, logouts>>
  BY DEF Issue
<1>2. e \in Nat
  <2>1. now \in Nat /\ Life * Res \in Nat
    BY TicksAreInt, LifeAssumption, MaxNowAssumption DEF TokensInv, TokensTypeOK
  <2>. QED BY <2>1, Truncated
<1>. HIDE DEF e
<1>3. exp'[t] = e /\ e # NotIssued /\ \A u \in Tokens \ {t} : exp'[u] = exp[u]
  BY <1>1, <1>2 DEF TokensInv, TokensTypeOK, NotIssued
<1>4. TokensTypeOK'
  BY <1>1, <1>2 DEF TokensInv, TokensTypeOK
<1>5. \A u : Issued(u) => u # t /\ Issued(u)' /\ exp'[u] = exp[u]
  BY <1>1, <1>3 DEF Issued, NotIssued
<1>6. ASSUME NEW u \in logouts.out PROVE Covered(u)'
  <2>1. Covered(u)
    BY DEF TokensInv
  <2>. QED BY <1>1, <1>5, <2>1 DEF Covered, LastSecond
<1>7. ASSUME NEW r \in Requests PROVE Running(r)' /\ Reaches(r)' /\ Late(r)'
  <2>1. Running(r) /\ Reaches(r) /\ Late(r)
    BY DEF TokensInv
  <2>2. req[r].pc # "idle" => Issued(req[r].tok)' /\ exp'[req[r].tok] = exp[req[r].tok]
    BY <1>1, <1>5, <2>1 DEF Running
  <2>. QED BY <1>1, <2>1, <2>2 DEF Running, Reaches, Late, PassedLate, At, LastSecond
<1>. QED BY <1>1, <1>4, <1>6, <1>7 DEF TokensInv

\* Time passes, or the account goes: what held at an instant holds at a later one.
LEMMA TickDeleteInv ==
  ASSUME TokensInv, Tick \/ DeleteAccount
  PROVE  TokensInv'
<1>1. UNCHANGED <<exp, until, req, logouts>> /\ TokensTypeOK' /\ now \in Nat /\ now' \in Nat /\ now' >= now
  <2>1. UNCHANGED <<exp, until, req, logouts>> /\ now \in 0 .. MaxNow /\ deleted' \in BOOLEAN
    BY DEF Tick, DeleteAccount, TokensInv, TokensTypeOK
  <2>2. now' = now \/ (now' = now + 1 /\ now < MaxNow)
    BY DEF Tick, DeleteAccount
  <2>3. now' \in 0 .. MaxNow /\ now' >= now
    BY <2>1, <2>2, MaxNowAssumption
  <2>. QED BY <2>1, <2>3, MaxNowAssumption DEF TokensInv, TokensTypeOK
<1>2. \A u \in logouts'.out : Covered(u)'
  BY <1>1 DEF TokensInv, Covered, Issued, LastSecond, NotIssued
<1>3. ASSUME NEW r \in Requests PROVE Running(r)' /\ Reaches(r)' /\ Late(r)'
  <2>1. Running(r) /\ Reaches(r) /\ Late(r)
    BY DEF TokensInv
  <2>2. req[r].pc # "idle" => LastSecond(req[r].tok) \in Int
    BY <2>1, LastSecondInt DEF TokensInv, Running
  <2>3. req[r].ttl * Res \in Int
    BY TicksAreInt DEF TokensInv, TokensTypeOK
  <2>4. Running(r)'
    BY <1>1, <2>1 DEF Running, Issued, NotIssued
  <2>5. UNCHANGED LastSecond(req[r].tok)
    BY <1>1 DEF LastSecond
  <2>6. Reaches(r)'
    BY <1>1, <2>1, <2>2, <2>3, <2>5 DEF Reaches, At
  <2>7. Late(r)'
    BY <1>1, <2>1, <2>2, <2>5 DEF Late, PassedLate
  <2>. QED BY <2>4, <2>6, <2>7
<1>. QED BY <1>1, <1>2, <1>3 DEF TokensInv

LEMMA TokensNextInv == TokensInv /\ [TokensNext]_tokenVars => TokensInv'
<1>1. ASSUME TokensInv, UNCHANGED tokenVars PROVE TokensInv'
  BY <1>1 DEF tokenVars, TokensInv, TokensTypeOK, Covered, Running, Reaches, Late, PassedLate, At,
              LastSecond, Issued, NotIssued
<1>. QED BY <1>1, PureInv, BlacklistInv, BeginFinishInv, IssueInv, TickDeleteInv DEF TokensNext, Serve

\* The inductive invariant of AccessTokens holds in every reachable state, for any tokens,
\* requests, resolution of the clock and lifetime of a token.
THEOREM TokensInvariance == TokensSpec => []TokensInv
BY TokensInitInv, TokensNextInv, PTL DEF TokensSpec

\* Every reachable state of AccessTokens is well typed: the TTL a logout computes from the
\* remaining time is a whole number of seconds, never a negative one.
THEOREM TokensTypeCorrect == TokensSpec => []TokensTypeOK
BY TokensInvariance, PTL DEF TokensInv

\* A request that begins after a logout has answered passes only in the last second of its
\* token's life or later.
THEOREM LogoutHolds == TokensSpec => []LoggedOutRefused
<1>1. TokensInv => LoggedOutRefused
  <2>. SUFFICES ASSUME TokensInv, NEW r \in logouts.late, At(r, "use", "ok")
                PROVE  now >= (exp[req[r].tok] - 1) * Res
    BY DEF LoggedOutRefused
  <2>1. r \in Requests
    BY DEF TokensInv, TokensTypeOK
  <2>. QED BY <2>1 DEF TokensInv, Late, PassedLate, At, LastSecond
<1>. QED BY <1>1, TokensInvariance, PTL

\* The TTL a logout sends with its SET is at least a second: Redis refuses one of zero.
THEOREM TtlPositive == TokensSpec => []TtlAccepted
<1>1. TokensInv => TtlAccepted
  BY DEF TokensInv, Reaches, TtlAccepted
<1>. QED BY <1>1, TokensInvariance, PTL

\* A token a logout has answered for stays blacklisted until its last second begins.
THEOREM BlacklistReaches ==
  TokensSpec => [](\A t \in logouts.out : now < LastSecond(t) => Blacklisted(t))
<1>1. ASSUME TokensInv, NEW t \in logouts.out, now < LastSecond(t) PROVE Blacklisted(t)
  <2>1. Covered(t) /\ LastSecond(t) \in Int /\ now \in Int /\ until[t] \in Int
    BY <1>1, LastSecondInt, MaxNowAssumption DEF TokensInv, TokensTypeOK, Covered, Issued, NotIssued
  <2>. QED BY <1>1, <2>1 DEF Covered, Blacklisted
<1>2. TokensInv => \A t \in logouts.out : now < LastSecond(t) => Blacklisted(t)
  BY <1>1
<1>. QED BY <1>2, TokensInvariance, PTL

-----------------------------------------------------------------------------
(* The limiter.  Only the request whose INCR created a key is about to     *)
(* send EXPIRE, and until it does the key has no time to live (Pending,    *)
(* Single); so no EXPIRE meets a window that runs.  The requests between   *)
(* their INCR and the comparison that will pass it hold a claim on the     *)
(* budget: those and the ones admitted are never more than the count, nor  *)
(* more than the limit, and while there is no fault never fewer than the   *)
(* smaller of the two (Budget).                                            *)

Fresh(c) == count[c] = 0 => ttl[c] = Forever /\ admitted[c] = 0
Expires(r, c) == Key(r) = c /\ CallAt(r, "expire")
Pending(c) == \A r \in Calls : Expires(r, c) => count[c] > 0 /\ ttl[c] = Forever
Single(c) == \A r, s \in Calls : Expires(r, c) /\ Expires(s, c) => r = s
KeyInv(c) == Fresh(c) /\ Pending(c) /\ Single(c) /\ WillExpire(c)

HasClaim(r, c) ==
  Key(r) = c /\ call[r].pc \in {"expire", "decide"} /\ ~call[r].old /\ call[r].n <= Limit
Claims(c) == {r \in Calls : HasClaim(r, c)}
Spent(c) == admitted[c] + Cardinality(Claims(c))
Budget(c) ==
  /\ IsFiniteSet(Claims(c))
  /\ Spent(c) <= count[c] /\ Spent(c) <= Limit
  /\ faults = 0 => Spent(c) >= count[c] \/ Spent(c) >= Limit

LimiterInv == LimiterTypeOK /\ \A c \in Clients : KeyInv(c) /\ Budget(c)

CallRec == [pc : PCs, client : Clients, n : Nat, old : BOOLEAN]

\* A step that changes the program counter of one request and nothing else of any.
LEMMA Moved ==
  ASSUME LimiterTypeOK, NEW r \in Calls, NEW pc \in PCs, CallGoto(r, pc)
  PROVE  /\ call' \in [Calls -> CallRec]
         /\ call'[r].pc = pc /\ call'[r].client = call[r].client
         /\ call'[r].n = call[r].n /\ call'[r].old = call[r].old
         /\ \A s \in Calls \ {r} : call'[s] = call[s]
<1>. DEFINE new == [call[r] EXCEPT !.pc = pc]
<1>1. call \in [Calls -> CallRec] /\ call[r] \in CallRec
  BY DEF LimiterTypeOK, CallRec
<1>2. new \in CallRec /\ new.pc = pc /\ new.client = call[r].client /\ new.n = call[r].n /\ new.old = call[r].old
  BY <1>1, ZenonT(30) DEF CallRec
<1>3. call' = [call EXCEPT ![r] = new]
  BY DEF CallGoto
<1>. HIDE DEF new
<1>. QED BY <1>1, <1>2, <1>3

\* One request gives up what claim it had, the one that is admitted to count as admitted.
LEMMA ClaimDropped ==
  ASSUME LimiterInv, NEW r \in Calls, \A s \in Calls \ {r} : call'[s] = call[s],
         NEW d \in Clients, ~HasClaim(r, d)', count'[d] \in Nat, count'[d] >= count[d],
         admitted'[d] = admitted[d] \/ (HasClaim(r, d) /\ admitted'[d] = admitted[d] + 1),
         faults' = 0 => /\ faults = 0
                        /\ HasClaim(r, d) => admitted'[d] = admitted[d] + 1
                        /\ count'[d] = count[d] \/ count[d] >= Limit
  PROVE  Budget(d)'
<1>1. /\ IsFiniteSet(Claims(d)) /\ Cardinality(Claims(d)) \in Nat
      /\ admitted[d] \in Nat /\ count[d] \in Nat /\ Limit \in Nat
      /\ admitted[d] + Cardinality(Claims(d)) <= count[d]
      /\ admitted[d] + Cardinality(Claims(d)) <= Limit
      /\ faults = 0 => \/ admitted[d] + Cardinality(Claims(d)) >= count[d]
                       \/ admitted[d] + Cardinality(Claims(d)) >= Limit
  BY FS_CardinalityType, LimitAssumption DEF LimiterInv, LimiterTypeOK, Budget, Spent
<1>2. Claims(d)' = Claims(d) \ {r}
  BY DEF Claims, HasClaim, Key
<1>3. CASE HasClaim(r, d)
  <2>1. r \in Claims(d)
    BY <1>3 DEF Claims
  <2>2. IsFiniteSet(Claims(d)') /\ Cardinality(Claims(d)') = Cardinality(Claims(d)) - 1
    BY <1>1, <1>2, <2>1, FS_RemoveElement
  <2>. QED BY <1>1, <1>3, <2>2 DEF Budget, Spent
<1>4. CASE ~HasClaim(r, d)
  <2>1. Claims(d)' = Claims(d)
    BY <1>2, <1>4 DEF Claims
  <2>. QED BY <1>1, <1>4, <2>1 DEF Budget, Spent
<1>. QED BY <1>3, <1>4

\* One INCR that stays within the limit adds its request's claim, and one to the count.
LEMMA ClaimAdded ==
  ASSUME LimiterInv, NEW r \in Calls, \A s \in Calls \ {r} : call'[s] = call[s],
         NEW d \in Clients, ~HasClaim(r, d), HasClaim(r, d)', UNCHANGED <<admitted, faults>>,
         count'[d] = count[d] + 1, count'[d] <= Limit
  PROVE  Budget(d)'
<1>1. /\ IsFiniteSet(Claims(d)) /\ Cardinality(Claims(d)) \in Nat
      /\ admitted[d] \in Nat /\ count[d] \in Nat /\ Limit \in Nat
      /\ admitted[d] + Cardinality(Claims(d)) <= count[d]
      /\ faults = 0 => \/ admitted[d] + Cardinality(Claims(d)) >= count[d]
                       \/ admitted[d] + Cardinality(Claims(d)) >= Limit
  BY FS_CardinalityType, LimitAssumption DEF LimiterInv, LimiterTypeOK, Budget, Spent
<1>2. Claims(d)' = Claims(d) \cup {r} /\ r \notin Claims(d)
  BY DEF Claims, HasClaim, Key
<1>3. IsFiniteSet(Claims(d)') /\ Cardinality(Claims(d)') = Cardinality(Claims(d)) + 1
  BY <1>1, <1>2, FS_AddElement
<1>. QED BY <1>1, <1>3 DEF Budget, Spent

\* A client that a step does not touch keeps its budget, and its claims.
LEMMA ClaimsKept ==
  ASSUME LimiterInv, NEW r \in Calls, \A s \in Calls \ {r} : call'[s] = call[s],
         NEW d \in Clients, HasClaim(r, d)' <=> HasClaim(r, d),
         count'[d] = count[d], admitted'[d] = admitted[d], faults' = 0 => faults = 0
  PROVE  Budget(d)'
<1>1. Claims(d)' = Claims(d)
  BY DEF Claims, HasClaim, Key
<1>. QED BY <1>1 DEF LimiterInv, Budget, Spent

LEMMA ClaimCounted ==
  ASSUME LimiterInv, NEW r \in Calls, NEW d \in Clients, HasClaim(r, d)
  PROVE  count[d] > 0
<1>1. /\ IsFiniteSet(Claims(d)) /\ Cardinality(Claims(d)) \in Nat
      /\ admitted[d] \in Nat /\ count[d] \in Nat
      /\ admitted[d] + Cardinality(Claims(d)) <= count[d]
  BY FS_CardinalityType DEF LimiterInv, LimiterTypeOK, Budget, Spent
<1>2. Claims(d) # {}
  BY DEF Claims
<1>3. Cardinality(Claims(d)) # 0
  BY <1>1, <1>2, FS_EmptySet
<1>. QED BY <1>1, <1>3

\* Three ways a step can leave the key of a client: as it was, counted once more, or with
\* its EXPIRE sent or lost.
LEMMA KeyKept ==
  ASSUME LimiterInv, NEW r \in Calls, \A s \in Calls \ {r} : call'[s] = call[s],
         NEW d \in Clients, Expires(r, d)' <=> Expires(r, d), count'[d] = count[d],
         ttl'[d] = ttl[d], admitted'[d] = admitted[d] \/ count[d] # 0,
         d \in orphaned => d \in orphaned'
  PROVE  KeyInv(d)'
<1>1. \A s \in Calls : Expires(s, d)' <=> Expires(s, d)
  BY DEF Expires, Key, CallAt
<1>2. KeyInv(d)
  BY DEF LimiterInv
<1>3. \A s \in Calls : (Key(s) = d /\ CallAt(s, "expire"))' <=> (Key(s) = d /\ CallAt(s, "expire"))
  BY <1>1 DEF Expires
<1>4. Fresh(d)' /\ Pending(d)' /\ Single(d)'
  BY <1>1, <1>2 DEF KeyInv, Fresh, Pending, Single, Forever
<1>5. WillExpire(d)'
  BY <1>2, <1>3 DEF KeyInv, WillExpire, Forever
<1>. QED BY <1>4, <1>5 DEF KeyInv

LEMMA KeyCounted ==
  ASSUME LimiterInv, NEW r \in Calls, \A s \in Calls \ {r} : call'[s] = call[s],
         NEW c \in Clients, ~Expires(r, c), count'[c] = count[c] + 1, ttl'[c] = ttl[c],
         c \in orphaned => c \in orphaned',
         IF count[c] = 0 THEN Expires(r, c)' \/ c \in orphaned' ELSE ~Expires(r, c)'
  PROVE  KeyInv(c)'
<1>1. count[c] \in Nat /\ KeyInv(c)
  BY DEF LimiterInv, LimiterTypeOK
<1>2. \A s \in Calls \ {r} : Expires(s, c)' <=> Expires(s, c)
  BY DEF Expires, Key, CallAt
<1>3. Fresh(c)'
  BY <1>1 DEF Fresh
<1>4. CASE count[c] = 0
  <2>1. ttl[c] = Forever /\ \A s \in Calls \ {r} : ~Expires(s, c)'
    BY <1>1, <1>2, <1>4 DEF KeyInv, Fresh, Pending
  <2>2. Pending(c)' /\ Single(c)'
    BY <1>1, <1>4, <2>1 DEF Pending, Single, Forever
  <2>3. WillExpire(c)'
    BY <1>4 DEF WillExpire, Expires
  <2>. QED BY <1>3, <2>2, <2>3 DEF KeyInv
<1>5. CASE count[c] # 0
  <2>1. \A s \in Calls : Expires(s, c)' <=> Expires(s, c)
    BY <1>2, <1>5
  <2>2. Pending(c)' /\ Single(c)'
    BY <1>1, <1>5, <2>1 DEF KeyInv, Pending, Single, Forever
  <2>3. WillExpire(c) /\ (count[c] > 0)
    BY <1>1, <1>5 DEF KeyInv
  <2>4. WillExpire(c)'
    BY <2>1, <2>3 DEF WillExpire, Expires, Forever
  <2>. QED BY <1>3, <2>2, <2>4 DEF KeyInv
<1>. QED BY <1>4, <1>5

LEMMA KeyExpires ==
  ASSUME LimiterInv, NEW r \in Calls, \A s \in Calls \ {r} : call'[s] = call[s],
         NEW c \in Clients, Expires(r, c), ~Expires(r, c)', count'[c] = count[c],
         ttl'[c] = Window \/ (ttl'[c] = ttl[c] /\ c \in orphaned')
  PROVE  KeyInv(c)'
<1>1. count[c] \in Nat /\ KeyInv(c) /\ count[c] > 0
  BY DEF LimiterInv, LimiterTypeOK, KeyInv, Pending
<1>2. \A s \in Calls : ~Expires(s, c)'
  BY <1>1 DEF KeyInv, Single, Expires, Key, CallAt
<1>3. Fresh(c)' /\ Pending(c)' /\ Single(c)'
  BY <1>1, <1>2 DEF Fresh, Pending, Single
<1>4. WillExpire(c)'
  BY WindowAssumption DEF WillExpire, Forever
<1>. QED BY <1>3, <1>4 DEF KeyInv

\* A step of one request touches the key of its own client only.
LEMMA OneCall ==
  ASSUME LimiterInv, LimiterTypeOK', NEW r \in Calls,
         \A s \in Calls \ {r} : call'[s] = call[s],
         NEW c \in Clients, call[r].client = c, call'[r].client = c, orphaned \subseteq orphaned',
         faults' = 0 => faults = 0,
         \A d \in Clients \ {c} :
           count'[d] = count[d] /\ ttl'[d] = ttl[d] /\ admitted'[d] = admitted[d],
         KeyInv(c)', Budget(c)'
  PROVE  LimiterInv'
<1>1. ASSUME NEW d \in Clients \ {c} PROVE KeyInv(d)' /\ Budget(d)'
  <2>1. ~Expires(r, d) /\ ~Expires(r, d)' /\ ~HasClaim(r, d) /\ ~HasClaim(r, d)'
    BY DEF Expires, HasClaim, Key
  <2>2. KeyInv(d)'
    BY <2>1, KeyKept
  <2>3. Budget(d)'
    BY <2>1, ClaimsKept
  <2>. QED BY <2>2, <2>3
<1>. QED BY <1>1 DEF LimiterInv

LEMMA LimiterInitInv == LimiterInit => LimiterInv
<1>. SUFFICES ASSUME LimiterInit PROVE LimiterInv
  OBVIOUS
<1>1. \A r \in Calls : call[r] \in CallRec /\ call[r].pc = "idle"
  BY DEF LimiterInit, NoCall, CallRec, PCs
<1>2. call \in [Calls -> CallRec]
  BY <1>1 DEF LimiterInit
<1>3. /\ count \in [Clients -> Nat] /\ admitted \in [Clients -> Nat]
      /\ ttl \in [Clients -> (1 .. Window) \cup {Forever}]
  BY DEF LimiterInit
<1>4. faults \in 0 .. MaxCallFaults /\ orphaned \subseteq Clients
  BY MaxCallFaultsAssumption DEF LimiterInit
<1>5. LimiterTypeOK
  BY <1>2, <1>3, <1>4 DEF LimiterTypeOK, CallRec
<1>6. ASSUME NEW c \in Clients PROVE KeyInv(c) /\ Budget(c)
  <2>1. count[c] = 0 /\ ttl[c] = Forever /\ admitted[c] = 0
    BY DEF LimiterInit
  <2>2. KeyInv(c)
    BY <1>1, <2>1 DEF KeyInv, Fresh, Pending, Single, WillExpire, Expires, CallAt
  <2>3. Claims(c) = {}
    BY <1>1 DEF Claims, HasClaim
  <2>. QED BY <2>1, <2>2, <2>3, FS_EmptySet, LimitAssumption DEF Budget, Spent
<1>. QED BY <1>5, <1>6 DEF LimiterInv

\* A request arrives, or is answered: it holds no claim and sends no EXPIRE.
LEMMA ArriveFinishInv ==
  ASSUME LimiterInv, NEW r \in Calls, Arrive(r) \/ CallFinish(r)
  PROVE  LimiterInv'
<1>1. PICK new \in CallRec :
        /\ call' = [call EXCEPT ![r] = new] /\ new.pc \in {"idle", "incr", "passed"}
        /\ call[r].pc \in {"idle", "passed", "refused"}
        /\ UNCHANGED <<count, ttl, admitted, faults, orphaned>>
  <2>1. ASSUME NEW c \in Clients, NEW pc \in {"incr", "passed"}
        PROVE  /\ [NoCall(c) EXCEPT !.pc = pc] \in CallRec /\ [NoCall(c) EXCEPT !.pc = pc].pc = pc
               /\ NoCall(c) \in CallRec /\ NoCall(c).pc = "idle"
    BY ZenonT(30) DEF NoCall, CallRec, PCs
  <2>2. CASE Arrive(r)
    <3>1. PICK c \in Clients, pc \in {"incr", "passed"} :
            call' = [call EXCEPT ![r] = [NoCall(c) EXCEPT !.pc = pc]]
      BY <2>2 DEF Arrive
    <3>. DEFINE new == [NoCall(c) EXCEPT !.pc = pc]
    <3>2. new \in CallRec /\ new.pc = pc /\ call' = [call EXCEPT ![r] = new]
      BY <2>1, <3>1
    <3>. HIDE DEF new
    <3>. QED BY <2>2, <3>2 DEF Arrive, CallAt
  <2>3. CASE CallFinish(r)
    <3>1. Key(r) \in Clients
      BY DEF Key, LimiterInv, LimiterTypeOK
    <3>2. NoCall(Key(r)) \in CallRec /\ NoCall(Key(r)).pc = "idle"
      BY <2>1, <3>1
    <3>. QED BY <2>3, <3>2 DEF CallFinish
  <2>. QED BY <2>2, <2>3
<1>2. call'[r] = new /\ \A s \in Calls \ {r} : call'[s] = call[s]
  BY <1>1 DEF LimiterInv, LimiterTypeOK
<1>3. LimiterTypeOK'
  BY <1>1 DEF LimiterInv, LimiterTypeOK, CallRec
<1>4. ASSUME NEW d \in Clients PROVE KeyInv(d)' /\ Budget(d)'
  <2>1. ~Expires(r, d) /\ ~Expires(r, d)' /\ ~HasClaim(r, d) /\ ~HasClaim(r, d)'
    BY <1>1, <1>2 DEF Expires, CallAt, HasClaim
  <2>2. KeyInv(d)'
    BY <1>1, <1>2, <2>1, KeyKept
  <2>3. Budget(d)'
    BY <1>1, <1>2, <2>1, ClaimsKept
  <2>. QED BY <2>2, <2>3
<1>. QED BY <1>3, <1>4 DEF LimiterInv

LEMMA IncrInv ==
  ASSUME LimiterInv, NEW r \in Calls, Incr(r)
  PROVE  LimiterInv'
<1>0. PICK c \in Clients : c = call[r].client
  BY DEF LimiterInv, LimiterTypeOK
<1>. DEFINE m == count[c] + 1
            pc == IF m = 1 THEN "expire" ELSE "decide"
            new == [call[r] EXCEPT !.pc = pc, !.n = m, !.old = FALSE]
<1>1. c \in Clients /\ count[c] \in Nat /\ m \in Nat /\ call[r] \in CallRec /\ call[r].pc = "incr"
  BY <1>0 DEF Incr, CallAt, LimiterInv, LimiterTypeOK, CallRec
<1>2. pc \in {"expire", "decide"} /\ (pc = "expire" <=> count[c] = 0)
  BY <1>1
<1>3. count' = [count EXCEPT ![c] = m] /\ call' = [call EXCEPT ![r] = new]
      /\ UNCHANGED <<ttl, admitted, faults, orphaned>>
  BY <1>0 DEF Incr, Increment, Key, StartsWindow
<1>. HIDE DEF pc
<1>4. new \in CallRec /\ new.pc = pc /\ new.n = m /\ new.old = FALSE /\ new.client = c
  BY <1>0, <1>1, <1>2, ZenonT(30) DEF CallRec, PCs
<1>. HIDE DEF new
<1>5. call'[r] = new /\ \A s \in Calls \ {r} : call'[s] = call[s]
  BY <1>3 DEF LimiterInv, LimiterTypeOK
<1>6. count'[c] = m /\ \A d \in Clients \ {c} : count'[d] = count[d]
  BY <1>1, <1>3 DEF LimiterInv, LimiterTypeOK
<1>7. LimiterTypeOK'
  BY <1>1, <1>3, <1>4 DEF LimiterInv, LimiterTypeOK, CallRec
<1>8. ~Expires(r, c) /\ ~HasClaim(r, c) /\ (Expires(r, c)' <=> count[c] = 0)
  BY <1>0, <1>1, <1>2, <1>4, <1>5 DEF Expires, HasClaim, Key, CallAt
<1>9. KeyInv(c)'
  BY <1>1, <1>3, <1>5, <1>6, <1>8, KeyCounted
<1>10. Budget(c)'
  <2>1. HasClaim(r, c)' <=> m <= Limit
    BY <1>2, <1>4, <1>5 DEF HasClaim, Key
  <2>2. CASE m <= Limit
    BY <1>1, <1>3, <1>5, <1>6, <1>8, <2>1, <2>2, ClaimAdded
  <2>3. CASE ~(m <= Limit)
    <3>1. count[c] >= Limit
      BY <1>1, <2>3, LimitAssumption
    <3>. QED BY <1>1, <1>3, <1>5, <1>6, <1>8, <2>1, <2>3, <3>1, ClaimDropped
  <2>. QED BY <2>2, <2>3
<1>. QED BY <1>0, <1>1, <1>3, <1>4, <1>5, <1>6, <1>7, <1>9, <1>10, OneCall

LEMMA ExpireInv ==
  ASSUME LimiterInv, NEW r \in Calls, Expire(r)
  PROVE  LimiterInv'
<1>1. PICK c \in Clients : c = call[r].client
  BY DEF LimiterInv, LimiterTypeOK
<1>2. CallGoto(r, "decide") /\ call[r].pc = "expire" /\ "decide" \in PCs
      /\ ttl' = [ttl EXCEPT ![c] = Window] /\ UNCHANGED <<count, admitted, faults, orphaned>>
  BY <1>1 DEF Expire, SetTtl, CallAt, Key, PCs
<1>3. /\ call' \in [Calls -> CallRec]
      /\ call'[r].pc = "decide" /\ call'[r].client = c
      /\ call'[r].n = call[r].n /\ call'[r].old = call[r].old
      /\ \A s \in Calls \ {r} : call'[s] = call[s]
  BY <1>1, <1>2, Moved DEF LimiterInv
<1>4. ttl'[c] = Window /\ \A d \in Clients \ {c} : ttl'[d] = ttl[d]
  BY <1>2 DEF LimiterInv, LimiterTypeOK
<1>5. LimiterTypeOK'
  BY <1>2, <1>3, WindowAssumption DEF LimiterInv, LimiterTypeOK, CallRec
<1>6. Expires(r, c) /\ ~Expires(r, c)' /\ (HasClaim(r, c)' <=> HasClaim(r, c))
  BY <1>1, <1>2, <1>3 DEF Expires, HasClaim, Key, CallAt
<1>7. KeyInv(c)'
  BY <1>2, <1>3, <1>4, <1>6, KeyExpires
<1>8. Budget(c)'
  BY <1>2, <1>3, <1>6, ClaimsKept
<1>. QED BY <1>1, <1>2, <1>3, <1>4, <1>5, <1>7, <1>8, OneCall

LEMMA DecideInv ==
  ASSUME LimiterInv, NEW r \in Calls, Decide(r)
  PROVE  LimiterInv'
<1>1. PICK c \in Clients : c = call[r].client
  BY DEF LimiterInv, LimiterTypeOK
<1>2. PICK pc \in {"passed", "refused"} :
        /\ CallGoto(r, pc) /\ call[r].pc = "decide" /\ UNCHANGED <<count, ttl, faults, orphaned>>
        /\ IF call[r].n <= Limit /\ ~call[r].old
           THEN admitted' = [admitted EXCEPT ![c] = admitted[c] + 1]
           ELSE UNCHANGED admitted
  <2>1. call[r].n \in Nat /\ call[r].old \in BOOLEAN
    BY DEF LimiterInv, LimiterTypeOK
  <2>2. CASE OverLimit(call[r].n)
    BY <2>1, <2>2, LimitAssumption DEF Decide, CallAt, OverLimit
  <2>3. CASE ~OverLimit(call[r].n) /\ call[r].old
    <3>1. admitted' = [admitted EXCEPT ![c] = admitted[c]] /\ CallGoto(r, "passed")
      BY <1>1, <2>3 DEF Decide, Key
    <3>2. UNCHANGED admitted
      BY <3>1 DEF LimiterInv, LimiterTypeOK
    <3>. QED BY <2>3, <3>1, <3>2 DEF Decide, CallAt
  <2>4. CASE ~OverLimit(call[r].n) /\ ~call[r].old
    <3>1. call[r].n <= Limit
      BY <2>1, <2>4, LimitAssumption DEF OverLimit
    <3>2. admitted' = [admitted EXCEPT ![c] = admitted[c] + 1] /\ CallGoto(r, "passed")
      BY <1>1, <2>4 DEF Decide, Key
    <3>. QED BY <2>4, <3>1, <3>2 DEF Decide, CallAt
  <2>. QED BY <2>1, <2>2, <2>3, <2>4
<1>3. /\ call' \in [Calls -> CallRec]
      /\ call'[r].pc = pc /\ call'[r].client = c
      /\ \A s \in Calls \ {r} : call'[s] = call[s]
  BY <1>1, <1>2, Moved DEF LimiterInv, PCs
<1>4. \/ ~HasClaim(r, c) /\ UNCHANGED admitted
      \/ /\ HasClaim(r, c) /\ admitted'[c] = admitted[c] + 1
         /\ \A d \in Clients \ {c} : admitted'[d] = admitted[d]
  BY <1>1, <1>2 DEF HasClaim, Key, LimiterInv, LimiterTypeOK
<1>5. LimiterTypeOK'
  <2>1. admitted' \in [Clients -> Nat]
    BY <1>2 DEF LimiterInv, LimiterTypeOK
  <2>. QED BY <1>2, <1>3, <2>1 DEF LimiterInv, LimiterTypeOK, CallRec
<1>6. ~Expires(r, c) /\ ~Expires(r, c)' /\ ~HasClaim(r, c)'
  BY <1>2, <1>3 DEF Expires, HasClaim, CallAt
<1>7. admitted'[c] = admitted[c] \/ count[c] # 0
  <2>1. count[c] \in Nat
    BY DEF LimiterInv, LimiterTypeOK
  <2>. QED BY <1>4, <2>1, ClaimCounted
<1>8. KeyInv(c)'
  BY <1>2, <1>3, <1>6, <1>7, KeyKept
<1>9. Budget(c)'
  <2>1. count'[c] \in Nat /\ count'[c] >= count[c]
    BY <1>2 DEF LimiterInv, LimiterTypeOK
  <2>. QED BY <1>2, <1>3, <1>4, <1>6, <2>1, ClaimDropped
<1>. QED BY <1>1, <1>2, <1>3, <1>4, <1>5, <1>8, <1>9, OneCall

\* A Redis error or a dead worker, before or after Redis has applied the command.
LEMMA LimiterFaultInv ==
  ASSUME LimiterInv, NEW r \in Calls, CallFails(r) \/ CallDies(r)
  PROVE  LimiterInv'
<1>1. PICK c \in Clients : c = call[r].client
  BY DEF LimiterInv, LimiterTypeOK
<1>2. PICK pc \in {"passed", "idle"} :
        /\ CallGoto(r, pc) /\ LeftOfCommand(r) /\ UNCHANGED admitted
        /\ faults < MaxCallFaults /\ faults' = faults + 1
  BY DEF CallFails, CallDies
<1>3. /\ call' \in [Calls -> CallRec]
      /\ call'[r].pc = pc /\ call'[r].client = c
      /\ \A s \in Calls \ {r} : call'[s] = call[s]
  BY <1>1, <1>2, Moved DEF LimiterInv, PCs
<1>4. ~Expires(r, c)' /\ ~HasClaim(r, c)' /\ (Expires(r, c) <=> CallAt(r, "expire"))
  BY <1>1, <1>3 DEF Expires, HasClaim, CallAt, Key
<1>5. faults' \in 0 .. MaxCallFaults /\ faults' # 0 /\ count[c] \in Nat
  BY <1>2, MaxCallFaultsAssumption DEF LimiterInv, LimiterTypeOK
<1>6. CASE /\ UNCHANGED <<count, ttl>>
           /\ orphaned' = IF CallAt(r, "expire") THEN orphaned \cup {c} ELSE orphaned
  <2>1. LimiterTypeOK' /\ orphaned \subseteq orphaned'
    BY <1>2, <1>3, <1>5, <1>6 DEF LimiterInv, LimiterTypeOK, CallRec
  <2>2. KeyInv(c)'
    <3>1. CASE Expires(r, c)
      BY <1>2, <1>3, <1>4, <1>6, <3>1, KeyExpires
    <3>2. CASE ~Expires(r, c)
      BY <1>2, <1>3, <1>4, <1>6, <2>1, <3>2, KeyKept
    <3>. QED BY <3>1, <3>2
  <2>3. Budget(c)'
    BY <1>2, <1>3, <1>4, <1>5, <1>6, ClaimDropped
  <2>. QED BY <1>1, <1>2, <1>3, <1>5, <1>6, <2>1, <2>2, <2>3, OneCall
<1>7. CASE /\ CallAt(r, "incr") /\ Increment(c) /\ UNCHANGED ttl
           /\ orphaned' = IF StartsWindow(count[c] + 1) THEN orphaned \cup {c} ELSE orphaned
  <2>1. /\ count' = [count EXCEPT ![c] = count[c] + 1] /\ count'[c] = count[c] + 1
        /\ \A d \in Clients \ {c} : count'[d] = count[d]
    BY <1>7 DEF Increment, LimiterInv, LimiterTypeOK
  <2>2. LimiterTypeOK' /\ orphaned \subseteq orphaned'
    BY <1>2, <1>3, <1>5, <1>7, <2>1 DEF LimiterInv, LimiterTypeOK, CallRec
  <2>3. ~Expires(r, c) /\ (count[c] = 0 => c \in orphaned')
    BY <1>4, <1>7 DEF CallAt, StartsWindow
  <2>4. KeyInv(c)'
    BY <1>3, <1>4, <1>7, <2>1, <2>2, <2>3, KeyCounted
  <2>5. Budget(c)'
    BY <1>2, <1>3, <1>4, <1>5, <2>1, ClaimDropped
  <2>. QED BY <1>1, <1>2, <1>3, <1>5, <1>7, <2>1, <2>2, <2>4, <2>5, OneCall
<1>8. CASE CallAt(r, "expire") /\ SetTtl(c) /\ UNCHANGED <<count, orphaned>>
  <2>1. ttl' = [ttl EXCEPT ![c] = Window] /\ ttl'[c] = Window /\ \A d \in Clients \ {c} : ttl'[d] = ttl[d]
    BY <1>8 DEF SetTtl, LimiterInv, LimiterTypeOK
  <2>2. LimiterTypeOK'
    BY <1>2, <1>3, <1>5, <1>8, <2>1, WindowAssumption DEF LimiterInv, LimiterTypeOK, CallRec
  <2>3. KeyInv(c)'
    BY <1>3, <1>4, <1>8, <2>1, KeyExpires
  <2>4. Budget(c)'
    BY <1>2, <1>3, <1>4, <1>5, <1>8, ClaimDropped
  <2>. QED BY <1>1, <1>2, <1>3, <1>5, <1>8, <2>1, <2>2, <2>3, <2>4, OneCall
<1>. QED BY <1>1, <1>2, <1>6, <1>7, <1>8 DEF LeftOfCommand, Key

\* A tick takes the keys whose time is up, and with them their claims and what they admitted.
LEMMA WindowTickInv ==
  ASSUME LimiterInv, WindowTick
  PROVE  LimiterInv'
<1>1. LimiterTypeOK /\ UNCHANGED <<faults, orphaned>>
  BY DEF LimiterInv, WindowTick
<1>2. ASSUME NEW r \in Calls
      PROVE  /\ call'[r] \in CallRec
             /\ call'[r].client = call[r].client /\ call'[r].pc = call[r].pc /\ call'[r].n = call[r].n
             /\ call'[r].old = (call[r].old \/ Ends(call[r].client))
  <2>1. call[r] \in CallRec
    BY <1>1 DEF LimiterTypeOK, CallRec
  <2>. DEFINE new == [call[r] EXCEPT !.old = TRUE]
  <2>2. new \in CallRec /\ new.client = call[r].client /\ new.pc = call[r].pc /\ new.n = call[r].n /\ new.old = TRUE
    BY <2>1, ZenonT(30) DEF CallRec
  <2>3. call'[r] = IF Ends(call[r].client) THEN new ELSE call[r]
    BY DEF WindowTick, Key
  <2>4. call[r].old \in BOOLEAN
    BY <2>1 DEF CallRec
  <2>. HIDE DEF new
  <2>5. CASE Ends(call[r].client)
    BY <2>2, <2>3, <2>5
  <2>6. CASE ~Ends(call[r].client)
    BY <2>1, <2>3, <2>4, <2>6
  <2>. QED BY <2>5, <2>6
<1>3. ASSUME NEW c \in Clients
      PROVE  /\ ttl'[c] = IF ttl[c] \in {1, Forever} THEN Forever ELSE ttl[c] - 1
             /\ count'[c] = IF Ends(c) THEN 0 ELSE count[c]
             /\ admitted'[c] = IF Ends(c) THEN 0 ELSE admitted[c]
             /\ ttl[c] \in (1 .. Window) \cup {Forever} /\ count[c] \in Nat /\ admitted[c] \in Nat
             /\ ttl'[c] \in (1 .. Window) \cup {Forever} /\ count'[c] \in Nat /\ admitted'[c] \in Nat
  <2>1. ttl[c] \in (1 .. Window) \cup {Forever} /\ count[c] \in Nat /\ admitted[c] \in Nat
    BY <1>1 DEF LimiterTypeOK
  <2>2. /\ ttl'[c] = IF ttl[c] \in {1, Forever} THEN Forever ELSE ttl[c] - 1
        /\ count'[c] = IF Ends(c) THEN 0 ELSE count[c]
        /\ admitted'[c] = IF Ends(c) THEN 0 ELSE admitted[c]
    BY DEF WindowTick
  <2>3. ttl'[c] \in (1 .. Window) \cup {Forever}
    BY <2>1, <2>2, WindowAssumption DEF Forever
  <2>. QED BY <2>1, <2>2, <2>3
<1>4. LimiterTypeOK'
  <2>1. /\ count' \in [Clients -> Nat] /\ admitted' \in [Clients -> Nat]
        /\ ttl' \in [Clients -> (1 .. Window) \cup {Forever}]
    BY <1>3 DEF WindowTick
  <2>2. call' \in [Calls -> CallRec]
    BY <1>2 DEF WindowTick
  <2>. QED BY <1>1, <2>1, <2>2 DEF LimiterTypeOK, CallRec
<1>5. ASSUME NEW c \in Clients PROVE KeyInv(c)' /\ Budget(c)'
  <2>1. KeyInv(c) /\ Budget(c)
    BY DEF LimiterInv
  <2>2. \A r \in Calls : Expires(r, c)' <=> Expires(r, c)
    BY <1>2 DEF Expires, Key, CallAt
  <2>3. ~Ends(c) => ttl[c] # 1
    BY <1>3, <2>1 DEF Ends, KeyInv, Fresh, Forever
  <2>4. CASE Ends(c)
    <3>1. count'[c] = 0 /\ ttl'[c] = Forever /\ admitted'[c] = 0 /\ ttl[c] # Forever
      BY <1>3, <2>4 DEF Ends, Forever
    <3>2. \A r \in Calls : ~Expires(r, c)'
      BY <2>1, <2>2, <3>1 DEF KeyInv, Pending
    <3>3. KeyInv(c)'
      BY <3>1, <3>2 DEF KeyInv, Fresh, Pending, Single, WillExpire
    <3>4. Claims(c)' = {}
      BY <1>2, <2>4 DEF Claims, HasClaim, Key
    <3>. QED BY <3>1, <3>3, <3>4, FS_EmptySet, LimitAssumption DEF Budget, Spent
  <2>5. CASE ~Ends(c)
    <3>1. /\ count'[c] = count[c] /\ admitted'[c] = admitted[c]
          /\ ttl'[c] = Forever <=> ttl[c] = Forever
      BY <1>3, <2>3, <2>5 DEF Forever
    <3>2. KeyInv(c)'
      <4>1. Fresh(c)' /\ Pending(c)' /\ Single(c)'
        BY <2>1, <2>2, <3>1 DEF KeyInv, Fresh, Pending, Single, Forever
      <4>2. WillExpire(c)'
        BY <1>1, <2>1, <2>2, <3>1 DEF KeyInv, WillExpire, Expires, Forever
      <4>. QED BY <4>1, <4>2 DEF KeyInv
    <3>3. Claims(c)' = Claims(c)
      BY <1>2, <2>5 DEF Claims, HasClaim, Key
    <3>4. Budget(c)'
      BY <1>1, <2>1, <3>1, <3>3 DEF Budget, Spent
    <3>. QED BY <3>2, <3>4
  <2>. QED BY <2>4, <2>5
<1>. QED BY <1>4, <1>5 DEF LimiterInv

LEMMA LimiterNextInv == LimiterInv /\ [LimiterNext]_limiterVars => LimiterInv'
<1>1. ASSUME LimiterInv, UNCHANGED limiterVars PROVE LimiterInv'
  BY <1>1 DEF limiterVars, LimiterInv, LimiterTypeOK, KeyInv, Budget, Fresh, Pending, Single,
              WillExpire, Expires, Spent, Claims, HasClaim, Key, CallAt
<1>. QED BY <1>1, ArriveFinishInv, IncrInv, ExpireInv, DecideInv, LimiterFaultInv, WindowTickInv
         DEF LimiterNext, CallStep

\* The inductive invariant of RateLimit holds in every reachable state, for any clients,
\* requests, limit, window and number of faults.
THEOREM LimiterInvariance == LimiterSpec => []LimiterInv
BY LimiterInitInv, LimiterNextInv, PTL DEF LimiterSpec

\* Every reachable state of RateLimit is well typed: a time to live is never zero.
THEOREM LimiterTypeCorrect == LimiterSpec => []LimiterTypeOK
BY LimiterInvariance, PTL DEF LimiterInv

\* However INCR, EXPIRE, the comparison, faults and the end of the window interleave, at
\* most Limit requests of one life of a key are admitted.
THEOREM BudgetHolds == LimiterSpec => []WindowBudget
<1>1. LimiterInv => WindowBudget
  <2>. SUFFICES ASSUME LimiterInv, NEW c \in Clients PROVE admitted[c] <= Limit
    BY DEF WindowBudget
  <2>1. /\ admitted[c] \in Nat /\ Cardinality(Claims(c)) \in Nat
        /\ admitted[c] + Cardinality(Claims(c)) <= Limit
    BY FS_CardinalityType DEF LimiterInv, LimiterTypeOK, Budget, Spent
  <2>. QED BY <2>1, LimitAssumption
<1>. QED BY <1>1, LimiterInvariance, PTL

\* Nothing of the budget is wasted while Redis answers: of the requests counted in one life
\* of a key as many as the limit allows have passed, or hold a claim and will.
THEOREM BudgetNotWasted == LimiterSpec => [](faults = 0 => \A c \in Clients :
  Spent(c) = IF count[c] <= Limit THEN count[c] ELSE Limit)
<1>1. ASSUME LimiterInv, faults = 0, NEW c \in Clients
      PROVE  Spent(c) = IF count[c] <= Limit THEN count[c] ELSE Limit
  <2>1. /\ Spent(c) \in Nat /\ count[c] \in Nat /\ Limit \in Nat
        /\ Spent(c) <= count[c] /\ Spent(c) <= Limit
        /\ Spent(c) >= count[c] \/ Spent(c) >= Limit
    BY <1>1, FS_CardinalityType, LimitAssumption DEF LimiterInv, LimiterTypeOK, Budget, Spent
  <2>. QED BY <2>1
<1>2. LimiterInv => (faults = 0 => \A c \in Clients :
        Spent(c) = IF count[c] <= Limit THEN count[c] ELSE Limit)
  BY <1>1
<1>. QED BY <1>2, LimiterInvariance, PTL

\* A key without a time to live is one whose EXPIRE is still to come, or one a fault orphaned.
THEOREM KeysExpire == LimiterSpec => []KeyWillExpire
<1>1. LimiterInv => KeyWillExpire
  BY DEF LimiterInv, KeyInv, KeyWillExpire
<1>. QED BY <1>1, LimiterInvariance, PTL

\* No step makes a running window longer: its EXPIRE is sent once, before it runs.
THEOREM WindowsRunOut == LimiterSpec => WindowNotExtended
<1>. DEFINE P == \A c \in Clients :
       ttl[c] # Forever => (ttl'[c] # Forever /\ ttl'[c] <= ttl[c]) \/ count'[c] = 0
<1>1. ASSUME LimiterInv, LimiterNext, NEW c \in Clients, ttl[c] # Forever
      PROVE  (ttl'[c] # Forever /\ ttl'[c] <= ttl[c]) \/ count'[c] = 0
  <2>1. ttl[c] \in 1 .. Window /\ KeyInv(c) /\ count[c] \in Nat
    BY <1>1 DEF LimiterInv, LimiterTypeOK
  <2>2. CASE WindowTick
    <3>1. /\ ttl'[c] = IF ttl[c] \in {1, Forever} THEN Forever ELSE ttl[c] - 1
          /\ count'[c] = IF Ends(c) THEN 0 ELSE count[c]
      BY <2>2 DEF WindowTick
    <3>2. CASE ttl[c] = 1
      BY <1>1, <2>1, <3>1, <3>2 DEF Ends, KeyInv, Fresh
    <3>3. CASE ttl[c] # 1
      BY <1>1, <2>1, <3>1, <3>3, WindowAssumption DEF Forever
    <3>. QED BY <3>2, <3>3
  <2>3. CASE ~WindowTick
    <3>1. PICK r \in Calls : Arrive(r) \/ CallStep(r) \/ CallFails(r) \/ CallDies(r)
      BY <1>1, <2>3 DEF LimiterNext
    <3>2. UNCHANGED ttl \/ (CallAt(r, "expire") /\ SetTtl(Key(r)))
      BY <3>1 DEF Arrive, CallStep, Incr, Expire, Decide, CallFinish, CallFails, CallDies, LeftOfCommand
    <3>3. CallAt(r, "expire") => Key(r) # c
      BY <1>1, <2>1 DEF KeyInv, Pending, Expires
    <3>4. ttl'[c] = ttl[c]
      BY <1>1, <3>2, <3>3 DEF SetTtl, LimiterInv, LimiterTypeOK
    <3>. QED BY <1>1, <2>1, <3>4
  <2>. QED BY <2>2, <2>3
<1>2. ASSUME LimiterInv, UNCHANGED limiterVars, NEW c \in Clients, ttl[c] # Forever
      PROVE  (ttl'[c] # Forever /\ ttl'[c] <= ttl[c]) \/ count'[c] = 0
  BY <1>2 DEF limiterVars, LimiterInv, LimiterTypeOK, Forever
<1>3. LimiterInv /\ [LimiterNext]_limiterVars => [P]_limiterVars
  BY <1>1
<1>. QED BY <1>3, LimiterInvariance, PTL DEF LimiterSpec, WindowNotExtended
=============================================================================
