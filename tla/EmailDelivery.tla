----------------------------- MODULE EmailDelivery -----------------------------
(***************************************************************************)
(* What becomes of a verification or reset mail: _dispatch_*_email in      *)
(* app/services/auth_service.py, the tasks of app/tasks/email_tasks.py,    *)
(* send_email in app/services/email_service.py.                            *)
(*                                                                         *)
(* The API publishes a task to the broker and, when that raises, sends the *)
(* mail itself.  Celery's defaults hold, app/tasks/celery_app.py sets none *)
(* of them: delay() repeats a try that failed (task_publish_retry), a try  *)
(* whose reply was lost has left its task with the broker, and a worker    *)
(* acknowledges a task before it runs it.                                  *)
(***************************************************************************)
EXTENDS Naturals, FiniteSets

CONSTANTS Mails,      \* one request each
          Workers,    \* Celery worker processes
          MaxTries,   \* tries of one publish: max_retries of Celery's policy and one
          MaxFaults,  \* bound: failed sends and dead processes
          None

ASSUME MaxTriesAssumption == MaxTries \in Nat \ {0}
ASSUME MaxFaultsAssumption == MaxFaults \in Nat
ASSUME NoneAssumption == None \notin Mails

VARIABLES api,      \* where the request of each mail stands
          tries,    \* failed tries of the publish of each mail
          queue,    \* tasks of each mail waiting in the broker
          worker,   \* the task each worker runs
          sent,     \* copies SMTP has accepted
          hist      \* history: hit, mails a fault touched; lost, tries the broker took and
                    \* whose reply was lost; faults

vars == <<api, tries, queue, worker, sent, hist>>

TypeOK ==
  /\ api \in [Mails -> {"idle", "publish", "fallback", "answered", "dead"}]
  /\ tries \in [Mails -> 0 .. MaxTries]
  /\ queue \in [Mails -> Nat]
  /\ worker \in [Workers -> Mails \cup {None}]
  /\ sent \in [Mails -> 0 .. MaxTries + 1]
  /\ hist \in [hit : SUBSET Mails, lost : [Mails -> 0 .. MaxTries], faults : 0 .. MaxFaults]

Init ==
  /\ api = [m \in Mails |-> "idle"]
  /\ tries = [m \in Mails |-> 0]
  /\ queue = [m \in Mails |-> 0]
  /\ worker = [w \in Workers |-> None]
  /\ sent = [m \in Mails |-> 0]
  /\ hist = [hit |-> {}, lost |-> [m \in Mails |-> 0], faults |-> 0]

Goto(m, pc) == api' = [api EXCEPT ![m] = pc]
Enqueue(m) == queue' = [queue EXCEPT ![m] = @ + 1]
Deliver(m) == sent' = [sent EXCEPT ![m] = @ + 1]
Fault(m) ==
  /\ hist.faults < MaxFaults
  /\ hist' = [hist EXCEPT !.hit = @ \cup {m}, !.faults = @ + 1]

\* register has committed, or the account was found: the token is ready.
Request(m) ==
  /\ api[m] = "idle" /\ Goto(m, "publish")
  /\ UNCHANGED <<tries, queue, worker, sent, hist>>

\* The try that succeeds.
Publish(m) ==
  /\ api[m] = "publish" /\ Goto(m, "answered")
  /\ Enqueue(m)
  /\ UNCHANGED <<tries, worker, sent, hist>>

AnswerAnyway == "answered"
\* The except clause goes on to send the mail from the request.
OnPublishError == "fallback"

\* A try fails, before the broker has the task or after: delay() tries again or raises.
PublishFails(m) ==
  /\ api[m] = "publish"
  /\ tries' = [tries EXCEPT ![m] = @ + 1]
  /\ \/ tries'[m] < MaxTries /\ UNCHANGED api
     \/ Goto(m, OnPublishError)
  /\ \/ UNCHANGED <<queue, hist>>
     \/ Enqueue(m) /\ hist' = [hist EXCEPT !.lost[m] = @ + 1]
  /\ UNCHANGED <<worker, sent>>

\* send_email in the request; whatever goes wrong, the request is answered.
SendFromRequest(m) ==
  /\ api[m] = "fallback" /\ Goto(m, "answered")
  /\ \/ Deliver(m) /\ UNCHANGED hist
     \/ Fault(m) /\ (Deliver(m) \/ UNCHANGED sent)
  /\ UNCHANGED <<tries, queue, worker>>

RequestDies(m) ==
  /\ \/ api[m] = "publish" /\ (Enqueue(m) \/ UNCHANGED queue) /\ UNCHANGED sent
     \/ api[m] = "fallback" /\ (Deliver(m) \/ UNCHANGED sent) /\ UNCHANGED queue
  /\ Goto(m, "dead")
  /\ Fault(m)
  /\ UNCHANGED <<tries, worker>>

-----------------------------------------------------------------------------
Take(w) == \E m \in Mails :
  /\ worker[w] = None /\ queue[m] > 0
  /\ worker' = [worker EXCEPT ![w] = m]
  /\ queue' = [queue EXCEPT ![m] = @ - 1]
  /\ UNCHANGED <<api, tries, sent, hist>>

\* send_email logs an SMTP error and returns: the task has not failed, and autoretry_for
\* never sees it.  An error after SMTP has accepted the mail ends the same way.
EndTaskTwice(w, m) == Enqueue(m) /\ worker' = [worker EXCEPT ![w] = None]
EndTask(w, m) == UNCHANGED queue /\ worker' = [worker EXCEPT ![w] = None]

RunTask(w) == \E m \in Mails :
  /\ worker[w] = m
  /\ EndTask(w, m)
  /\ \/ Deliver(m) /\ UNCHANGED hist
     \/ Fault(m) /\ (Deliver(m) \/ UNCHANGED sent)
  /\ UNCHANGED <<api, tries>>

\* A worker that is killed, or runs past task_time_limit, takes its task with it.
WorkerDies(w) == \E m \in Mails :
  /\ worker[w] = m
  /\ worker' = [worker EXCEPT ![w] = None]
  /\ Fault(m)
  /\ UNCHANGED <<api, tries, queue, sent>>

Step(m) == Publish(m) \/ PublishFails(m) \/ SendFromRequest(m)
Work(w) == Take(w) \/ RunTask(w)
Next ==
  \/ \E m \in Mails : Request(m) \/ Step(m) \/ RequestDies(m)
  \/ \E w \in Workers : Work(w) \/ WorkerDies(w)

Spec == Init /\ [][Next]_vars

\* The event loop runs the requests, and a running worker takes the next task.
FairSpec == Spec /\ (\A m \in Mails : WF_vars(Step(m))) /\ (\A w \in Workers : WF_vars(Work(w)))

-----------------------------------------------------------------------------
InWorkers(m) == {w \in Workers : worker[w] = m}

\* A mail whose request was answered is sent, or waits for a worker, or runs in one, or a
\* fault has touched it: a broker that is down loses nothing.
NotLostSilently == \A m \in Mails : api[m] = "answered" /\ sent[m] = 0 =>
  queue[m] > 0 \/ InWorkers(m) # {} \/ m \in hist.hit

\* Every copy of a mail beyond the first, sent or still to be sent, goes back to a try that
\* the broker took and whose reply was lost: no fallback beside a publish that worked, no
\* failed send and no dead worker makes one.
ExtraCopiesFromLostReplies == \A m \in Mails :
  sent[m] + queue[m] + Cardinality(InWorkers(m)) <= 1 + hist.lost[m]

\* While a worker runs, every mail that no SMTP failure and no dead process touches is
\* sent, broker or no broker.
EveryMailSent == \A m \in Mails : api[m] = "publish" ~> sent[m] > 0 \/ m \in hist.hit

\* Without a worker the request falls back to sending the mail itself: once it is answered
\* the mail is sent, unless a fault touched it.
SentWithoutWorker == Workers = {} =>
  \A m \in Mails : api[m] = "answered" => sent[m] > 0 \/ m \in hist.hit
=============================================================================
