----------------------------- MODULE DealPipeline -----------------------------
(***************************************************************************)
(* From a new deal to the analytics store: the CRM service (modules/crm)   *)
(* stores the deal and then, one after the other and in no transaction,    *)
(* its history event, a DealCreated message and an audit entry; the        *)
(* analytics consumer (modules/analytics) takes messages from the tube     *)
(* (pkg/queue over Tarantool) and writes them to ClickHouse.  The tube     *)
(* keeps the jobs that were taken in the hands of the consumer's session   *)
(* until it acknowledges them or the session ends.                         *)
(*                                                                         *)
(* A call to a store ends in one of three ways: "ok"; "failed", with no    *)
(* effect; "lost", with its effect but an error for the caller (deadline,  *)
(* broken connection).  The last two are faults, bounded by MaxFaults.     *)
(***************************************************************************)
EXTENDS Naturals, Sequences, FiniteSets

CONSTANTS
    Requests,     \* POST /deals invocations; a request names the deal it creates
    Customers,    \* rows of crm.customers
    Stages,       \* texts a deal's stage may have
    Inputs,       \* bodies that clients send: [title, customer, stage], "" where left out
    MaxFaults     \* how often calls fail and programs crash

Outcomes == {"ok", "failed", "lost"}
NoDeal == [stage |-> "none"]
NoInput == [title |-> FALSE]

ASSUME FaultsBounded == MaxFaults \in Nat
ASSUME StagesAreTexts == "new" \in Stages /\ Stages \cap {"", "none"} = {}
ASSUME InputsAreBodies == \A i \in Inputs : i.title \in BOOLEAN /\ i.stage \in Stages \cup {""}

VARIABLES
    deals,      \* [Requests -> a row of crm.deals, or NoDeal]
    events,     \* deals with a "deal.created" row in crm.deal_events
    jobs,       \* the tube: every job put, in order, with its state and its data
    audits,     \* rows of core.audit_log: [action, deal]
    pc,         \* where a request's handler stands
    input,      \* its body
    answer,     \* how it was answered
    cpc,        \* where the consumer stands
    job,        \* the number of the job it took last
    session,    \* its connection: up, down, or closed for good
    slipped,    \* history: jobs that stayed in its session when Next had given them up
    delivered,  \* the messages Next returned to it, in order
    analytics,  \* deals in analytics.events
    faults      \* faults so far

crmVars == <<deals, events, audits, pc, input, answer>>
consumerVars == <<cpc, job, session, slipped, delivered, analytics>>
vars == <<crmVars, jobs, consumerVars, faults>>

Init ==
    /\ deals = [r \in Requests |-> NoDeal]
    /\ events = {}
    /\ jobs = <<>>
    /\ audits = {}
    /\ pc = [r \in Requests |-> "idle"]
    /\ input = [r \in Requests |-> NoInput]
    /\ answer = [r \in Requests |-> "none"]
    /\ cpc = "loop"
    /\ job = 0
    /\ session = "up"
    /\ slipped = {}
    /\ delivered = <<>>
    /\ analytics = {}
    /\ faults = 0

\* A fault is an outcome other than "ok".
Charge(outcome) ==
    IF outcome = "ok" THEN UNCHANGED faults ELSE faults < MaxFaults /\ faults' = faults + 1

Lands(outcome) == outcome # "failed"

Stored == {r \in Requests : deals[r] # NoDeal}

Finish(r, reply) ==
    /\ pc' = [pc EXCEPT ![r] = "done"]
    /\ answer' = [answer EXCEPT ![r] = reply]

Goto(r, step) ==
    /\ pc' = [pc EXCEPT ![r] = step]
    /\ UNCHANGED answer

-------------------------------------------------------------------------------
(* The CRM service. *)

\* A body without a title is refused before anything is written.
Receive(r, i) ==
    /\ pc[r] = "idle"
    /\ input' = [input EXCEPT ![r] = i]
    /\ IF i.title THEN Goto(r, "insert") ELSE Finish(r, "refused")
    /\ UNCHANGED <<deals, events, audits, jobs, consumerVars, faults>>

\* (mutant) the stage is stored as it came.
StageAsGiven(i) == i.stage

\* An empty stage is "new".
InitialStage(i) == IF i.stage = "" THEN "new" ELSE i.stage

\* (mutant) the error of the INSERT is dropped.
InsertErrorDropped(r, outcome) ==
    /\ pc[r] = "insert"
    /\ Charge(outcome)
    /\ IF input[r].customer \in Customers /\ Lands(outcome)
       THEN deals' = [deals EXCEPT ![r] = [stage |-> InitialStage(input[r])]]
       ELSE UNCHANGED deals
    /\ Goto(r, "event")
    /\ UNCHANGED <<events, audits, input, jobs, consumerVars>>

\* INSERT INTO crm.deals; an unknown customer breaks the foreign key.
InsertDeal(r, outcome) ==
    /\ pc[r] = "insert"
    /\ Charge(outcome)
    /\ IF input[r].customer \in Customers /\ Lands(outcome)
       THEN deals' = [deals EXCEPT ![r] = [stage |-> InitialStage(input[r])]]
       ELSE UNCHANGED deals
    /\ IF input[r].customer \in Customers /\ outcome = "ok"
       THEN Goto(r, "event")
       ELSE Finish(r, "refused")
    /\ UNCHANGED <<events, audits, input, jobs, consumerVars>>

\* A failure to write the history is logged, and the handler goes on.
AppendEvent(r, outcome) ==
    /\ pc[r] = "event"
    /\ Charge(outcome)
    /\ events' = IF Lands(outcome) THEN events \cup {r} ELSE events
    /\ Goto(r, "publish")
    /\ UNCHANGED <<deals, audits, input, jobs, consumerVars>>

\* The document put under "payload": its fields are the deal's, not the message's.
Payload(r) == [id |-> r, stage |-> deals[r].stage]

\* queue.tube.events_queue:put; a failure is logged, and the handler goes on.
Publish(r, outcome) ==
    /\ pc[r] = "publish"
    /\ Charge(outcome)
    /\ jobs' = IF Lands(outcome)
               THEN Append(jobs, [state |-> "ready", event_type |-> "DealCreated",
                                  payload |-> Payload(r)])
               ELSE jobs
    /\ Goto(r, "audit")
    /\ UNCHANGED <<deals, events, audits, input, consumerVars>>

Entry(action, deal) == [action |-> action, deal |-> deal]

\* A failure to write the audit entry is logged: the deal is created all the same.
RecordAudit(r, outcome) ==
    /\ pc[r] = "audit"
    /\ Charge(outcome)
    /\ audits' = IF Lands(outcome) THEN audits \cup {Entry("crm.deal.create", r)} ELSE audits
    /\ Finish(r, "created")
    /\ UNCHANGED <<deals, events, input, jobs, consumerVars>>

\* The service stops: the requests under way go no further, and nothing resumes them.
CrashService ==
    /\ \E r \in Requests : pc[r] \notin {"idle", "done"}
    /\ Charge("failed")
    /\ pc' = [r \in Requests |-> IF pc[r] = "idle" THEN "idle" ELSE "done"]
    /\ UNCHANGED <<deals, events, audits, input, answer, jobs, consumerVars>>

-------------------------------------------------------------------------------
(* The queue and the analytics consumer. *)

\* The tube hands out the ready job that was put first.  An error of take ends Next and no
\* more: a job that was handed out in a lost reply stays in the session, and Run goes on.
\* (Without a connection take fails at once: nothing happens.)
Take(outcome) ==
    /\ cpc = "loop" /\ session = "up"
    /\ Charge(outcome)
    /\ \E k \in DOMAIN jobs :
          /\ jobs[k].state = "ready"
          /\ \A l \in 1 .. k - 1 : jobs[l].state # "ready"
          /\ jobs' = IF Lands(outcome) THEN [jobs EXCEPT ![k].state = "taken"] ELSE jobs
          /\ slipped' = IF outcome = "lost" THEN slipped \cup {k} ELSE slipped
          /\ IF outcome = "ok" THEN job' = k /\ cpc' = "ack" ELSE UNCHANGED <<job, cpc>>
    /\ UNCHANGED <<crmVars, session, delivered, analytics>>

\* The session that took the job still has it.
Holds == session = "up" /\ jobs[job].state = "taken"

\* (mutant) the job is returned although the acknowledgement failed.
AckUnchecked(outcome) ==
    /\ cpc = "ack" /\ Holds
    /\ Charge(outcome)
    /\ jobs' = IF Lands(outcome) THEN [jobs EXCEPT ![job].state = "acked"] ELSE jobs
    /\ slipped' = IF Lands(outcome) THEN slipped ELSE slipped \cup {job}
    /\ cpc' = "handle"
    /\ delivered' = Append(delivered, jobs[job].payload)
    /\ UNCHANGED <<crmVars, job, session, analytics>>

\* (mutant) a job with nothing to unmarshal is passed over before it is acknowledged.
EmptyPassedOver(outcome) ==
    /\ cpc = "ack" /\ Holds
    /\ outcome = "ok"
    /\ cpc' = "loop"
    /\ UNCHANGED <<crmVars, jobs, job, session, slipped, delivered, analytics, faults>>

\* The end of Next: the job is acknowledged before anybody looks at it.  After an error Run
\* sleeps and goes on with the next take, in the same session, which keeps the job.
Ack(outcome) ==
    /\ cpc = "ack" /\ Holds
    /\ Charge(outcome)
    /\ jobs' = IF Lands(outcome) THEN [jobs EXCEPT ![job].state = "acked"] ELSE jobs
    /\ slipped' = IF Lands(outcome) THEN slipped ELSE slipped \cup {job}
    /\ cpc' = IF outcome = "ok" THEN "handle" ELSE "loop"
    /\ delivered' = IF outcome = "ok" THEN Append(delivered, jobs[job].payload) ELSE delivered
    /\ UNCHANGED <<crmVars, job, session, analytics>>

\* Without a connection, or in a session that is not the one that took the job, ack fails.
AckRefused ==
    /\ cpc = "ack" /\ ~Holds
    /\ cpc' = "loop"
    /\ UNCHANGED <<crmVars, jobs, job, session, slipped, delivered, analytics, faults>>

\* What Next unmarshals into the consumer's message: the fields event_type and payload of
\* the document that was put, with their zero values where it has none.  (Should the driver
\* not return the job's data as a map[string]any, nothing is unmarshalled: zero values too.)
Decoded(document) ==
    [event_type |-> IF "event_type" \in DOMAIN document THEN document.event_type ELSE "",
     payload    |-> IF "payload" \in DOMAIN document THEN document.payload ELSE [id |-> ""]]

\* (mutant) Run returns when it meets an empty payload.
HandleReturns(outcome) ==
    /\ cpc = "handle"
    /\ outcome = "ok"
    /\ cpc' = IF Decoded(jobs[job].payload).event_type = "" THEN "handle" ELSE "loop"
    /\ UNCHANGED <<crmVars, jobs, job, session, slipped, delivered, analytics, faults>>

\* The rest of Run's loop: an empty payload is taken for "no job"; a DealCreated is written
\* to analytics.events and then to the audit log, and an error of either is logged.
Handle(outcome) ==
    LET message == Decoded(jobs[job].payload) IN
    /\ cpc = "handle"
    /\ IF message.payload.id # "" /\ message.event_type = "DealCreated"
       THEN /\ Charge(outcome)
            /\ analytics' = IF Lands(outcome) THEN analytics \cup {message.payload.id}
                            ELSE analytics
            /\ \E entries \in SUBSET {Entry("analytics.event.deal_created", message.payload.id)} :
                  audits' = IF outcome = "ok" THEN audits \cup entries ELSE audits
       ELSE /\ outcome = "ok"
            /\ UNCHANGED <<audits, analytics, faults>>
    /\ cpc' = "loop"
    /\ UNCHANGED <<deals, events, pc, input, answer, jobs, job, session, slipped, delivered>>

\* The tube makes the jobs of a session that has ended ready again, each in its old place.
Release ==
    jobs' = [k \in DOMAIN jobs |->
                IF jobs[k].state = "taken" THEN [jobs[k] EXCEPT !.state = "ready"] ELSE jobs[k]]

\* The connection breaks.
SessionEnds ==
    /\ session = "up"
    /\ Charge("failed")
    /\ session' = "down"
    /\ Release
    /\ UNCHANGED <<crmVars, cpc, job, slipped, delivered, analytics>>

\* The driver connects anew, or has tried MaxReconnects times and never will again.
Reconnect ==
    /\ session = "down"
    /\ session' \in {"up", "closed"}
    /\ UNCHANGED <<crmVars, jobs, cpc, job, slipped, delivered, analytics, faults>>

\* The consumer stops and is started again, with a session of its own; a job that it had
\* acknowledged is gone.
CrashConsumer ==
    /\ Charge("failed")
    /\ cpc' = "loop"
    /\ session' = "up"
    /\ Release
    /\ UNCHANGED <<crmVars, job, slipped, delivered, analytics>>

-------------------------------------------------------------------------------
Handler(r) ==
    \E outcome \in Outcomes :
        \/ InsertDeal(r, outcome)
        \/ AppendEvent(r, outcome)
        \/ Publish(r, outcome)
        \/ RecordAudit(r, outcome)

Consumer ==
    \/ AckRefused
    \/ \E outcome \in Outcomes : Take(outcome) \/ Ack(outcome) \/ Handle(outcome)

Next ==
    \/ \E r \in Requests : (\E i \in Inputs : Receive(r, i)) \/ Handler(r)
    \/ Consumer
    \/ CrashService
    \/ SessionEnds
    \/ Reconnect
    \/ CrashConsumer

Spec == Init /\ [][Next]_vars

\* A handler goes on, the consumer's loop runs, and the driver comes to an end with connecting
\* anew; calls may still fail, and so may all its attempts.
Fairness ==
    /\ WF_vars(Consumer)
    /\ WF_vars(Reconnect)
    /\ \A r \in Requests : WF_vars(Handler(r))

FairSpec == Spec /\ Fairness

-------------------------------------------------------------------------------
(* Properties. *)

Jobs == [state : {"ready", "taken", "acked"}, event_type : {"DealCreated"},
         payload : [id : Requests, stage : Stages]]

\* Rows, jobs and programs stay in their types; a stored deal has a stage.
TypeOK ==
    /\ deals \in [Requests -> [stage : Stages] \cup {NoDeal}]
    /\ events \subseteq Requests
    /\ jobs \in Seq(Jobs)
    /\ audits \subseteq [action : {"crm.deal.create", "analytics.event.deal_created"},
                        deal : Requests]
    /\ pc \in [Requests -> {"idle", "insert", "event", "publish", "audit", "done"}]
    /\ input \in [Requests -> Inputs \cup {NoInput}]
    /\ answer \in [Requests -> {"none", "refused", "created"}]
    /\ cpc \in {"loop", "ack", "handle"}
    /\ job \in 0 .. Len(jobs)
    /\ session \in {"up", "down", "closed"}
    /\ slipped \subseteq DOMAIN jobs
    /\ delivered \in Seq([id : Requests, stage : Stages])
    /\ analytics \subseteq Requests
    /\ faults \in 0 .. MaxFaults

\* The deals a reader of any store can meet were stored before, whatever failed on the way:
\* no history, message, audit entry or analytics row is about a deal that does not exist,
\* and who was told "created" finds the deal.
NothingWithoutDeal ==
    /\ events \cup analytics \cup {entry.deal : entry \in audits} \subseteq Stored
    /\ \A k \in DOMAIN jobs : jobs[k].payload.id \in Stored
    /\ \A r \in Requests : answer[r] = "created" => r \in Stored

\* A job is kept from the tube only by a session that stands, and there it is the one Next is
\* about to acknowledge or one that slipped: a reply of take, or an acknowledgement, was lost on
\* it.  Nor does a job leave the tube before an earlier one that did not slip.
HeldOnlyByFaults ==
    /\ \A k \in DOMAIN jobs : jobs[k].state = "taken" =>
          session = "up" /\ (k \in slipped \/ (cpc = "ack" /\ k = job))
    /\ \A k \in DOMAIN jobs, l \in DOMAIN jobs :
          l < k /\ jobs[k].state # "ready" => jobs[l].state = "acked" \/ l \in slipped

\* Acknowledging before handling makes the subscriber one of a lossy FIFO: across crashes, ended
\* sessions and failed calls no message is delivered twice, and only those that slipped come late.
Channel == INSTANCE LossyFifo WITH
    Messages <- [id : Requests, stage : Stages],
    sent <- [k \in DOMAIN jobs |-> jobs[k].payload],
    passed <- {k \in DOMAIN jobs : jobs[k].state = "acked"}
ImplementsChannel == Channel!Spec

\* Whatever the bounded faults, a job leaves the tube for good, unless a session that stands
\* keeps it after a fault, or the driver has closed its connection for good.
TubeDrains ==
    \A k \in 1 .. Cardinality(Requests) :
        k \in DOMAIN jobs ~>
            \/ session = "closed"
            \/ k \in DOMAIN jobs /\ jobs[k].state = "acked"
            \/ k \in DOMAIN jobs /\ jobs[k].state = "taken" /\ k \in slipped

\* A published deal reaches analytics.events (README.md, line 48).
PublishedReachesAnalytics ==
    \A r \in Requests :
        (\E k \in DOMAIN jobs : jobs[k].payload.id = r) ~> r \in analytics
===============================================================================
