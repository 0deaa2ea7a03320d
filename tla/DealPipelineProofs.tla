-------------------------- MODULE DealPipelineProofs --------------------------
(***************************************************************************)
(* Proofs about DealPipeline, for any number of deals and of faults: its   *)
(* types, what may refer to a deal, the order of the tube, that the        *)
(* subscriber has a LossyFifo, and that nothing reaches analytics.         *)
(***************************************************************************)
EXTENDS DealPipeline, SequenceTheorems, TLAPS

Message == [id : Requests, stage : Stages]

\* What a program knows where it stands: the body it is working on is a client's, the deal it
\* speaks of is stored, the job it took is in the tube.
ProgramInv ==
    /\ \A r \in Requests : pc[r] = "insert" => input[r] \in Inputs
    /\ \A r \in Requests : pc[r] \in {"event", "publish", "audit"} => r \in Stored
    /\ cpc # "loop" => job \in DOMAIN jobs

Inv == TypeOK /\ ProgramInv

-------------------------------------------------------------------------------
(* Operators. *)

WithState(j, s) == [j EXCEPT !.state = s]

LEMMA JobFields ==
    ASSUME NEW j \in Jobs, NEW s \in {"ready", "taken", "acked"}
    PROVE  /\ WithState(j, s) \in Jobs
           /\ WithState(j, s).state = s
           /\ WithState(j, s).payload = j.payload
BY DEF Jobs, WithState

\* The consumer's message never has a payload: the deal's document has neither field.
LEMMA NothingDecoded ==
    ASSUME NEW p \in Message
    PROVE  Decoded(p).payload.id = ""
<1>1. "event_type" \notin DOMAIN p /\ "payload" \notin DOMAIN p
  BY DEF Message
<1> QED
  BY <1>1 DEF Decoded

LEMMA StageStored ==
    ASSUME NEW i \in Inputs
    PROVE  /\ InitialStage(i) \in Stages
           /\ [stage |-> InitialStage(i)] \in [stage : Stages]
           /\ [stage |-> InitialStage(i)] # NoDeal
<1>1. InitialStage(i) \in Stages
  BY StagesAreTexts, InputsAreBodies DEF InitialStage
<1>2. InitialStage(i) # "none"
  BY <1>1, StagesAreTexts
<1>3. [stage |-> InitialStage(i)].stage = InitialStage(i) /\ NoDeal.stage = "none"
  BY DEF NoDeal
<1> QED
  BY <1>1, <1>2, <1>3

\* A function on 1 .. n is a sequence of length n.
LEMMA FunctionIsSeq ==
    ASSUME NEW S, NEW n \in Nat, NEW f \in [1 .. n -> S]
    PROVE  f \in Seq(S) /\ Len(f) = n
<1>1. f \in Seq(S)
  BY SeqDef
<1>2. Len(f) \in Nat /\ DOMAIN f = 1 .. Len(f)
  BY <1>1, LenProperties
<1>3. 1 .. Len(f) = 1 .. n
  BY <1>2
<1>4. Len(f) <= n
  <2>1. Len(f) = 0 \/ Len(f) \in 1 .. Len(f)
    BY <1>2
  <2>2. Len(f) = 0 \/ Len(f) \in 1 .. n
    BY <2>1, <1>3
  <2> QED
    BY <2>2, <1>2
<1>5. n <= Len(f)
  <2>1. n = 0 \/ n \in 1 .. n
    OBVIOUS
  <2>2. n = 0 \/ n \in 1 .. Len(f)
    BY <2>1, <1>3
  <2> QED
    BY <2>2, <1>2
<1> QED
  BY <1>1, <1>2, <1>4, <1>5

\* A tube in which one job changes its state.
Rewrite(q, k, s) == [q EXCEPT ![k].state = s]

\* The same jobs; the same jobs with the same states but that of k.
SamePayloads(q, t) == \A l \in DOMAIN q : t[l].payload = q[l].payload
SameBut(q, t, k) == \A l \in DOMAIN q : l # k => t[l] = q[l]

\* The same jobs in the same places.
SameJobs(q, t) ==
    /\ t \in Seq(Jobs)
    /\ Len(t) = Len(q)
    /\ DOMAIN t = DOMAIN q
    /\ SamePayloads(q, t)

\* Every taken job is ready again.
Released(q, t) ==
    \A k \in DOMAIN q :
        t[k].state = IF q[k].state = "taken" THEN "ready" ELSE q[k].state

LEMMA JobRewritten ==
    ASSUME NEW q \in Seq(Jobs), NEW k \in DOMAIN q, NEW s \in {"ready", "taken", "acked"},
           NEW t, t = Rewrite(q, k, s)
    PROVE  /\ SameJobs(q, t)
           /\ t[k].state = s
           /\ SameBut(q, t, k)
<1>1. DOMAIN q = 1 .. Len(q) /\ Len(q) \in Nat
  BY LenProperties
<1>2. q[k] \in Jobs
  BY <1>1, ElementOfSeq
<1> DEFINE e == WithState(q[k], s)
<1>4. t = [q EXCEPT ![k] = e]
  BY DEF WithState, Rewrite
<1> HIDE DEF e
<1>3. e \in Jobs /\ e.state = s /\ e.payload = q[k].payload
  BY <1>2, JobFields DEF e
<1>5. /\ t \in Seq(Jobs)
      /\ Len(t) = Len(q)
      /\ \A l \in 1 .. Len(q) : t[l] = IF l = k THEN e ELSE q[l]
  BY <1>1, <1>3, <1>4, ExceptSeq
<1>6. DOMAIN t = DOMAIN q
  BY <1>4
<1> QED
  BY <1>1, <1>3, <1>5, <1>6 DEF SameJobs, SamePayloads, SameBut

\* What a session that ends leaves in a tube.
LEMMA JobsReleased ==
    ASSUME NEW q \in Seq(Jobs),
           NEW t, t = [k \in DOMAIN q |-> IF q[k].state = "taken"
                                          THEN [q[k] EXCEPT !.state = "ready"]
                                          ELSE q[k]]
    PROVE  SameJobs(q, t) /\ Released(q, t)
<1>1. DOMAIN q = 1 .. Len(q) /\ Len(q) \in Nat
  BY LenProperties
<1>2. ASSUME NEW k \in 1 .. Len(q)
      PROVE  /\ t[k] \in Jobs
             /\ t[k].payload = q[k].payload
             /\ t[k].state = IF q[k].state = "taken" THEN "ready" ELSE q[k].state
  <2>1. q[k] \in Jobs
    BY ElementOfSeq
  <2>2. CASE q[k].state = "taken"
    BY <1>1, <2>1, <2>2, JobFields DEF WithState
  <2>3. CASE q[k].state # "taken"
    BY <1>1, <2>1, <2>3
  <2> QED
    BY <2>2, <2>3
<1>3. t \in [1 .. Len(q) -> Jobs]
  BY <1>1, <1>2
<1>4. t \in Seq(Jobs) /\ Len(t) = Len(q)
  BY <1>1, <1>3, FunctionIsSeq
<1> QED
  BY <1>1, <1>2, <1>3, <1>4 DEF SameJobs, SamePayloads, Released

\* The job that Publish adds.
LEMMA JobPut ==
    ASSUME Inv, NEW r \in Requests, pc[r] = "publish"
    PROVE  /\ Payload(r) \in Message
           /\ [state |-> "ready", event_type |-> "DealCreated", payload |-> Payload(r)] \in Jobs
<1>1. deals[r] # NoDeal /\ deals[r] \in [stage : Stages] \cup {NoDeal}
  BY DEF Inv, TypeOK, ProgramInv, Stored
<1>2. Payload(r) \in Message
  BY <1>1 DEF Payload, Message
<1> QED
  BY <1>2 DEF Jobs, Message

\* The job in the consumer's hands, and its message.
LEMMA JobInHand ==
    ASSUME Inv, cpc # "loop"
    PROVE  /\ job \in DOMAIN jobs
           /\ jobs[job] \in Jobs
           /\ jobs[job].payload \in Message
<1>1. jobs \in Seq(Jobs) /\ job \in DOMAIN jobs
  BY DEF Inv, TypeOK, ProgramInv
<1>2. jobs[job] \in Jobs
  <2>1. DOMAIN jobs = 1 .. Len(jobs)
    BY <1>1, LenProperties
  <2> QED
    BY <1>1, <2>1, ElementOfSeq
<1> QED
  BY <1>1, <1>2 DEF Jobs, Message

\* The tube after a put.
LEMMA PutTube ==
    ASSUME Inv, NEW r \in Requests, NEW outcome \in Outcomes, Publish(r, outcome)
    PROVE  /\ UNCHANGED consumerVars
           /\ \/ jobs' = jobs
              \/ /\ jobs' \in Seq(Jobs)
                 /\ Len(jobs') = Len(jobs) + 1
                 /\ DOMAIN jobs' = 1 .. Len(jobs) + 1
                 /\ \A k \in 1 .. Len(jobs) : jobs'[k] = jobs[k]
                 /\ jobs'[Len(jobs) + 1].state = "ready"
                 /\ jobs'[Len(jobs) + 1].payload = Payload(r)
                 /\ Payload(r) \in Message
<1> DEFINE new == [state |-> "ready", event_type |-> "DealCreated", payload |-> Payload(r)]
<1>1. new \in Jobs /\ new.state = "ready" /\ new.payload = Payload(r) /\ Payload(r) \in Message
  BY JobPut DEF Publish
<1>2. jobs' = jobs \/ jobs' = Append(jobs, new)
  BY DEF Publish
<1>3. UNCHANGED consumerVars
  BY DEF Publish
<1>4. jobs \in Seq(Jobs)
  BY DEF Inv, TypeOK
<1> HIDE DEF new
<1>5. ASSUME jobs' = Append(jobs, new)
      PROVE  /\ jobs' \in Seq(Jobs)
             /\ Len(jobs') = Len(jobs) + 1
             /\ DOMAIN jobs' = 1 .. Len(jobs) + 1
             /\ \A k \in 1 .. Len(jobs) : jobs'[k] = jobs[k]
             /\ jobs'[Len(jobs) + 1] = new
  <2>1. jobs' \in Seq(Jobs) /\ Len(jobs') = Len(jobs) + 1
    BY <1>1, <1>4, <1>5, AppendProperties
  <2>2. DOMAIN jobs' = 1 .. Len(jobs) + 1
    BY <2>1, LenProperties
  <2>3. jobs'[Len(jobs) + 1] = new /\ \A k \in 1 .. Len(jobs) : jobs'[k] = jobs[k]
    BY <1>1, <1>4, <1>5, AppendProperties
  <2> QED
    BY <2>1, <2>2, <2>3
<1> QED
  BY <1>1, <1>2, <1>3, <1>5

\* The tube after a take, or an attempt: the first ready job may be taken, and the consumer
\* may know of it.
LEMMA TakeTube ==
    ASSUME Inv, NEW outcome \in Outcomes, Take(outcome)
    PROVE  /\ cpc = "loop" /\ session = "up"
           /\ UNCHANGED <<crmVars, session, delivered, analytics>>
           /\ \E k \in DOMAIN jobs :
                 /\ jobs[k].state = "ready"
                 /\ \A l \in 1 .. k - 1 : jobs[l].state # "ready"
                 /\ SameJobs(jobs, jobs')
                 /\ SameBut(jobs, jobs', k)
                 /\ \/ jobs' = jobs /\ UNCHANGED <<slipped, job, cpc>>
                    \/ /\ jobs'[k].state = "taken"
                       /\ slipped' = slipped \cup {k} /\ UNCHANGED <<job, cpc>>
                    \/ /\ jobs'[k].state = "taken"
                       /\ job' = k /\ cpc' = "ack" /\ UNCHANGED slipped
<1>1. PICK k \in DOMAIN jobs :
          /\ jobs[k].state = "ready"
          /\ \A l \in 1 .. k - 1 : jobs[l].state # "ready"
          /\ \/ jobs' = jobs /\ UNCHANGED <<slipped, job, cpc>>
             \/ /\ jobs' = Rewrite(jobs, k, "taken")
                /\ slipped' = slipped \cup {k} /\ UNCHANGED <<job, cpc>>
             \/ /\ jobs' = Rewrite(jobs, k, "taken")
                /\ job' = k /\ cpc' = "ack" /\ UNCHANGED slipped
  BY DEF Take, Lands, Outcomes, Rewrite
<1>2. jobs \in Seq(Jobs)
  BY DEF Inv, TypeOK
<1>3. SameJobs(jobs, jobs)
  BY <1>2 DEF SameJobs, SamePayloads
<1>4. SameBut(jobs, jobs, k)
  BY DEF SameBut
<1>5. ASSUME jobs' = Rewrite(jobs, k, "taken")
      PROVE  SameJobs(jobs, jobs') /\ SameBut(jobs, jobs', k) /\ jobs'[k].state = "taken"
  BY <1>2, <1>5, JobRewritten
<1>6. /\ cpc = "loop" /\ session = "up"
      /\ UNCHANGED <<crmVars, session, delivered, analytics>>
  BY DEF Take
<1> QED
  BY <1>1, <1>3, <1>4, <1>5, <1>6

\* The tube after an acknowledgement, or an attempt.
LEMMA AckTube ==
    ASSUME Inv, NEW outcome \in Outcomes, Ack(outcome)
    PROVE  /\ job \in DOMAIN jobs /\ jobs[job].state = "taken"
           /\ cpc = "ack" /\ cpc' \in {"loop", "handle"} /\ session = "up"
           /\ UNCHANGED <<crmVars, job, session, analytics>>
           /\ SameJobs(jobs, jobs')
           /\ SameBut(jobs, jobs', job)
           /\ \/ jobs' = jobs /\ slipped' = slipped \cup {job} /\ delivered' = delivered
              \/ /\ jobs'[job].state = "acked"
                 /\ UNCHANGED slipped
                 /\ delivered' \in {delivered, Append(delivered, jobs[job].payload)}
<1>1. cpc = "ack" /\ job \in DOMAIN jobs /\ jobs[job].state = "taken" /\ session = "up"
  BY JobInHand DEF Ack, Holds
<1>2. /\ cpc' \in {"loop", "handle"}
      /\ UNCHANGED <<crmVars, job, session, analytics>>
      /\ \/ jobs' = jobs /\ slipped' = slipped \cup {job} /\ delivered' = delivered
         \/ /\ jobs' = Rewrite(jobs, job, "acked")
            /\ UNCHANGED slipped
            /\ delivered' \in {delivered, Append(delivered, jobs[job].payload)}
  BY DEF Ack, Rewrite, Lands
<1>3. jobs \in Seq(Jobs)
  BY DEF Inv, TypeOK
<1>4. SameJobs(jobs, jobs) /\ SameBut(jobs, jobs, job)
  BY <1>3 DEF SameJobs, SamePayloads, SameBut
<1>5. ASSUME jobs' = Rewrite(jobs, job, "acked")
      PROVE  /\ SameJobs(jobs, jobs') /\ SameBut(jobs, jobs', job)
             /\ jobs'[job].state = "acked"
  BY <1>1, <1>3, <1>5, JobRewritten
<1> QED
  BY <1>1, <1>2, <1>4, <1>5

\* The tube after the end of a session.
LEMMA ReleaseTube ==
    ASSUME Inv, SessionEnds \/ CrashConsumer
    PROVE  /\ SameJobs(jobs, jobs')
           /\ Released(jobs, jobs')
           /\ cpc' \in {cpc, "loop"} /\ session' \in {"up", "down"}
           /\ UNCHANGED <<crmVars, job, slipped, delivered, analytics>>
<1>1. jobs \in Seq(Jobs)
  BY DEF Inv, TypeOK
<1>2. Release
  BY DEF SessionEnds, CrashConsumer
<1>3. SameJobs(jobs, jobs') /\ Released(jobs, jobs')
  BY <1>1, <1>2, JobsReleased DEF Release
<1> QED
  BY <1>3 DEF SessionEnds, CrashConsumer

\* Handle never comes past its first test.
LEMMA HandleSkips ==
    ASSUME Inv, NEW outcome \in Outcomes, Handle(outcome)
    PROVE  /\ UNCHANGED <<crmVars, jobs, job, session, slipped, delivered, analytics, faults>>
           /\ cpc' = "loop"
<1>1. jobs[job].payload \in Message
  BY JobInHand DEF Handle
<1>2. Decoded(jobs[job].payload).payload.id = ""
  BY <1>1, NothingDecoded
<1> QED
  BY <1>2 DEF Handle, crmVars

-------------------------------------------------------------------------------
(* Types. *)

LEMMA FaultsCounted ==
    ASSUME TypeOK, NEW outcome \in Outcomes, Charge(outcome)
    PROVE  faults' \in 0 .. MaxFaults
BY FaultsBounded DEF TypeOK, Charge

LEMMA InvInit == Init => Inv
<1> SUFFICES ASSUME Init PROVE Inv
  OBVIOUS
<1>1. jobs \in Seq(Jobs) /\ Len(jobs) = 0 /\ delivered \in Seq([id : Requests, stage : Stages])
  BY EmptySeq DEF Init
<1>2. TypeOK
  BY <1>1, FaultsBounded DEF Init, TypeOK
<1>3. ProgramInv
  BY DEF Init, ProgramInv
<1> QED
  BY <1>2, <1>3 DEF Inv

\* A handler's step that is no INSERT and no put.
LEMMA HandlerKeeps ==
    ASSUME Inv, NEW r \in Requests,
           NEW step \in {"event", "publish", "audit", "done"},
           NEW reply \in {"none", "refused", "created"},
           pc' = [pc EXCEPT ![r] = step],
           answer' = [answer EXCEPT ![r] = reply] \/ answer' = answer,
           events' \subseteq Requests,
           audits' \subseteq [action : {"crm.deal.create", "analytics.event.deal_created"},
                              deal : Requests],
           faults' \in 0 .. MaxFaults,
           step = "done" \/ r \in Stored,
           UNCHANGED <<deals, input, jobs, consumerVars>>
    PROVE  Inv'
<1>1. TypeOK'
  BY DEF Inv, TypeOK, consumerVars
<1>2. ProgramInv'
  BY DEF Inv, TypeOK, ProgramInv, Stored, consumerVars
<1> QED
  BY <1>1, <1>2 DEF Inv

\* A step of the consumer or of its session.
LEMMA ConsumerKeeps ==
    ASSUME Inv,
           UNCHANGED <<crmVars, analytics>>,
           SameJobs(jobs, jobs'),
           cpc' \in {"loop", "ack", "handle"},
           job' \in DOMAIN jobs \/ (job' = job /\ (cpc' # "loop" => cpc # "loop")),
           session' \in {"up", "down", "closed"},
           slipped' \subseteq DOMAIN jobs,
           delivered' \in Seq(Message),
           faults' \in 0 .. MaxFaults
    PROVE  Inv'
<1>1. DOMAIN jobs = 1 .. Len(jobs) /\ Len(jobs) \in Nat
  BY LenProperties DEF Inv, TypeOK
<1>2. job' \in 0 .. Len(jobs')
  BY <1>1 DEF Inv, TypeOK, SameJobs
<1>3. TypeOK'
  BY <1>2 DEF Inv, TypeOK, SameJobs, Message, crmVars
<1>4. ProgramInv'
  BY DEF Inv, ProgramInv, SameJobs, Stored, crmVars
<1> QED
  BY <1>3, <1>4 DEF Inv

LEMMA InvStep == Inv /\ [Next]_vars => Inv'
<1> SUFFICES ASSUME Inv, [Next]_vars PROVE Inv'
  OBVIOUS
<1>s. jobs \in Seq(Jobs) /\ Len(jobs) \in Nat /\ DOMAIN jobs = 1 .. Len(jobs)
  BY LenProperties DEF Inv, TypeOK
<1>1. ASSUME NEW r \in Requests, NEW i \in Inputs, Receive(r, i) PROVE Inv'
  <2>1. TypeOK'
    BY <1>1 DEF Inv, TypeOK, Receive, Goto, Finish, consumerVars
  <2>2. /\ \A q \in Requests : q # r => pc'[q] = pc[q] /\ input'[q] = input[q]
        /\ pc'[r] \in {"insert", "done"} /\ (pc'[r] = "insert" => input'[r] = i)
    BY <1>1 DEF Inv, TypeOK, Receive, Goto, Finish
  <2>3. UNCHANGED <<deals, jobs, cpc, job>>
    BY <1>1 DEF Receive, consumerVars
  <2>4. ProgramInv'
    BY <2>2, <2>3 DEF Inv, ProgramInv, Stored
  <2> QED
    BY <2>1, <2>4 DEF Inv
<1>2. ASSUME NEW r \in Requests, NEW outcome \in Outcomes, InsertDeal(r, outcome) PROVE Inv'
  <2>1. faults' \in 0 .. MaxFaults
    BY <1>2, FaultsCounted DEF Inv, InsertDeal
  <2>2. input[r] \in Inputs
    BY <1>2 DEF Inv, ProgramInv, InsertDeal
  <2> DEFINE row == [stage |-> InitialStage(input[r])]
  <2>3. row \in [stage : Stages] /\ row # NoDeal
    BY <2>2, StageStored
  <2>4. deals' = deals \/ deals' = [deals EXCEPT ![r] = row]
    BY <1>2 DEF InsertDeal
  <2>5. \/ pc' = [pc EXCEPT ![r] = "done"]
        \/ pc' = [pc EXCEPT ![r] = "event"] /\ deals' = [deals EXCEPT ![r] = row]
    BY <1>2 DEF InsertDeal, Goto, Finish, Lands
  <2>6. answer' = answer \/ answer' = [answer EXCEPT ![r] = "refused"]
    BY <1>2 DEF InsertDeal, Goto, Finish
  <2>7. UNCHANGED <<events, audits, input, jobs, consumerVars>>
    BY <1>2 DEF InsertDeal
  <2> HIDE DEF row
  <2>8. TypeOK'
    <3>1. deals' \in [Requests -> [stage : Stages] \cup {NoDeal}]
      BY <2>3, <2>4 DEF Inv, TypeOK
    <3>2. /\ pc' \in [Requests -> {"idle", "insert", "event", "publish", "audit", "done"}]
          /\ answer' \in [Requests -> {"none", "refused", "created"}]
      BY <2>5, <2>6 DEF Inv, TypeOK
    <3> QED
      BY <2>1, <2>7, <3>1, <3>2 DEF Inv, TypeOK, consumerVars
  <2>9. ProgramInv'
    BY <2>3, <2>4, <2>5, <2>7 DEF Inv, TypeOK, ProgramInv, Stored, consumerVars
  <2> QED
    BY <2>8, <2>9 DEF Inv
<1>3. ASSUME NEW r \in Requests, NEW outcome \in Outcomes, AppendEvent(r, outcome) PROVE Inv'
  <2>1. r \in Stored /\ events' \subseteq Requests /\ faults' \in 0 .. MaxFaults
    BY <1>3, FaultsCounted DEF Inv, TypeOK, ProgramInv, AppendEvent
  <2>2. audits' \subseteq [action : {"crm.deal.create", "analytics.event.deal_created"},
                           deal : Requests]
    BY <1>3 DEF Inv, TypeOK, AppendEvent
  <2> QED
    BY <1>3, <2>1, <2>2, HandlerKeeps DEF AppendEvent, Goto
<1>4. ASSUME NEW r \in Requests, NEW outcome \in Outcomes, Publish(r, outcome) PROVE Inv'
  <2>1. r \in Stored /\ faults' \in 0 .. MaxFaults
    BY <1>4, FaultsCounted DEF Inv, ProgramInv, Publish
  <2>2. /\ jobs' \in Seq(Jobs)
        /\ Len(jobs') \in Nat /\ Len(jobs') >= Len(jobs)
        /\ DOMAIN jobs' = 1 .. Len(jobs')
    BY <1>s, <1>4, PutTube
  <2>3. /\ pc' = [pc EXCEPT ![r] = "audit"]
        /\ UNCHANGED <<deals, events, audits, input, answer, consumerVars>>
    BY <1>4 DEF Publish, Goto
  <2>4. TypeOK'
    BY <1>s, <2>1, <2>2, <2>3 DEF Inv, TypeOK, consumerVars
  <2>5. ProgramInv'
    BY <1>s, <2>1, <2>2, <2>3 DEF Inv, TypeOK, ProgramInv, Stored, consumerVars
  <2> QED
    BY <2>4, <2>5 DEF Inv
<1>5. ASSUME NEW r \in Requests, NEW outcome \in Outcomes, RecordAudit(r, outcome) PROVE Inv'
  <2>1. r \in Stored /\ faults' \in 0 .. MaxFaults /\ events' \subseteq Requests
    BY <1>5, FaultsCounted DEF Inv, TypeOK, ProgramInv, RecordAudit
  <2>2. audits' \subseteq [action : {"crm.deal.create", "analytics.event.deal_created"},
                           deal : Requests]
    BY <1>5 DEF Inv, TypeOK, RecordAudit, Entry
  <2> QED
    BY <1>5, <2>1, <2>2, HandlerKeeps DEF RecordAudit, Finish
<1>6. CASE CrashService
  <2>1. faults' \in 0 .. MaxFaults
    BY <1>6, FaultsCounted DEF Inv, CrashService, Outcomes
  <2>2. TypeOK'
    BY <1>6, <2>1 DEF Inv, TypeOK, CrashService, consumerVars
  <2>3. ProgramInv'
    BY <1>6 DEF Inv, TypeOK, ProgramInv, CrashService, Stored, consumerVars
  <2> QED
    BY <2>2, <2>3 DEF Inv
<1>m. delivered \in Seq(Message) /\ faults \in 0 .. MaxFaults /\ slipped \subseteq DOMAIN jobs
  BY DEF Inv, TypeOK, Message
<1>e. SameJobs(jobs, jobs)
  BY <1>s DEF SameJobs, SamePayloads
<1>7. ASSUME NEW outcome \in Outcomes, Take(outcome) PROVE Inv'
  <2>1. faults' \in 0 .. MaxFaults
    BY <1>7, FaultsCounted DEF Inv, Take
  <2>2. /\ cpc' \in {"loop", "ack"}
        /\ job' \in DOMAIN jobs \/ (job' = job /\ cpc' = "loop")
        /\ slipped' \subseteq DOMAIN jobs
        /\ SameJobs(jobs, jobs')
        /\ session' = "up"
        /\ UNCHANGED <<crmVars, delivered, analytics>>
    BY <1>7, <1>m, TakeTube
  <2> QED
    BY <1>m, <2>1, <2>2, ConsumerKeeps
<1>8. ASSUME NEW outcome \in Outcomes, Ack(outcome) PROVE Inv'
  <2>1. faults' \in 0 .. MaxFaults
    BY <1>8, FaultsCounted DEF Inv, Ack
  <2>2. /\ cpc' \in {"loop", "handle"}
        /\ job' = job /\ job \in DOMAIN jobs
        /\ slipped' \subseteq DOMAIN jobs
        /\ SameJobs(jobs, jobs')
        /\ session' = "up"
        /\ delivered' \in {delivered, Append(delivered, jobs[job].payload)}
        /\ UNCHANGED <<crmVars, analytics>>
    BY <1>8, <1>m, AckTube
  <2>3. delivered' \in Seq(Message)
    <3>1. jobs[job].payload \in Message
      BY <1>8, JobInHand DEF Ack
    <3> QED
      BY <1>m, <2>2, <3>1, AppendProperties
  <2> QED
    BY <2>1, <2>2, <2>3, ConsumerKeeps
<1>9. ASSUME NEW outcome \in Outcomes, Handle(outcome) PROVE Inv'
  <2>1. /\ UNCHANGED <<crmVars, jobs, job, session, slipped, delivered, analytics, faults>>
        /\ cpc' = "loop"
    BY <1>9, HandleSkips
  <2> QED
    BY <1>m, <1>e, <2>1, ConsumerKeeps DEF Inv, TypeOK
<1>10. CASE SessionEnds \/ CrashConsumer
  <2>1. faults' \in 0 .. MaxFaults
    BY <1>10, FaultsCounted DEF Inv, SessionEnds, CrashConsumer, Outcomes
  <2>2. cpc' \in {"loop", "ack", "handle"}
    BY <1>10, ReleaseTube DEF Inv, TypeOK
  <2>3. /\ SameJobs(jobs, jobs')
        /\ cpc' \in {cpc, "loop"} /\ session' \in {"up", "down"}
        /\ UNCHANGED <<crmVars, job, slipped, delivered, analytics>>
    BY <1>10, ReleaseTube
  <2> QED
    BY <1>m, <2>1, <2>2, <2>3, ConsumerKeeps
<1>12. CASE AckRefused \/ Reconnect
  <2>1. /\ cpc' \in {cpc, "loop"} /\ session' \in {"up", "down", "closed"}
        /\ UNCHANGED <<crmVars, jobs, job, slipped, delivered, analytics, faults>>
    BY <1>12 DEF AckRefused, Reconnect, Inv, TypeOK
  <2>2. cpc' \in {"loop", "ack", "handle"}
    BY <2>1 DEF Inv, TypeOK
  <2> QED
    BY <1>m, <1>e, <2>1, <2>2, ConsumerKeeps
<1>11. CASE UNCHANGED vars
  BY <1>11 DEF vars, crmVars, consumerVars, Inv, TypeOK, ProgramInv, Stored
<1> QED
  BY <1>1, <1>2, <1>3, <1>4, <1>5, <1>6, <1>7, <1>8, <1>9, <1>10, <1>11, <1>12
     DEF Next, Handler, Consumer

\* Rows, jobs and programs stay in their types (TypeOK of DealPipeline), with what each
\* program knows of the deal or the job it works on.
THEOREM PipelineTypes == Spec => [](TypeOK /\ ProgramInv)
<1>1. Init => Inv
  BY InvInit
<1>2. Inv /\ [Next]_vars => Inv'
  BY InvStep
<1>3. Inv => TypeOK /\ ProgramInv
  BY DEF Inv
<1> QED
  BY <1>1, <1>2, <1>3, PTL DEF Spec

-------------------------------------------------------------------------------
(* No trace without a deal. *)

\* Once stored, a deal stays stored.
LEMMA DealsStay ==
    ASSUME Inv, [Next]_vars
    PROVE  Stored \subseteq Stored'
<1>1. ASSUME NEW r \in Requests, NEW outcome \in Outcomes, InsertDeal(r, outcome)
      PROVE  Stored \subseteq Stored'
  <2>1. input[r] \in Inputs
    BY <1>1 DEF Inv, ProgramInv, InsertDeal
  <2> DEFINE row == [stage |-> InitialStage(input[r])]
  <2>2. row # NoDeal /\ (deals' = deals \/ deals' = [deals EXCEPT ![r] = row])
    BY <1>1, <2>1, StageStored DEF InsertDeal
  <2> HIDE DEF row
  <2> QED
    BY <2>2 DEF Inv, TypeOK, Stored
<1>2. ASSUME NEW r \in Requests, NEW outcome \in Outcomes,
             AppendEvent(r, outcome) \/ Publish(r, outcome) \/ RecordAudit(r, outcome)
      PROVE  deals' = deals
  BY <1>2 DEF AppendEvent, Publish, RecordAudit
<1>3. ASSUME NEW r \in Requests, NEW i \in Inputs, Receive(r, i) PROVE deals' = deals
  BY <1>3 DEF Receive
<1>4. CASE \/ CrashService \/ CrashConsumer \/ SessionEnds \/ Reconnect \/ AckRefused
           \/ UNCHANGED vars
  BY <1>4 DEF CrashService, CrashConsumer, SessionEnds, Reconnect, AckRefused, vars, crmVars, Stored
<1>5. ASSUME NEW outcome \in Outcomes, Take(outcome) \/ Ack(outcome) \/ Handle(outcome)
      PROVE  deals' = deals
  BY <1>5 DEF Take, Ack, Handle, crmVars
<1> QED
  BY <1>1, <1>2, <1>3, <1>4, <1>5 DEF Next, Handler, Consumer, Stored

\* What a step adds to any store is about a deal that is stored.
LEMMA DealStep == Inv /\ NothingWithoutDeal /\ [Next]_vars => NothingWithoutDeal'
<1> SUFFICES ASSUME Inv, NothingWithoutDeal, [Next]_vars PROVE NothingWithoutDeal'
  OBVIOUS
<1>s. Stored \subseteq Stored'
  BY DealsStay
<1>j. jobs \in Seq(Jobs) /\ Len(jobs) \in Nat /\ DOMAIN jobs = 1 .. Len(jobs)
  BY LenProperties DEF Inv, TypeOK
<1>1. ASSUME NEW r \in Requests, NEW i \in Inputs, Receive(r, i) PROVE NothingWithoutDeal'
  <2>1. \A q \in Requests : answer'[q] = "created" => answer[q] = "created"
    BY <1>1 DEF Inv, TypeOK, Receive, Goto, Finish
  <2> QED
    BY <1>1, <1>s, <2>1 DEF NothingWithoutDeal, Receive, consumerVars
<1>2. ASSUME NEW r \in Requests, NEW outcome \in Outcomes, InsertDeal(r, outcome)
      PROVE  NothingWithoutDeal'
  <2>1. \A q \in Requests : answer'[q] = "created" => answer[q] = "created"
    BY <1>2 DEF Inv, TypeOK, InsertDeal, Goto, Finish
  <2>2. UNCHANGED <<events, audits, analytics, jobs>>
    BY <1>2 DEF InsertDeal, consumerVars
  <2> QED
    BY <1>s, <2>1, <2>2 DEF NothingWithoutDeal
<1>3. ASSUME NEW r \in Requests, NEW outcome \in Outcomes, AppendEvent(r, outcome)
      PROVE  NothingWithoutDeal'
  <2>1. r \in Stored /\ events' \subseteq events \cup {r}
    BY <1>3 DEF Inv, ProgramInv, AppendEvent
  <2>2. UNCHANGED <<audits, analytics, jobs, answer>>
    BY <1>3 DEF AppendEvent, Goto, consumerVars
  <2> QED
    BY <1>s, <2>1, <2>2 DEF NothingWithoutDeal
<1>4. ASSUME NEW r \in Requests, NEW outcome \in Outcomes, Publish(r, outcome)
      PROVE  NothingWithoutDeal'
  <2>1. r \in Stored /\ Payload(r).id = r
    BY <1>4 DEF Inv, ProgramInv, Publish, Payload
  <2>2. UNCHANGED <<events, audits, analytics, answer>>
    BY <1>4 DEF Publish, Goto, consumerVars
  <2>3. \A k \in DOMAIN jobs' :
            (k \in DOMAIN jobs /\ jobs'[k] = jobs[k]) \/ jobs'[k].payload = Payload(r)
    BY <1>4, <1>j, PutTube
  <2> QED
    BY <1>s, <2>1, <2>2, <2>3 DEF NothingWithoutDeal
<1>5. ASSUME NEW r \in Requests, NEW outcome \in Outcomes, RecordAudit(r, outcome)
      PROVE  NothingWithoutDeal'
  <2>1. r \in Stored
    BY <1>5 DEF Inv, ProgramInv, RecordAudit
  <2>2. \A entry \in audits' : entry \in audits \/ entry.deal = r
    BY <1>5 DEF RecordAudit, Entry
  <2>3. UNCHANGED <<events, analytics, jobs>>
    BY <1>5 DEF RecordAudit, consumerVars
  <2>4. \A q \in Requests : q # r => answer'[q] = answer[q]
    BY <1>5 DEF Inv, TypeOK, RecordAudit, Finish
  <2> QED
    BY <1>s, <2>1, <2>2, <2>3, <2>4 DEF NothingWithoutDeal
<1>6. CASE CrashService
  BY <1>6, <1>s DEF NothingWithoutDeal, CrashService, consumerVars
<1>7. ASSUME UNCHANGED <<crmVars, analytics>>, SameJobs(jobs, jobs')
      PROVE  NothingWithoutDeal'
  BY <1>7, <1>s DEF NothingWithoutDeal, SameJobs, SamePayloads, crmVars
<1>8. ASSUME NEW outcome \in Outcomes, Take(outcome) PROVE NothingWithoutDeal'
  BY <1>7, <1>8, TakeTube
<1>9. ASSUME NEW outcome \in Outcomes, Ack(outcome) PROVE NothingWithoutDeal'
  BY <1>7, <1>9, AckTube
<1>10. ASSUME NEW outcome \in Outcomes, Handle(outcome) PROVE NothingWithoutDeal'
  BY <1>10, <1>s, HandleSkips DEF NothingWithoutDeal, crmVars
<1>11. CASE SessionEnds \/ CrashConsumer
  BY <1>7, <1>11, ReleaseTube
<1>13. CASE AckRefused \/ Reconnect
  BY <1>s, <1>13 DEF AckRefused, Reconnect, NothingWithoutDeal, crmVars
<1>12. CASE UNCHANGED vars
  BY <1>12 DEF vars, crmVars, consumerVars, NothingWithoutDeal, Stored
<1> QED
  BY <1>1, <1>2, <1>3, <1>4, <1>5, <1>6, <1>8, <1>9, <1>10, <1>11, <1>12, <1>13
     DEF Next, Handler, Consumer

\* Whatever fails or stops, no history, message, audit entry, analytics row or answer is
\* about a deal that is not stored (NothingWithoutDeal of DealPipeline).
THEOREM NothingDangles == Spec => []NothingWithoutDeal
<1>1. Init => Inv /\ NothingWithoutDeal
  BY InvInit DEF Init, NothingWithoutDeal
<1>2. Inv /\ NothingWithoutDeal /\ [Next]_vars => (Inv /\ NothingWithoutDeal)'
  BY InvStep, DealStep
<1> QED
  BY <1>1, <1>2, PTL DEF Spec

-------------------------------------------------------------------------------
(* The order of the tube. *)

\* Every step leaves the tube and the consumer alone, puts a job, or is the consumer's or its
\* session's.
LEMMA TubeSteps ==
    ASSUME [Next]_vars
    PROVE  \/ UNCHANGED <<jobs, consumerVars>>
           \/ \E r \in Requests, outcome \in Outcomes : Publish(r, outcome)
           \/ \E outcome \in Outcomes : Take(outcome) \/ Ack(outcome) \/ Handle(outcome)
           \/ AckRefused
           \/ SessionEnds
           \/ Reconnect
           \/ CrashConsumer
<1>1. ASSUME NEW r \in Requests, NEW i \in Inputs, Receive(r, i)
      PROVE  UNCHANGED <<jobs, consumerVars>>
  BY <1>1 DEF Receive
<1>2. ASSUME NEW r \in Requests, NEW outcome \in Outcomes,
             InsertDeal(r, outcome) \/ AppendEvent(r, outcome) \/ RecordAudit(r, outcome)
      PROVE  UNCHANGED <<jobs, consumerVars>>
  BY <1>2 DEF InsertDeal, AppendEvent, RecordAudit
<1>3. CASE CrashService \/ UNCHANGED vars
  BY <1>3 DEF CrashService, vars
<1> QED
  BY <1>1, <1>2, <1>3 DEF Next, Handler, Consumer

LEMMA TubeStep == Inv /\ HeldOnlyByFaults /\ [Next]_vars => HeldOnlyByFaults'
<1> SUFFICES ASSUME Inv, HeldOnlyByFaults, [Next]_vars PROVE HeldOnlyByFaults'
  OBVIOUS
<1>j. Len(jobs) \in Nat /\ DOMAIN jobs = 1 .. Len(jobs)
  BY LenProperties DEF Inv, TypeOK
<1>t. ASSUME NEW k \in DOMAIN jobs PROVE jobs[k].state \in {"ready", "taken", "acked"}
  <2>1. jobs \in Seq(Jobs) /\ k \in 1 .. Len(jobs)
    BY <1>j DEF Inv, TypeOK
  <2>2. jobs[k] \in Jobs
    BY <2>1, ElementOfSeq
  <2> QED
    BY <2>2 DEF Jobs
<1>a. \A k \in DOMAIN jobs : jobs[k].state = "taken" =>
          session = "up" /\ (k \in slipped \/ (cpc = "ack" /\ k = job))
  BY DEF HeldOnlyByFaults
<1>b. \A k \in DOMAIN jobs, l \in DOMAIN jobs :
          l < k /\ jobs[k].state # "ready" => jobs[l].state = "acked" \/ l \in slipped
  BY DEF HeldOnlyByFaults
<1>1. CASE UNCHANGED <<jobs, consumerVars>>
  BY <1>1 DEF HeldOnlyByFaults, consumerVars
<1>2. ASSUME NEW r \in Requests, NEW outcome \in Outcomes, Publish(r, outcome)
      PROVE  HeldOnlyByFaults'
  <2>1. UNCHANGED <<cpc, job, session, slipped>>
    BY <1>2, PutTube DEF consumerVars
  <2>2. CASE jobs' = jobs
    BY <2>1, <2>2 DEF HeldOnlyByFaults
  <2>3. CASE /\ DOMAIN jobs' = 1 .. Len(jobs) + 1
             /\ \A k \in 1 .. Len(jobs) : jobs'[k] = jobs[k]
             /\ jobs'[Len(jobs) + 1].state = "ready"
    BY <1>j, <1>a, <1>b, <2>1, <2>3 DEF HeldOnlyByFaults
  <2> QED
    BY <1>2, <2>2, <2>3, PutTube
<1>3. ASSUME NEW outcome \in Outcomes, Take(outcome) PROVE HeldOnlyByFaults'
  <2>1. PICK k \in DOMAIN jobs :
            /\ jobs[k].state = "ready"
            /\ \A l \in 1 .. k - 1 : jobs[l].state # "ready"
            /\ SameJobs(jobs, jobs')
            /\ SameBut(jobs, jobs', k)
            /\ \/ jobs' = jobs /\ UNCHANGED <<slipped, job, cpc>>
               \/ /\ jobs'[k].state = "taken"
                  /\ slipped' = slipped \cup {k} /\ UNCHANGED <<job, cpc>>
               \/ /\ jobs'[k].state = "taken"
                  /\ job' = k /\ cpc' = "ack" /\ UNCHANGED slipped
    BY <1>3, TakeTube
  <2>2. cpc = "loop" /\ session = "up" /\ session' = session
    BY <1>3, TakeTube
  <2>3. CASE jobs' = jobs /\ UNCHANGED <<slipped, job, cpc>>
    BY <2>2, <2>3 DEF HeldOnlyByFaults
  <2>4. CASE /\ jobs'[k].state = "taken"
             /\ \/ slipped' = slipped \cup {k} /\ UNCHANGED <<job, cpc>>
                \/ job' = k /\ cpc' = "ack" /\ UNCHANGED slipped
    <3>1. DOMAIN jobs' = DOMAIN jobs /\ \A l \in DOMAIN jobs : l # k => jobs'[l] = jobs[l]
      BY <2>1 DEF SameJobs, SameBut
    <3>2. \A l \in DOMAIN jobs : l < k => jobs[l].state = "acked" \/ l \in slipped
      BY <1>j, <1>t, <1>a, <2>1, <2>2
    <3>3. \A l \in DOMAIN jobs : k < l /\ jobs[l].state # "ready" => k \in slipped
      BY <1>b, <2>1
    <3>4. \A l \in DOMAIN jobs' : jobs'[l].state = "taken" =>
              session' = "up" /\ (l \in slipped' \/ (cpc' = "ack" /\ l = job'))
      BY <1>a, <2>2, <2>4, <3>1
    <3>5. \A m \in DOMAIN jobs', l \in DOMAIN jobs' :
              l < m /\ jobs'[m].state # "ready" => jobs'[l].state = "acked" \/ l \in slipped'
      BY <1>j, <1>b, <2>4, <3>1, <3>2, <3>3
    <3> QED
      BY <3>4, <3>5 DEF HeldOnlyByFaults
  <2> QED
    BY <2>1, <2>3, <2>4
<1>4. ASSUME NEW outcome \in Outcomes, Ack(outcome) PROVE HeldOnlyByFaults'
  <2>1. /\ job \in DOMAIN jobs /\ jobs[job].state = "taken"
        /\ cpc = "ack" /\ session = "up" /\ UNCHANGED <<job, session>>
        /\ SameJobs(jobs, jobs')
        /\ SameBut(jobs, jobs', job)
        /\ \/ jobs' = jobs /\ slipped' = slipped \cup {job}
           \/ jobs'[job].state = "acked" /\ UNCHANGED slipped
    BY <1>4, AckTube
  <2>2. DOMAIN jobs' = DOMAIN jobs /\ \A l \in DOMAIN jobs : l # job => jobs'[l] = jobs[l]
    BY <2>1 DEF SameJobs, SameBut
  <2>3. \A k \in DOMAIN jobs' : jobs'[k].state = "taken" => session' = "up" /\ k \in slipped'
    BY <1>a, <2>1, <2>2
  <2>4. \A k \in DOMAIN jobs', l \in DOMAIN jobs' :
            l < k /\ jobs'[k].state # "ready" => jobs'[l].state = "acked" \/ l \in slipped'
    BY <1>b, <2>1, <2>2
  <2> QED
    BY <2>3, <2>4 DEF HeldOnlyByFaults
<1>5. ASSUME NEW outcome \in Outcomes, Handle(outcome) PROVE HeldOnlyByFaults'
  <2>1. UNCHANGED <<jobs, session, slipped>> /\ cpc = "handle"
    BY <1>5 DEF Handle
  <2> QED
    BY <1>a, <1>b, <2>1 DEF HeldOnlyByFaults
<1>6. CASE SessionEnds \/ CrashConsumer
  <2>1. DOMAIN jobs' = DOMAIN jobs /\ Released(jobs, jobs') /\ UNCHANGED slipped
    BY <1>6, ReleaseTube DEF SameJobs
  <2> QED
    BY <1>b, <2>1 DEF HeldOnlyByFaults, Released
<1>7. CASE AckRefused
  <2>1. ~Holds /\ UNCHANGED <<jobs, session, slipped>>
    BY <1>7 DEF AckRefused
  <2>2. \A k \in DOMAIN jobs : jobs[k].state = "taken" => session = "up" /\ k \in slipped
    BY <1>a, <2>1 DEF Holds
  <2> QED
    BY <1>b, <2>1, <2>2 DEF HeldOnlyByFaults
<1>8. CASE Reconnect
  <2>1. session = "down" /\ UNCHANGED <<jobs, slipped>>
    BY <1>8 DEF Reconnect
  <2> QED
    BY <1>a, <1>b, <2>1 DEF HeldOnlyByFaults
<1> QED
  BY <1>1, <1>2, <1>3, <1>4, <1>5, <1>6, <1>7, <1>8, TubeSteps

\* Whatever is put, fails or ends, only a session that stands keeps a job from the tube, one
\* that Next has in hand or has given up after a fault, and none overtakes an earlier job that
\* was not given up (HeldOnlyByFaults of DealPipeline).
THEOREM OnlyFaultsHoldJobs == Spec => []HeldOnlyByFaults
<1>1. Init => Inv /\ HeldOnlyByFaults
  BY InvInit DEF Init, HeldOnlyByFaults
<1>2. Inv /\ HeldOnlyByFaults /\ [Next]_vars => (Inv /\ HeldOnlyByFaults)'
  BY InvStep, TubeStep
<1> QED
  BY <1>1, <1>2, PTL DEF Spec

-------------------------------------------------------------------------------
(* What the consumer makes of the messages. *)

\* No event is stored, and the audit log knows of none that was.
NothingAnalysed ==
    /\ analytics = {}
    /\ \A entry \in audits : entry.action = "crm.deal.create"

LEMMA AnalysedStep == Inv /\ NothingAnalysed /\ [Next]_vars => NothingAnalysed'
<1> SUFFICES ASSUME Inv, NothingAnalysed, [Next]_vars PROVE NothingAnalysed'
  OBVIOUS
<1>0. CASE UNCHANGED <<audits, analytics>>
  BY <1>0 DEF NothingAnalysed
<1>1. ASSUME NEW r \in Requests, NEW i \in Inputs, Receive(r, i) PROVE NothingAnalysed'
  BY <1>0, <1>1 DEF Receive, consumerVars
<1>2. ASSUME NEW r \in Requests, NEW outcome \in Outcomes,
             InsertDeal(r, outcome) \/ AppendEvent(r, outcome) \/ Publish(r, outcome)
      PROVE  NothingAnalysed'
  BY <1>0, <1>2 DEF InsertDeal, AppendEvent, Publish, consumerVars
<1>3. ASSUME NEW r \in Requests, NEW outcome \in Outcomes, RecordAudit(r, outcome)
      PROVE  NothingAnalysed'
  <2>1. Entry("crm.deal.create", r).action = "crm.deal.create"
    BY DEF Entry
  <2> QED
    BY <1>3, <2>1 DEF RecordAudit, NothingAnalysed, consumerVars
<1>4. CASE CrashService \/ AckRefused \/ SessionEnds \/ Reconnect \/ CrashConsumer
  BY <1>0, <1>4
     DEF CrashService, AckRefused, SessionEnds, Reconnect, CrashConsumer, crmVars, consumerVars
<1>5. ASSUME NEW outcome \in Outcomes, Take(outcome) \/ Ack(outcome) PROVE NothingAnalysed'
  BY <1>0, <1>5 DEF Take, Ack, crmVars
<1>6. ASSUME NEW outcome \in Outcomes, Handle(outcome) PROVE NothingAnalysed'
  <2>1. UNCHANGED <<crmVars, analytics>>
    BY <1>6, HandleSkips
  <2> QED
    BY <1>0, <2>1 DEF crmVars
<1>7. CASE UNCHANGED vars
  BY <1>0, <1>7 DEF vars, crmVars, consumerVars
<1> QED
  BY <1>1, <1>2, <1>3, <1>4, <1>5, <1>6, <1>7 DEF Next, Handler, Consumer

\* Whatever is published and however often it is delivered, analytics.events stays empty and
\* no audit entry says otherwise: the consumer reads the document of the deal as if it were
\* the message around it (Next and Publish of pkg/queue/tarantool.go, Run of consumer.go), so
\* no published deal at all satisfies PublishedReachesAnalytics of DealPipeline.
THEOREM NothingReachesAnalytics == Spec => []NothingAnalysed
<1>1. Init => Inv /\ NothingAnalysed
  BY InvInit DEF Init, NothingAnalysed
<1>2. Inv /\ NothingAnalysed /\ [Next]_vars => (Inv /\ NothingAnalysed)'
  BY InvStep, AnalysedStep
<1> QED
  BY <1>1, <1>2, PTL DEF Spec

-------------------------------------------------------------------------------
(* Refinement. *)

Acked(q) == {k \in DOMAIN q : q[k].state = "acked"}
Texts(q) == [k \in DOMAIN q |-> q[k].payload]

LEMMA TextsAreMessages ==
    ASSUME NEW q \in Seq(Jobs)
    PROVE  /\ Texts(q) \in Seq(Message)
           /\ Len(Texts(q)) = Len(q)
<1>1. Len(q) \in Nat /\ DOMAIN q = 1 .. Len(q)
  BY LenProperties
<1>2. ASSUME NEW k \in 1 .. Len(q) PROVE q[k].payload \in Message
  <2>1. q[k] \in Jobs
    BY ElementOfSeq
  <2> QED
    BY <2>1 DEF Jobs, Message
<1>3. Texts(q) \in [1 .. Len(q) -> Message]
  BY <1>1, <1>2 DEF Texts
<1> QED
  BY <1>1, <1>3, FunctionIsSeq

LEMMA SameTexts ==
    ASSUME NEW q, NEW t, DOMAIN t = DOMAIN q, SamePayloads(q, t)
    PROVE  Texts(t) = Texts(q)
BY DEF SamePayloads, Texts

LEMMA ChannelStep ==
    ASSUME Inv, HeldOnlyByFaults, [Next]_vars
    PROVE  [Channel!Next]_(Channel!vars)
<1>j. jobs \in Seq(Jobs) /\ Len(jobs) \in Nat /\ DOMAIN jobs = 1 .. Len(jobs)
  BY LenProperties DEF Inv, TypeOK
<1>d. DOMAIN Texts(jobs) = DOMAIN jobs
  BY DEF Texts
<1>0. ASSUME Texts(jobs') = Texts(jobs), Acked(jobs') = Acked(jobs),
             UNCHANGED <<slipped, delivered>>
      PROVE  UNCHANGED Channel!vars
  BY <1>0 DEF Channel!vars, Texts, Acked
<1>1. CASE UNCHANGED <<jobs, consumerVars>>
  BY <1>0, <1>1 DEF consumerVars
<1>2. ASSUME NEW r \in Requests, NEW outcome \in Outcomes, Publish(r, outcome)
      PROVE  [Channel!Next]_(Channel!vars)
  <2>1. UNCHANGED <<slipped, delivered>>
    BY <1>2, PutTube DEF consumerVars
  <2>2. CASE jobs' = jobs
    BY <1>0, <2>1, <2>2
  <2>3. CASE /\ jobs' \in Seq(Jobs)
             /\ Len(jobs') = Len(jobs) + 1
             /\ DOMAIN jobs' = 1 .. Len(jobs) + 1
             /\ \A k \in 1 .. Len(jobs) : jobs'[k] = jobs[k]
             /\ jobs'[Len(jobs) + 1].state = "ready"
             /\ jobs'[Len(jobs) + 1].payload = Payload(r)
             /\ Payload(r) \in Message
    <3> DEFINE m == Payload(r)
               n == Len(jobs)
    <3>1. Acked(jobs') = Acked(jobs)
      BY <1>j, <2>3 DEF Acked
    <3>2. Texts(jobs) \in Seq(Message) /\ Len(Texts(jobs)) = n /\ m \in Message
      BY <1>j, <2>3, TextsAreMessages
    <3>3. /\ Append(Texts(jobs), m) \in Seq(Message)
          /\ Len(Append(Texts(jobs), m)) = n + 1
          /\ \A k \in 1 .. n : Append(Texts(jobs), m)[k] = Texts(jobs)[k]
          /\ Append(Texts(jobs), m)[n + 1] = m
      <4> HIDE DEF m
      <4> QED
        BY <3>2, AppendProperties
    <3>4. Texts(jobs') \in Seq(Message) /\ Len(Texts(jobs')) = n + 1
      BY <2>3, TextsAreMessages
    <3>5. \A k \in 1 .. n + 1 : Texts(jobs')[k] = Append(Texts(jobs), m)[k]
      <4>1. \A k \in 1 .. n : Texts(jobs')[k] = Texts(jobs)[k]
        BY <1>j, <2>3 DEF Texts
      <4>2. Texts(jobs')[n + 1] = m
        BY <1>j, <2>3 DEF Texts
      <4> QED
        BY <1>j, <3>3, <4>1, <4>2
    <3>6. Texts(jobs') = Append(Texts(jobs), m)
      <4> HIDE DEF m
      <4> QED
        BY <3>3, <3>4, <3>5, SeqEqual
    <3> HIDE DEF m
    <3>7. \E x \in [id : Requests, stage : Stages] : Channel!Send(x)
      BY <2>1, <3>1, <3>2, <3>6 DEF Message, Channel!Send, Texts, Acked
    <3> QED
      BY <3>7 DEF Channel!Next, Channel!Send
  <2> QED
    BY <1>2, <2>2, <2>3, PutTube
<1>3. ASSUME NEW outcome \in Outcomes, Take(outcome)
      PROVE  [Channel!Next]_(Channel!vars)
  <2>1. PICK k \in DOMAIN jobs :
            /\ jobs[k].state = "ready"
            /\ \A l \in 1 .. k - 1 : jobs[l].state # "ready"
            /\ SameJobs(jobs, jobs')
            /\ SameBut(jobs, jobs', k)
            /\ \/ jobs' = jobs /\ UNCHANGED slipped
               \/ jobs'[k].state = "taken" /\ slipped' \in {slipped, slipped \cup {k}}
    BY <1>3, TakeTube
  <2>2. cpc = "loop" /\ delivered' = delivered
    BY <1>3, TakeTube
  <2>3. DOMAIN jobs' = DOMAIN jobs /\ Texts(jobs') = Texts(jobs)
    BY <2>1, SameTexts DEF SameJobs
  <2>4. Acked(jobs') = Acked(jobs)
    BY <2>1, <2>3 DEF Acked, SameBut
  <2>5. CASE slipped' = slipped
    BY <1>0, <2>2, <2>3, <2>4, <2>5
  <2>6. CASE slipped' = slipped \cup {k} /\ k \notin slipped
    <3>1. ASSUME NEW l \in DOMAIN jobs, l < k PROVE l \in Acked(jobs) \cup slipped
      <4>1. jobs[l] \in Jobs
        BY <1>j, ElementOfSeq
      <4>2. jobs[l].state \in {"taken", "acked"}
        BY <1>j, <2>1, <3>1, <4>1 DEF Jobs
      <4> QED
        BY <2>2, <4>2 DEF HeldOnlyByFaults, Acked
    <3>2. k \notin Acked(jobs)
      BY <2>1 DEF Acked
    <3>3. Channel!Slip(k)
      BY <1>d, <2>2, <2>3, <2>4, <2>6, <3>1, <3>2
         DEF Channel!Slip, Channel!InTurn, Texts, Acked
    <3> QED
      BY <1>d, <3>3 DEF Channel!Next, Texts
  <2> QED
    BY <2>1, <2>5, <2>6
<1>4. ASSUME NEW outcome \in Outcomes, Ack(outcome)
      PROVE  [Channel!Next]_(Channel!vars)
  <2>1. /\ job \in DOMAIN jobs /\ jobs[job].state = "taken"
        /\ SameJobs(jobs, jobs')
        /\ SameBut(jobs, jobs', job)
        /\ \/ jobs' = jobs /\ slipped' = slipped \cup {job} /\ delivered' = delivered
           \/ /\ jobs'[job].state = "acked"
              /\ UNCHANGED slipped
              /\ delivered' \in {delivered, Append(delivered, jobs[job].payload)}
    BY <1>4, AckTube
  <2>2. DOMAIN jobs' = DOMAIN jobs /\ Texts(jobs') = Texts(jobs)
    BY <2>1, SameTexts DEF SameJobs
  <2>3. job \notin Acked(jobs)
    BY <2>1 DEF Acked
  <2>4. \A l \in DOMAIN jobs : l < job => l \in Acked(jobs) \cup slipped
    BY <2>1 DEF HeldOnlyByFaults, Acked
  <2>5. Channel!InTurn(job) \/ Channel!Late(job)
    BY <1>d, <2>1, <2>3, <2>4 DEF Channel!InTurn, Channel!Late, Texts, Acked
  <2>6. CASE jobs' = jobs /\ slipped' = slipped \cup {job} /\ delivered' = delivered
    <3>1. CASE job \in slipped
      BY <1>0, <2>6, <3>1
    <3>2. CASE job \notin slipped
      <4>1. Channel!InTurn(job)
        BY <2>5, <3>2 DEF Channel!Late
      <4>2. Channel!Slip(job)
        BY <2>6, <4>1 DEF Channel!Slip
      <4> QED
        BY <1>d, <2>1, <4>2 DEF Channel!Next, Texts
    <3> QED
      BY <3>1, <3>2
  <2>7. CASE /\ jobs'[job].state = "acked"
             /\ UNCHANGED slipped
             /\ delivered' \in {delivered, Append(delivered, jobs[job].payload)}
    <3>1. Acked(jobs') = Acked(jobs) \cup {job}
      BY <2>1, <2>2, <2>7 DEF Acked, SameBut
    <3>2. Texts(jobs)[job] = jobs[job].payload
      BY <2>1 DEF Texts
    <3>3. CASE delivered' = delivered
      <4>1. Channel!Lose(job)
        BY <2>2, <2>5, <2>7, <3>1, <3>3 DEF Channel!Lose, Texts, Acked
      <4> QED
        BY <1>d, <2>1, <4>1 DEF Channel!Next, Channel!Lose, Texts
    <3>4. CASE delivered' = Append(delivered, jobs[job].payload)
      <4>1. Channel!Deliver(job)
        BY <2>2, <2>5, <2>7, <3>1, <3>2, <3>4 DEF Channel!Deliver, Texts, Acked
      <4> QED
        BY <1>d, <2>1, <4>1 DEF Channel!Next, Channel!Deliver, Texts
    <3> QED
      BY <2>7, <3>3, <3>4
  <2> QED
    BY <2>1, <2>6, <2>7
<1>5. ASSUME NEW outcome \in Outcomes, Handle(outcome)
      PROVE  [Channel!Next]_(Channel!vars)
  <2>1. UNCHANGED <<jobs, slipped, delivered>>
    BY <1>5 DEF Handle
  <2> QED
    BY <1>0, <2>1
<1>6. CASE SessionEnds \/ CrashConsumer
  <2>1. /\ SameJobs(jobs, jobs')
        /\ Released(jobs, jobs')
        /\ UNCHANGED <<slipped, delivered>>
    BY <1>6, ReleaseTube
  <2>2. DOMAIN jobs' = DOMAIN jobs /\ Texts(jobs') = Texts(jobs)
    BY <2>1, SameTexts DEF SameJobs
  <2>3. Acked(jobs') = Acked(jobs)
    BY <2>1, <2>2 DEF Acked, Released
  <2> QED
    BY <1>0, <2>1, <2>2, <2>3
<1>7. CASE AckRefused \/ Reconnect
  <2>1. UNCHANGED <<jobs, slipped, delivered>>
    BY <1>7 DEF AckRefused, Reconnect
  <2> QED
    BY <1>0, <2>1
<1> QED
  BY <1>1, <1>2, <1>3, <1>4, <1>5, <1>6, <1>7, TubeSteps

LEMMA ChannelInit == Init => Channel!Init
<1> SUFFICES ASSUME Init PROVE Channel!Init
  OBVIOUS
<1>1. jobs = <<>> /\ delivered = <<>> /\ slipped = {}
  BY DEF Init
<1>2. DOMAIN jobs = {}
  BY <1>1
<1>3. {k \in DOMAIN jobs : jobs[k].state = "acked"} = {}
  BY <1>2
<1>4. [k \in DOMAIN jobs |-> jobs[k].payload] = <<>>
  BY <1>1
<1> QED
  BY <1>1, <1>3, <1>4 DEF Channel!Init

\* The subscriber has a lossy FIFO (ImplementsChannel of DealPipeline): whatever fails, crashes
\* or ends, no message comes twice, and only one that slipped comes after a later one.
THEOREM SubscriberHasLossyFifo == Spec => ImplementsChannel
<1>1. Init => Inv /\ HeldOnlyByFaults
  BY InvInit DEF Init, HeldOnlyByFaults
<1>2. Inv /\ HeldOnlyByFaults /\ [Next]_vars => (Inv /\ HeldOnlyByFaults)'
  BY InvStep, TubeStep
<1>3. Inv /\ HeldOnlyByFaults /\ [Next]_vars => [Channel!Next]_(Channel!vars)
  BY ChannelStep
<1>4. Init => Channel!Init
  BY ChannelInit
<1> QED
  BY <1>1, <1>2, <1>3, <1>4, PTL DEF Spec, ImplementsChannel, Channel!Spec
===============================================================================
