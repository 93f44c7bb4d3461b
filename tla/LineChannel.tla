----------------------------- MODULE LineChannel -----------------------------
(***************************************************************************)
(* The LINE channel: the webhook of api.py and the controller that turns   *)
(* its messages into tasks (line_messaging.py), the completion push of the *)
(* task worker's command (cli.py), and the push-progress endpoint.         *)
(*                                                                         *)
(* LINE itself is external: it delivers a webhook again when it was not    *)
(* answered with success, a few times; a reply token can be used once.     *)
(* What the task service and the queue do to a task is abstracted to the   *)
(* status of its job, and what a message says to which task it is about;   *)
(* TaskService and WorkerQueue model the former.                           *)
(***************************************************************************)
EXTENDS Naturals, Sequences, FiniteSets

CONSTANTS
    Server,         \* API processes
    Worker,         \* processes of the task-worker command
    Delivery,       \* webhooks LINE has to deliver
    Body,           \* the events of each, in order
    None,
    MaxFaults,      \* bound: failures and crashes
    MaxDeliveries,  \* how often LINE delivers a webhook
    MaxPushes       \* bound: requests to push-progress

Source == [group : STRING \cup {None}, user : STRING]

\* "blank" is a text of white space, task what a "status" asks about.
Event == [type : {"text", "status", "blank", "other"}, source : Source, task : Nat]

ASSUME LineAssumption ==
    /\ Body \in [Delivery -> Seq(Event)]
    /\ {MaxFaults, MaxDeliveries, MaxPushes} \subseteq Nat
    /\ None \notin Server \cup Worker \cup Delivery

VARIABLES
    queue,          \* whether the deployment has a task queue (task_queue_url), read at start
    line,           \* for each webhook: how often delivered, whether answered with success
    tokens,         \* the reply tokens used, as the events they came with
    tasks,          \* the tasks submitted from LINE, in order
    server,         \* what each API process handles
    worker,         \* what each worker does
    sent,           \* history: the messages LINE has accepted
    faults, pushes

vars == <<queue, line, tokens, tasks, server, worker, sent, faults, pushes>>

JobStatus == {"none", "queued", "running", "settled"}
\* conversation: context.conversation_id; origin: the event it was made from.
Task == [job : JobStatus, conversation : STRING, origin : Delivery \X Nat]

ServerPC == {"idle", "event", "schedule", "reply", "status_reply", "push"}
ServerCall == [pc : ServerPC, delivery : Delivery \cup {None}, next : Nat, task : Nat]
WorkerCall == [pc : {"idle", "running", "push"}, task : Nat]

IdleServer == [pc |-> "idle", delivery |-> None, next |-> 1, task |-> 0]
IdleWorker == [pc |-> "idle", task |-> 0]

\* A message: what kind, to whom, about which task (0: none).
Message == [kind : {"accepted", "status", "status_missing", "push"},
            to : STRING, task : Nat]

TypeOK ==
    /\ queue \in BOOLEAN
    /\ line \in [Delivery -> [count : 0 .. MaxDeliveries, acked : BOOLEAN]]
    /\ tokens \subseteq Delivery \X Nat
    /\ tasks \in Seq(Task)
    /\ server \in [Server -> ServerCall]
    /\ worker \in [Worker -> WorkerCall]
    \* calls are about webhooks and tasks that exist
    /\ \A s \in Server :
           /\ server[s].pc \notin {"idle", "push"} => server[s].delivery \in Delivery
           /\ server[s].pc \in {"schedule", "reply", "push"} => server[s].task \in DOMAIN tasks
           /\ server[s].task \in 0 .. Len(tasks)
    /\ \A w \in Worker : worker[w].pc # "idle" => worker[w].task \in DOMAIN tasks
    /\ sent \subseteq Message
    /\ faults \in 0 .. MaxFaults /\ pushes \in 0 .. MaxPushes

Init ==
    /\ queue \in BOOLEAN
    /\ line = [d \in Delivery |-> [count |-> 0, acked |-> FALSE]]
    /\ tokens = {}
    /\ tasks = <<>>
    /\ server = [s \in Server |-> IdleServer]
    /\ worker = [w \in Worker |-> IdleWorker]
    /\ sent = {}
    /\ faults = 0 /\ pushes = 0

----------------------------------------------------------------------------
(* Messages.                                                               *)

\* source_id: the group or room, or the user of a direct message.
Conversation(source) == IF source.group # None THEN source.group ELSE source.user

Msg(kind, to, t) == [kind |-> kind, to |-> to, task |-> t]

----------------------------------------------------------------------------
(* LINE.                                                                   *)

\* parse_line_webhook keeps the text messages.
Events(d) == {i \in DOMAIN Body[d] : Body[d][i].type # "other"}

\* A webhook is sent, or sent again while it has not been answered with success; a
\* process that is free takes it (the handler holds the process until it is done).
deliver(s, d) ==
    /\ server[s].pc = "idle"
    /\ ~line[d].acked /\ line[d].count < MaxDeliveries
    /\ line' = [line EXCEPT ![d].count = @ + 1]
    /\ server' = [server EXCEPT ![s] = [IdleServer EXCEPT !.pc = "event", !.delivery = d]]
    /\ UNCHANGED <<queue, tokens, tasks, worker, sent, faults, pushes>>

\* The answer to a reply or push: accepted; refused or lost, which raises
\* LineMessagingError or OSError.  A used reply token is always refused.
TokenFree(d, i) == <<d, i>> \notin tokens

Fault == faults < MaxFaults /\ faults' = faults + 1

----------------------------------------------------------------------------
(* LineWebhookController.handle, event by event.                           *)

Left(s) == {i \in Events(server[s].delivery) : server[s].next <= i}
More(s) == Left(s) # {}

\* The event in turn: its place, and what it is.
At(s) == CHOOSE i \in Left(s) : \A j \in Left(s) : i <= j
Current(s) == Body[server[s].delivery][At(s)]

GotoS(s, pc) == server' = [server EXCEPT ![s].pc = pc]
NextEvent(s) == server' = [server EXCEPT ![s].pc = "event", ![s].next = At(s) + 1]

Free(s) == server' = [server EXCEPT ![s] = IdleServer]

\* Mutant: an exception is swallowed, and the event passed over.
Fails_Skips(s) == IF More(s) THEN NextEvent(s) ELSE Free(s)

\* Any exception ends the request with an error; what was done stays done.
Fails(s) == Free(s)

\* The events are done: 200.
handle_return(s) ==
    /\ server[s].pc = "event" /\ ~More(s)
    /\ line' = [line EXCEPT ![server[s].delivery].acked = TRUE]
    /\ Free(s)
    /\ UNCHANGED <<queue, tokens, tasks, worker, sent, faults, pushes>>

\* A text becomes a contract with a task_id of its own, and is submitted.
submit(s) ==
    /\ server[s].pc = "event" /\ More(s) /\ Current(s).type = "text"
    /\ tasks' = Append(tasks, [job |-> "none",
                               conversation |-> Conversation(Current(s).source),
                               origin |-> <<server[s].delivery, At(s)>>])
    /\ server' = [server EXCEPT ![s].pc = "schedule", ![s].task = Len(tasks')]
    /\ UNCHANGED <<queue, line, tokens, worker, sent, faults, pushes>>

\* A goal of white space is no contract.
submit_invalid(s) ==
    /\ server[s].pc = "event" /\ More(s) /\ Current(s).type = "blank"
    /\ Fails(s)
    /\ UNCHANGED <<queue, line, tokens, tasks, worker, sent, faults, pushes>>

\* Mutant: the reply does not wait for the job.
schedule_Later(s) ==
    /\ server[s].pc = "schedule"
    /\ GotoS(s, "reply")
    /\ UNCHANGED <<queue, line, tokens, tasks, worker, sent, faults, pushes>>

\* TaskScheduler.schedule of a task with no job, where there is a queue; without one the
\* task is left to requests that run it.
schedule(s) ==
    /\ server[s].pc = "schedule"
    /\ \/ queue /\ tasks' = [tasks EXCEPT ![server[s].task].job = "queued"]
       \/ ~queue /\ UNCHANGED tasks
    /\ GotoS(s, "reply")
    /\ UNCHANGED <<queue, line, tokens, worker, sent, faults, pushes>>

ReplyRefused(s) == ~TokenFree(server[s].delivery, At(s))

\* The reply to the current event: the receipt, or the answer to /status.
ReplyMsg(s) ==
    Msg(IF server[s].pc = "reply" THEN "accepted"
        ELSE IF server[s].task = 0 THEN "status_missing" ELSE "status",
        Conversation(Current(s).source), server[s].task)

\* LINE takes the message, and the token is used.
Accepted(s) ==
    /\ tokens' = tokens \cup {<<server[s].delivery, At(s)>>}
    /\ sent' = sent \cup {ReplyMsg(s)}

reply_text(s) ==
    /\ server[s].pc \in {"reply", "status_reply"}
    /\ IF ReplyRefused(s) THEN Fails(s) /\ UNCHANGED <<tokens, sent>>
                          ELSE NextEvent(s) /\ Accepted(s)
    /\ UNCHANGED <<queue, line, tasks, worker, faults, pushes>>

\* /status <task_id>: the task is read, or missing; then the reply is sent.
status_read(s) ==
    /\ server[s].pc = "event" /\ More(s) /\ Current(s).type = "status"
    /\ server' = [server EXCEPT ![s].pc = "status_reply", ![s].task =
                      IF Current(s).task <= Len(tasks) THEN Current(s).task ELSE 0]
    /\ UNCHANGED <<queue, line, tokens, tasks, worker, sent, faults, pushes>>

\* A write fails, LINE cannot be reached, or its answer is lost after it took the
\* message; or the process dies.
handle_fault(s) ==
    /\ server[s].pc \notin {"idle", "push"}
    /\ Fault
    /\ Fails(s)
    /\ \/ UNCHANGED <<tokens, sent>>
       \/ /\ server[s].pc \in {"reply", "status_reply"} /\ ~ReplyRefused(s)
          /\ Accepted(s)
    /\ UNCHANGED <<queue, line, tasks, worker, pushes>>

----------------------------------------------------------------------------
(* Pushes: the endpoint, and the worker after run_one.                     *)

line_push_progress(s, t) ==
    /\ server[s].pc = "idle" /\ pushes < MaxPushes
    /\ pushes' = pushes + 1
    /\ server' = [server EXCEPT ![s] = [IdleServer EXCEPT !.pc = "push", !.task = t]]
    /\ UNCHANGED <<queue, line, tokens, tasks, worker, sent, faults>>

PushMsg(t) == Msg("push", tasks[t].conversation, t)

\* Sent or refused: the request is answered either way.
push_send(s) ==
    /\ server[s].pc = "push"
    /\ Free(s)
    /\ \/ sent' = sent \cup {PushMsg(server[s].task)} /\ UNCHANGED faults
       \/ Fault /\ UNCHANGED sent
    /\ UNCHANGED <<queue, line, tokens, tasks, worker, pushes>>

\* run_one claims a job and runs the task,
run_one(w, t) ==
    /\ worker[w].pc = "idle"
    /\ tasks[t].job = "queued"
    /\ tasks' = [tasks EXCEPT ![t].job = "running"]
    /\ worker' = [worker EXCEPT ![w] = [IdleWorker EXCEPT !.pc = "running", !.task = t]]
    /\ UNCHANGED <<queue, line, tokens, server, sent, faults, pushes>>

\* and settles it.
run_ended(w) ==
    /\ worker[w].pc = "running"
    /\ tasks' = [tasks EXCEPT ![worker[w].task].job = "settled"]
    /\ worker' = [worker EXCEPT ![w].pc = "push"]
    /\ UNCHANGED <<queue, line, tokens, server, sent, faults, pushes>>

\* LineTaskProgressNotifier: one push, best effort; an error is swallowed.
notify_push(w) ==
    /\ worker[w].pc = "push"
    /\ worker' = [worker EXCEPT ![w] = IdleWorker]
    /\ \/ sent' = sent \cup {PushMsg(worker[w].task)} /\ UNCHANGED faults
       \/ Fault /\ UNCHANGED sent
    /\ UNCHANGED <<queue, line, tokens, tasks, server, pushes>>

ServerStep(s) ==
    \/ handle_return(s) \/ submit(s) \/ submit_invalid(s) \/ schedule(s)
    \/ status_read(s) \/ reply_text(s) \/ push_send(s)

WorkerStep(w) == run_ended(w) \/ notify_push(w)

Next ==
    \/ \E s \in Server : \/ \E d \in Delivery : deliver(s, d)
                         \/ ServerStep(s) \/ handle_fault(s)
                         \/ \E t \in DOMAIN tasks : line_push_progress(s, t)
    \/ \E w \in Worker : WorkerStep(w) \/ \E t \in DOMAIN tasks : run_one(w, t)

Spec == Init /\ [][Next]_vars

\* Processes run on, and LINE goes on delivering what was not answered.
FairSpec ==
    /\ Spec
    /\ \A s \in Server : WF_vars(ServerStep(s))
    /\ \A d \in Delivery : WF_vars(\E s \in Server : deliver(s, d))

----------------------------------------------------------------------------
(* Properties.                                                             *)

Made(d, i) == {t \in DOMAIN tasks : tasks[t].origin = <<d, i>>}

\* Where the deployment has a queue, the task has a job.
Dispatched(t) == queue => tasks[t].job # "none"

\* "Accepted" is a promise: the task the reply names is stored, its job is in the queue
\* if the deployment has one, and reply and pushes go to the conversation the request
\* came from (handle, LineTaskProgressNotifier, push-progress).
PromisesKept ==
    /\ \A m \in sent : m.kind = "accepted" => m.task \in DOMAIN tasks /\ Dispatched(m.task)
    /\ \A m \in sent : m.kind \in {"accepted", "push"} =>
           LET o == tasks[m.task].origin
               source == Body[o[1]][o[2]].source
           IN m.to = IF source.group = None THEN source.user ELSE source.group

\* A webhook answered with success leaves nothing undone: every text in it has a task
\* (with a job, where there is a queue) and every message its reply, whatever failed in
\* earlier deliveries of it (handle's exceptions end the request).
AckedIsHandled ==
    \A d \in Delivery : line[d].acked =>
        \A i \in DOMAIN Body[d] :
            /\ Body[d][i].type = "text" => \E t \in Made(d, i) : Dispatched(t)
            /\ Body[d][i].type # "other" => <<d, i>> \in tokens

\* The first message of a webhook.
First(d) == CHOOSE i \in Events(d) : \A j \in Events(d) : i <= j

StartsWithText == {d \in Delivery : Events(d) # {} /\ Body[d][First(d)].type = "text"}

\* The first message of a webhook becomes a task in the end (with a job, where there is a
\* queue), although each delivery may fail anywhere: LINE delivers again what was not
\* answered with success.
FirstBecomesTask ==
    \A d \in StartsWithText :
        line[d].count > 0 ~> \E t \in Made(d, First(d)) : Dispatched(t)
=============================================================================
