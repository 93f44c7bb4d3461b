------------------------- MODULE LineChannelProofs -------------------------
(***************************************************************************)
(* Proofs about LineChannel, for any webhooks, any number of processes,    *)
(* deliveries, failures and pushes.                                        *)
(***************************************************************************)
EXTENDS LineChannel, WellFoundedInduction, TLAPS

----------------------------------------------------------------------------
(* Events in their order.                                                  *)

\* Some event is the first of those left.
LEMMA FirstLeft ==
    ASSUME NEW T \in SUBSET Nat, T # {}
    PROVE  \E x \in T : \A y \in T : x <= y
<1>. DEFINE R == {r \in Nat \X Nat : r[1] < r[2]}
<1>1. IsWellFoundedOn(R, Nat)
  BY NatLessThanWellFounded DEF OpToRel
<1>2. PICK x \in T : \A y \in T : <<y, x>> \notin R
  <2>. HIDE DEF R
  <2>. QED  BY <1>1, WFMin
<1>3. ASSUME NEW y \in T
      PROVE  x <= y
  <2>1. <<y, x>> \in Nat \X Nat /\ ~(y < x)
    BY <1>2
  <2>. QED  BY <2>1
<1>. QED  BY <1>3

\* The event in turn is an event of the webhook, and none before it is left.
LEMMA EventInTurn ==
    ASSUME TypeOK, NEW s \in Server, server[s].delivery \in Delivery, More(s)
    PROVE  LET d == server[s].delivery
           IN  /\ At(s) \in Events(d) /\ At(s) \in DOMAIN Body[d] /\ At(s) \in Nat
               /\ server[s].next <= At(s) /\ server[s].next \in Nat
               /\ \A i \in Events(d) : i \in Nat /\ (i < At(s) => i < server[s].next)
               /\ Current(s) \in Event /\ Current(s) = Body[d][At(s)]
<1>. DEFINE d == server[s].delivery
<1>1. Body[d] \in Seq(Event)
  BY LineAssumption
<1>2. \A i \in Events(d) : i \in DOMAIN Body[d] /\ i \in Nat
  BY <1>1 DEF Events
<1>3. Left(s) \in SUBSET Nat /\ Left(s) # {}
  BY <1>2 DEF Left, More
<1>4. At(s) \in Left(s) /\ \A j \in Left(s) : At(s) <= j
  <2>1. \E i \in Left(s) : \A j \in Left(s) : i <= j
    BY <1>3, FirstLeft
  <2>. QED  BY <2>1 DEF At
<1>5. server[s].next \in Nat
  BY DEF TypeOK, ServerCall
<1>6. \A i \in Events(d) : i < At(s) => i < server[s].next
  BY <1>2, <1>3, <1>4, <1>5 DEF Left
<1>7. At(s) \in Events(d) /\ server[s].next <= At(s) /\ At(s) \in DOMAIN Body[d] /\ At(s) \in Nat
  BY <1>2, <1>4 DEF Left
<1>8. Current(s) = Body[d][At(s)] /\ Current(s) \in Event
  BY <1>1, <1>7 DEF Current
<1>. QED  BY <1>2, <1>5, <1>6, <1>7, <1>8

LEMMA SourceType ==
    ASSUME NEW e \in Event
    PROVE  Conversation(e.source) \in STRING /\ e.task \in Nat
<1>1. e.source \in Source /\ e.task \in Nat
  BY DEF Event
<1>. QED  BY <1>1 DEF Source, Conversation

\* A process that stays at its event.
LEMMA TurnKept ==
    ASSUME NEW s, server'[s].delivery = server[s].delivery, server'[s].next = server[s].next
    PROVE  Left(s)' = Left(s) /\ At(s)' = At(s) /\ Current(s)' = Current(s) /\ More(s)' = More(s)
BY DEF Left, At, Current, More

----------------------------------------------------------------------------
(* Type correctness.                                                       *)

\* Between its parts the handler is at an event of the kind it handles.
InTurn(s) ==
    /\ server[s].pc \in {"schedule", "reply"} => More(s) /\ Current(s).type = "text"
    /\ server[s].pc = "status_reply" => More(s) /\ Current(s).type = "status"

TypeInv == TypeOK /\ \A s \in Server : InTurn(s)

LEMMA Columns ==
    ASSUME TypeOK
    PROVE  /\ tasks \in Seq(Task) /\ Len(tasks) \in Nat /\ DOMAIN tasks = 1 .. Len(tasks)
           /\ \A t \in DOMAIN tasks : /\ tasks[t] \in Task /\ tasks[t].job \in JobStatus
                                      /\ tasks[t].conversation \in STRING
           /\ \A s \in Server : /\ server[s] \in ServerCall /\ server[s].next \in Nat
                                /\ server[s].pc \in ServerPC
           /\ \A w \in Worker : worker[w] \in WorkerCall
           /\ server \in [Server -> ServerCall] /\ worker \in [Worker -> WorkerCall]
<1>1. tasks \in Seq(Task) /\ server \in [Server -> ServerCall] /\ worker \in [Worker -> WorkerCall]
  BY DEF TypeOK
<1>2. \A t \in DOMAIN tasks : tasks[t] \in Task
  BY <1>1
<1>. QED  BY <1>1, <1>2 DEF Task, ServerCall

\* The step of one API process, given what it does to the tables.
LEMMA ServerType ==
    ASSUME TypeInv, UNCHANGED queue, NEW s \in Server, NEW c \in ServerCall,
           server' = [server EXCEPT ![s] = c],
           c.pc \notin {"idle", "push"} => c.delivery \in Delivery,
           c.pc \in {"schedule", "reply", "push"} => c.task \in DOMAIN tasks',
           c.task \in 0 .. Len(tasks'),
           InTurn(s)',
           tasks' \in Seq(Task), Len(tasks) <= Len(tasks'),
           line' \in [Delivery -> [count : 0 .. MaxDeliveries, acked : BOOLEAN]],
           tokens' \subseteq Delivery \X Nat,
           sent' \subseteq Message,
           faults' \in 0 .. MaxFaults, pushes' \in 0 .. MaxPushes,
           UNCHANGED worker
    PROVE  TypeInv'
<1>0. Len(tasks) \in Nat /\ Len(tasks') \in Nat /\ DOMAIN tasks = 1 .. Len(tasks)
      /\ DOMAIN tasks' = 1 .. Len(tasks')
  BY DEF TypeInv, TypeOK
<1>1. ASSUME NEW q \in Server
      PROVE  /\ server'[q].pc \notin {"idle", "push"} => server'[q].delivery \in Delivery
             /\ server'[q].pc \in {"schedule", "reply", "push"} => server'[q].task \in DOMAIN tasks'
             /\ server'[q].task \in 0 .. Len(tasks')
             /\ InTurn(q)'
  <2>1. CASE q = s
    <3>1. server'[q] = c
      BY <2>1 DEF TypeInv, TypeOK
    <3>. QED  BY <2>1, <3>1
  <2>2. CASE q # s
    <3>1. server'[q] = server[q]
      BY <2>2 DEF TypeInv, TypeOK
    <3>2. InTurn(q)'
      <4>1. /\ Left(q)' = Left(q) /\ Current(q)' = Current(q) /\ More(q)' = More(q)
        BY <3>1, TurnKept
      <4>2. InTurn(q)
        BY DEF TypeInv
      <4>. QED  BY <3>1, <4>1, <4>2 DEF InTurn
    <3>. QED  BY <1>0, <3>1, <3>2 DEF TypeInv, TypeOK
  <2>. QED  BY <2>1, <2>2
<1>2. \A w \in Worker : worker'[w].pc # "idle" => worker'[w].task \in DOMAIN tasks'
  <2>1. \A w \in Worker : worker[w].pc # "idle" => worker[w].task \in DOMAIN tasks
    BY DEF TypeInv, TypeOK
  <2>2. DOMAIN tasks \subseteq DOMAIN tasks'
    BY <1>0
  <2>. QED  BY <2>1, <2>2
<1>3. server' \in [Server -> ServerCall] /\ worker' \in [Worker -> WorkerCall]
  BY DEF TypeInv, TypeOK
<1>. QED  BY <1>1, <1>2, <1>3 DEF TypeInv, TypeOK

\* The tables and counters of a step that leaves them alone.
LEMMA TablesType ==
    ASSUME TypeInv
    PROVE  /\ line \in [Delivery -> [count : 0 .. MaxDeliveries, acked : BOOLEAN]]
           /\ tokens \subseteq Delivery \X Nat /\ sent \subseteq Message
           /\ faults \in 0 .. MaxFaults /\ pushes \in 0 .. MaxPushes
           /\ tasks \in Seq(Task) /\ Len(tasks) <= Len(tasks)
           /\ Fault => faults' \in 0 .. MaxFaults
<1>1. MaxFaults \in Nat /\ (Fault => faults' = faults + 1 /\ faults < MaxFaults)
  BY LineAssumption DEF Fault
<1>2. tasks \in Seq(Task) /\ faults \in 0 .. MaxFaults
  BY DEF TypeInv, TypeOK
<1>. QED  BY <1>1, <1>2 DEF TypeInv, TypeOK

\* A step of one API process that writes no table but the tasks.
LEMMA ServerTypeOnly ==
    ASSUME TypeInv, UNCHANGED queue, NEW s \in Server, NEW c \in ServerCall,
           server' = [server EXCEPT ![s] = c],
           c.pc \notin {"idle", "push"} => c.delivery \in Delivery,
           c.pc \in {"schedule", "reply", "push"} => c.task \in DOMAIN tasks',
           c.task \in 0 .. Len(tasks'),
           InTurn(s)',
           tasks' \in Seq(Task), Len(tasks) <= Len(tasks'),
           UNCHANGED <<queue, line, tokens, worker, sent, faults, pushes>>
    PROVE  TypeInv'
<1>1. /\ line' \in [Delivery -> [count : 0 .. MaxDeliveries, acked : BOOLEAN]]
      /\ tokens' \subseteq Delivery \X Nat /\ sent' \subseteq Message
      /\ faults' \in 0 .. MaxFaults /\ pushes' \in 0 .. MaxPushes
  BY TablesType
<1>. QED  BY <1>1, ServerType

\* A reply is a message of LINE's, and its token that of an event.
LEMMA ReplyType ==
    ASSUME TypeInv, NEW s \in Server, server[s].pc \in {"reply", "status_reply"}
    PROVE  /\ ReplyMsg(s) \in Message
           /\ <<server[s].delivery, At(s)>> \in Delivery \X Nat
           /\ ReplyMsg(s).to = Conversation(Current(s).source)
           /\ ReplyMsg(s).task = server[s].task
           /\ (ReplyMsg(s).kind = "accepted") <=> (server[s].pc = "reply")
           /\ ReplyMsg(s).kind # "push"
<1>1. TypeOK /\ server[s].delivery \in Delivery /\ More(s) /\ server[s].task \in Nat
  BY DEF TypeInv, InTurn, TypeOK, ServerCall
<1>2. Conversation(Current(s).source) \in STRING
  BY <1>1, EventInTurn, SourceType
<1>. DEFINE to == Conversation(Current(s).source)
<1>3. ReplyMsg(s) = [kind |-> IF server[s].pc = "reply" THEN "accepted"
                              ELSE IF server[s].task = 0 THEN "status_missing" ELSE "status",
                     to |-> to, task |-> server[s].task]
  BY DEF ReplyMsg, Msg
<1>4. <<server[s].delivery, At(s)>> \in Delivery \X Nat
  BY <1>1, EventInTurn
<1>5. to \in STRING
  BY <1>2
<1>. HIDE DEF to
<1>6. ReplyMsg(s).to = to
  BY <1>3
<1>. QED  BY <1>1, <1>3, <1>4, <1>5, <1>6 DEF Message, to

\* The ways an API process ends its request or goes to another part of the handler.
LEMMA CallType ==
    ASSUME TypeInv, NEW s \in Server
    PROVE  /\ IdleServer \in ServerCall
           /\ \A pc \in ServerPC : /\ [server[s] EXCEPT !.pc = pc] \in ServerCall
                                   /\ [server[s] EXCEPT !.pc = pc].pc = pc
                                   /\ [server[s] EXCEPT !.pc = pc].delivery = server[s].delivery
                                   /\ [server[s] EXCEPT !.pc = pc].next = server[s].next
                                   /\ [server[s] EXCEPT !.pc = pc].task = server[s].task
           /\ \A pc \in ServerPC, t \in Nat :
                  /\ [server[s] EXCEPT !.pc = pc, !.task = t] \in ServerCall
                  /\ [server[s] EXCEPT !.pc = pc, !.task = t].pc = pc
                  /\ [server[s] EXCEPT !.pc = pc, !.task = t].delivery = server[s].delivery
                  /\ [server[s] EXCEPT !.pc = pc, !.task = t].next = server[s].next
                  /\ [server[s] EXCEPT !.pc = pc, !.task = t].task = t
<1>1. server[s] \in ServerCall
  BY DEF TypeInv, TypeOK
<1>. QED  BY <1>1 DEF IdleServer, ServerCall, ServerPC

LEMMA FreeType ==
    ASSUME TypeInv, UNCHANGED queue, NEW s \in Server, Free(s),
           tasks' \in Seq(Task), Len(tasks) <= Len(tasks'),
           line' \in [Delivery -> [count : 0 .. MaxDeliveries, acked : BOOLEAN]],
           tokens' \subseteq Delivery \X Nat,
           sent' \subseteq Message,
           faults' \in 0 .. MaxFaults, pushes' \in 0 .. MaxPushes,
           UNCHANGED worker
    PROVE  TypeInv'
<1>1. server'[s] = IdleServer /\ server' = [server EXCEPT ![s] = IdleServer]
  BY DEF Free, TypeInv, TypeOK
<1>2. InTurn(s)'
  BY <1>1 DEF InTurn, IdleServer
<1>3. IdleServer.pc = "idle" /\ IdleServer.task = 0 /\ 0 \in 0 .. Len(tasks')
  BY DEF IdleServer
<1>4. IdleServer \in ServerCall
  BY CallType
<1>. QED  BY <1>1, <1>2, <1>3, <1>4, ServerType

\* The next event, once the current one is handled.
LEMMA NextType ==
    ASSUME TypeInv, NEW s \in Server, NextEvent(s),
           server[s].pc \in {"reply", "status_reply"},
           tokens' \subseteq Delivery \X Nat,
           sent' \subseteq Message,
           UNCHANGED <<queue, line, tasks, worker, faults, pushes>>
    PROVE  TypeInv'
<1>. DEFINE c == [server[s] EXCEPT !.pc = "event", !.next = At(s) + 1]
<1>1. TypeOK /\ server[s].delivery \in Delivery /\ More(s)
      /\ server[s].task \in 0 .. Len(tasks)
  BY DEF TypeInv, InTurn, TypeOK
<1>2. At(s) + 1 \in Nat
  BY <1>1, EventInTurn
<1>3. server[s] \in ServerCall /\ server \in [Server -> ServerCall]
  BY <1>1, Columns
<1>4. /\ c \in ServerCall /\ c.pc = "event" /\ c.delivery = server[s].delivery
      /\ c.task = server[s].task
  BY <1>2, <1>3 DEF ServerCall, ServerPC
<1>5. server' = [server EXCEPT ![s] = c] /\ server'[s] = c
  BY <1>3 DEF NextEvent
<1>. HIDE DEF c
<1>6. InTurn(s)'
  BY <1>4, <1>5 DEF InTurn
<1>. QED  BY <1>1, <1>4, <1>5, <1>6, ServerType, TablesType

\* The handler of a webhook.
LEMMA HandlerType ==
    ASSUME TypeInv, NEW s \in Server,
           \/ \E d \in Delivery : deliver(s, d)
           \/ handle_return(s) \/ submit(s) \/ submit_invalid(s) \/ schedule(s)
           \/ status_read(s) \/ reply_text(s) \/ handle_fault(s)
    PROVE  TypeInv'
<1>0. /\ server \in [Server -> ServerCall] /\ server[s] \in ServerCall
      /\ tasks \in Seq(Task) /\ Len(tasks) \in Nat /\ DOMAIN tasks = 1 .. Len(tasks)
      /\ server[s].task \in 0 .. Len(tasks) /\ TypeOK
      /\ server[s].pc \notin {"idle", "push"} => server[s].delivery \in Delivery
  BY Columns DEF TypeInv, TypeOK
<1>1. ASSUME NEW d \in Delivery, deliver(s, d)
      PROVE  TypeInv'
  <2>. DEFINE c == [IdleServer EXCEPT !.pc = "event", !.delivery = d]
  <2>1. c \in ServerCall /\ c.pc = "event" /\ c.delivery = d /\ c.task = 0
    BY DEF IdleServer, ServerCall, ServerPC
  <2>2. server' = [server EXCEPT ![s] = c] /\ server'[s] = c
    BY <1>0, <1>1 DEF deliver
  <2>3. line' \in [Delivery -> [count : 0 .. MaxDeliveries, acked : BOOLEAN]]
    <3>1. line[d] \in [count : 0 .. MaxDeliveries, acked : BOOLEAN] /\ MaxDeliveries \in Nat
      BY LineAssumption, TablesType
    <3>2. line[d].count < MaxDeliveries /\ line' = [line EXCEPT ![d].count = @ + 1]
      BY <1>1 DEF deliver
    <3>3. [line[d] EXCEPT !.count = @ + 1] \in [count : 0 .. MaxDeliveries, acked : BOOLEAN]
      BY <3>1, <3>2
    <3>. QED  BY <3>2, <3>3, TablesType
  <2>. HIDE DEF c
  <2>4. InTurn(s)'
    BY <2>1, <2>2 DEF InTurn
  <2>5. UNCHANGED <<queue, tokens, tasks, worker, sent, faults, pushes>>
    BY <1>1 DEF deliver
  <2>7. /\ tasks' \in Seq(Task) /\ Len(tasks) <= Len(tasks') /\ c.task \in 0 .. Len(tasks')
        /\ c.pc \notin {"schedule", "reply", "push"}
    BY <1>0, <2>1, <2>5
  <2>6. /\ tokens' \subseteq Delivery \X Nat /\ sent' \subseteq Message
        /\ faults' \in 0 .. MaxFaults /\ pushes' \in 0 .. MaxPushes
    BY <2>5, TablesType
  <2>. QED  BY <2>1, <2>2, <2>3, <2>4, <2>5, <2>6, <2>7, ServerType
<1>2. CASE handle_return(s)
  <2>1. line' \in [Delivery -> [count : 0 .. MaxDeliveries, acked : BOOLEAN]]
    <3>. DEFINE d == server[s].delivery
    <3>1. d \in Delivery /\ line[d] \in [count : 0 .. MaxDeliveries, acked : BOOLEAN]
      BY <1>0, <1>2, TablesType DEF handle_return
    <3>2. line' = [line EXCEPT ![d].acked = TRUE]
      BY <1>2 DEF handle_return
    <3>. HIDE DEF d
    <3>. QED  BY <3>1, <3>2, TablesType
  <2>. QED  BY <1>2, <2>1, FreeType, TablesType DEF handle_return
<1>3. CASE submit(s)
  <2>. DEFINE task == [job |-> "none", conversation |-> Conversation(Current(s).source),
                       origin |-> <<server[s].delivery, At(s)>>]
              c == [server[s] EXCEPT !.pc = "schedule", !.task = Len(tasks')]
  <2>1. /\ At(s) \in Nat /\ Conversation(Current(s).source) \in STRING
        /\ server[s].delivery \in Delivery /\ More(s) /\ Current(s).type = "text"
    BY <1>0, <1>3, EventInTurn, SourceType DEF submit
  <2>2. task \in Task
    <3>. DEFINE to == Conversation(Current(s).source)
                from == <<server[s].delivery, At(s)>>
    <3>1. to \in STRING /\ from \in Delivery \X Nat
      BY <2>1
    <3>2. task = [job |-> "none", conversation |-> to, origin |-> from]
      OBVIOUS
    <3>. HIDE DEF to, from, task
    <3>. QED  BY <3>1, <3>2 DEF Task, JobStatus
  <2>3. tasks' = Append(tasks, task)
    BY <1>3 DEF submit
  <2>4. tasks' \in Seq(Task) /\ Len(tasks') = Len(tasks) + 1 /\ DOMAIN tasks' = 1 .. Len(tasks')
    <3>. HIDE DEF task
    <3>. QED  BY <1>0, <2>2, <2>3
  <2>5. /\ c \in ServerCall /\ c.pc = "schedule" /\ c.delivery = server[s].delivery
        /\ c.next = server[s].next /\ c.task = Len(tasks')
    <3>. DEFINE n == Len(tasks')
    <3>1. "schedule" \in ServerPC /\ n \in Nat
      BY <1>0, <2>4 DEF ServerPC
    <3>2. c = [server[s] EXCEPT !.pc = "schedule", !.task = n]
      OBVIOUS
    <3>. HIDE DEF n, c
    <3>3. /\ c \in ServerCall /\ c.pc = "schedule" /\ c.delivery = server[s].delivery
          /\ c.next = server[s].next /\ c.task = n
      BY <1>0, <3>1, <3>2 DEF ServerCall
    <3>. QED  BY <3>3 DEF n
  <2>6. server' = [server EXCEPT ![s] = c] /\ server'[s] = c
    BY <1>0, <1>3 DEF submit
  <2>. HIDE DEF c, task
  <2>7. InTurn(s)'
    <3>1. More(s)' = More(s) /\ Current(s)' = Current(s)
      BY <2>5, <2>6, TurnKept
    <3>. QED  BY <2>1, <2>5, <2>6, <3>1 DEF InTurn
  <2>8. Len(tasks') \in DOMAIN tasks' /\ Len(tasks') \in 0 .. Len(tasks') /\ Len(tasks) <= Len(tasks')
    BY <1>0, <2>4
  <2>9. UNCHANGED <<queue, line, tokens, worker, sent, faults, pushes>>
    BY <1>3 DEF submit
  <2>. QED  BY <2>1, <2>4, <2>5, <2>6, <2>7, <2>8, <2>9, ServerTypeOnly
<1>4. CASE submit_invalid(s)
  BY <1>4, FreeType, TablesType DEF submit_invalid, Fails
<1>5. CASE schedule(s)
  <2>. DEFINE t == server[s].task
              c == [server[s] EXCEPT !.pc = "reply"]
  <2>1. t \in DOMAIN tasks /\ server[s].delivery \in Delivery
    BY <1>5 DEF schedule, TypeInv, TypeOK
  <2>2. tasks' = [tasks EXCEPT ![t].job = "queued"] \/ UNCHANGED tasks
    BY <1>5 DEF schedule
  <2>3. tasks' \in Seq(Task) /\ Len(tasks') = Len(tasks) /\ DOMAIN tasks' = DOMAIN tasks
    <3>1. [tasks[t] EXCEPT !.job = "queued"] \in Task
      BY <2>1, Columns, TypeInv DEF Task, JobStatus, TypeInv
    <3>. HIDE DEF t
    <3>. QED  BY <1>0, <2>1, <2>2, <3>1
  <2>4. /\ c \in ServerCall /\ c.pc = "reply" /\ c.delivery = server[s].delivery
        /\ c.next = server[s].next /\ c.task = t
    BY CallType DEF ServerPC
  <2>5. server' = [server EXCEPT ![s] = c] /\ server'[s] = c
    BY <1>0, <1>5 DEF schedule, GotoS
  <2>. HIDE DEF c
  <2>6. InTurn(s)'
    <3>1. More(s)' = More(s) /\ Current(s)' = Current(s)
      BY <2>4, <2>5, TurnKept
    <3>. QED  BY <1>5, <2>4, <2>5, <3>1 DEF InTurn, TypeInv, schedule
  <2>7. Len(tasks) <= Len(tasks')
    BY <1>0, <2>3
  <2>. QED  BY <1>0, <1>5, <2>1, <2>3, <2>4, <2>5, <2>6, <2>7, ServerType, TablesType DEF schedule
<1>6. CASE status_read(s)
  <2>. DEFINE t == IF Current(s).task <= Len(tasks) THEN Current(s).task ELSE 0
              c == [server[s] EXCEPT !.pc = "status_reply", !.task = t]
  <2>1. t \in 0 .. Len(tasks) /\ t \in Nat /\ server[s].delivery \in Delivery
        /\ More(s) /\ Current(s).type = "status"
    <3>1. Current(s).task \in Nat
      BY <1>0, <1>6, EventInTurn, SourceType DEF status_read
    <3>. QED  BY <1>0, <1>6, <3>1 DEF status_read
  <2>2. server' = [server EXCEPT ![s] = c] /\ server'[s] = c
    BY <1>0, <1>6 DEF status_read
  <2>. HIDE DEF t
  <2>3. /\ c \in ServerCall /\ c.pc = "status_reply" /\ c.delivery = server[s].delivery
        /\ c.next = server[s].next /\ c.task = t
    BY <1>0, <2>1 DEF ServerCall, ServerPC
  <2>. HIDE DEF c
  <2>4. InTurn(s)'
    <3>1. More(s)' = More(s) /\ Current(s)' = Current(s)
      BY <2>2, <2>3, TurnKept
    <3>. QED  BY <2>1, <2>2, <2>3, <3>1 DEF InTurn
  <2>5. UNCHANGED <<queue, line, tokens, tasks, worker, sent, faults, pushes>>
        /\ Len(tasks) <= Len(tasks)
    BY <1>0, <1>6 DEF status_read
  <2>. QED  BY <1>0, <2>1, <2>2, <2>3, <2>4, <2>5, ServerTypeOnly
<1>7. CASE reply_text(s) \/ handle_fault(s)
  <2>1. server[s].pc \in {"reply", "status_reply"} /\ Accepted(s) =>
            tokens' \subseteq Delivery \X Nat /\ sent' \subseteq Message
    BY ReplyType, TablesType DEF Accepted
  <2>2. CASE handle_fault(s)
    BY <2>1, <2>2, FreeType, TablesType DEF handle_fault, Fails
  <2>3. CASE reply_text(s) /\ ReplyRefused(s)
    BY <2>3, FreeType, TablesType DEF reply_text, Fails
  <2>4. CASE reply_text(s) /\ ~ReplyRefused(s)
    BY <2>1, <2>4, NextType DEF reply_text
  <2>. QED  BY <1>7, <2>2, <2>3, <2>4
<1>. QED  BY <1>1, <1>2, <1>3, <1>4, <1>5, <1>6, <1>7

\* Pushes and workers.
LEMMA PushType ==
    ASSUME TypeInv, NEW s \in Server,
           push_send(s) \/ \E t \in DOMAIN tasks : line_push_progress(s, t)
    PROVE  TypeInv'
<1>0. /\ server \in [Server -> ServerCall] /\ tasks \in Seq(Task)
      /\ Len(tasks) \in Nat /\ DOMAIN tasks = 1 .. Len(tasks)
      /\ \A t \in DOMAIN tasks : tasks[t].conversation \in STRING
  BY Columns DEF TypeInv
<1>1. \A t \in DOMAIN tasks : PushMsg(t) \in Message
  <2>. SUFFICES ASSUME NEW t \in DOMAIN tasks
                PROVE  PushMsg(t) \in Message
    OBVIOUS
  <2>. DEFINE to == tasks[t].conversation
  <2>1. to \in STRING /\ t \in Nat /\ PushMsg(t) = [kind |-> "push", to |-> to, task |-> t]
    BY <1>0 DEF PushMsg, Msg
  <2>. HIDE DEF to
  <2>. QED  BY <2>1 DEF Message
<1>2. CASE push_send(s)
  <2>1. server[s].task \in DOMAIN tasks
    BY <1>2 DEF push_send, TypeInv, TypeOK
  <2>2. sent' \subseteq Message /\ faults' \in 0 .. MaxFaults
    BY <1>1, <1>2, <2>1, TablesType DEF push_send
  <2>3. Free(s) /\ UNCHANGED <<queue, line, tokens, tasks, worker, pushes>>
    BY <1>2 DEF push_send
  <2>. QED  BY <2>2, <2>3, FreeType, TablesType
<1>3. ASSUME NEW t \in DOMAIN tasks, line_push_progress(s, t)
      PROVE  TypeInv'
  <2>. DEFINE c == [IdleServer EXCEPT !.pc = "push", !.task = t]
  <2>1. t \in Nat /\ t \in 0 .. Len(tasks)
    BY <1>0
  <2>2. c \in ServerCall /\ c.pc = "push" /\ c.task = t
    BY <2>1 DEF IdleServer, ServerCall, ServerPC
  <2>3. server' = [server EXCEPT ![s] = c] /\ server'[s] = c
    BY <1>0, <1>3 DEF line_push_progress
  <2>. HIDE DEF c
  <2>4. InTurn(s)'
    BY <2>2, <2>3 DEF InTurn
  <2>5. UNCHANGED <<queue, line, tokens, tasks, worker, sent, faults>>
    BY <1>3 DEF line_push_progress
  <2>6. pushes' \in 0 .. MaxPushes
    <3>1. pushes \in 0 .. MaxPushes /\ MaxPushes \in Nat
      BY LineAssumption, TablesType
    <3>2. pushes < MaxPushes /\ pushes' = pushes + 1
      BY <1>3 DEF line_push_progress
    <3>. QED  BY <3>1, <3>2
  <2>7. /\ line' \in [Delivery -> [count : 0 .. MaxDeliveries, acked : BOOLEAN]]
        /\ tokens' \subseteq Delivery \X Nat /\ sent' \subseteq Message
        /\ faults' \in 0 .. MaxFaults /\ tasks' \in Seq(Task) /\ Len(tasks) <= Len(tasks')
    BY <2>5, TablesType
  <2>. QED  BY <2>1, <2>2, <2>3, <2>4, <2>5, <2>6, <2>7, ServerType
<1>. QED  BY <1>2, <1>3

LEMMA WorkerType ==
    ASSUME TypeInv, NEW w \in Worker,
           WorkerStep(w) \/ \E t \in DOMAIN tasks : run_one(w, t)
    PROVE  TypeInv'
<1>0. /\ tasks \in Seq(Task) /\ Len(tasks) \in Nat /\ DOMAIN tasks = 1 .. Len(tasks)
      /\ worker \in [Worker -> WorkerCall] /\ worker[w] \in WorkerCall
      /\ \A t \in DOMAIN tasks : tasks[t] \in Task /\ tasks[t].conversation \in STRING
  BY Columns DEF TypeInv
<1>1. ASSUME NEW c \in WorkerCall, worker' = [worker EXCEPT ![w] = c],
             c.pc # "idle" => c.task \in DOMAIN tasks,
             tasks' \in Seq(Task), Len(tasks') = Len(tasks), DOMAIN tasks' = DOMAIN tasks,
             sent' \subseteq Message, faults' \in 0 .. MaxFaults,
             UNCHANGED <<queue, line, tokens, server, pushes>>
      PROVE  TypeInv'
  <2>1. \A v \in Worker : worker'[v].pc # "idle" => worker'[v].task \in DOMAIN tasks'
    BY <1>0, <1>1 DEF TypeInv, TypeOK
  <2>2. \A s \in Server : /\ server'[s].pc \notin {"idle", "push"} => server'[s].delivery \in Delivery
                          /\ server'[s].pc \in {"schedule", "reply", "push"} => server'[s].task \in DOMAIN tasks'
                          /\ server'[s].task \in 0 .. Len(tasks')
    BY <1>1 DEF TypeInv, TypeOK
  <2>3. ASSUME NEW s \in Server
        PROVE  InTurn(s)'
    <3>1. InTurn(s) /\ More(s)' = More(s) /\ Current(s)' = Current(s)
      BY <1>1, TurnKept DEF TypeInv
    <3>. QED  BY <1>1, <3>1 DEF InTurn
  <2>4. /\ worker' \in [Worker -> WorkerCall] /\ server' \in [Server -> ServerCall]
        /\ line' \in [Delivery -> [count : 0 .. MaxDeliveries, acked : BOOLEAN]]
        /\ tokens' \subseteq Delivery \X Nat /\ pushes' \in 0 .. MaxPushes
    BY <1>0, <1>1 DEF TypeInv, TypeOK
  <2>. QED  BY <1>1, <2>1, <2>2, <2>3, <2>4 DEF TypeInv, TypeOK
<1>2. ASSUME NEW t \in DOMAIN tasks, NEW j \in JobStatus, tasks' = [tasks EXCEPT ![t].job = j]
      PROVE  tasks' \in Seq(Task) /\ Len(tasks') = Len(tasks) /\ DOMAIN tasks' = DOMAIN tasks
  <2>1. [tasks[t] EXCEPT !.job = j] \in Task
    BY <1>0, <1>2 DEF Task
  <2>. QED  BY <1>0, <1>2, <2>1
<1>3. ASSUME NEW t \in DOMAIN tasks, run_one(w, t)
      PROVE  TypeInv'
  <2>. DEFINE c == [IdleWorker EXCEPT !.pc = "running", !.task = t]
  <2>1. c \in WorkerCall /\ c.task = t /\ worker' = [worker EXCEPT ![w] = c]
    <3>1. worker' = [worker EXCEPT ![w] = c]
      BY <1>3 DEF run_one
    <3>2. t \in Nat
      BY <1>0
    <3>3. c \in WorkerCall /\ c.task = t
      BY <3>2 DEF IdleWorker, WorkerCall
    <3>. QED  BY <3>1, <3>3
  <2>2. tasks' \in Seq(Task) /\ Len(tasks') = Len(tasks) /\ DOMAIN tasks' = DOMAIN tasks
    BY <1>2, <1>3 DEF run_one, JobStatus
  <2>3. UNCHANGED <<queue, line, tokens, server, sent, faults, pushes>>
    BY <1>3 DEF run_one
  <2>4. sent' \subseteq Message /\ faults' \in 0 .. MaxFaults
    BY <2>3, TablesType
  <2>. HIDE DEF c
  <2>. QED  BY <1>1, <2>1, <2>2, <2>3, <2>4
<1>4. CASE run_ended(w)
  <2>. DEFINE c == [worker[w] EXCEPT !.pc = "push"]
  <2>1. worker[w].task \in DOMAIN tasks
    BY <1>4 DEF run_ended, TypeInv, TypeOK
  <2>2. c \in WorkerCall /\ c.task = worker[w].task /\ worker' = [worker EXCEPT ![w] = c]
    BY <1>0, <1>4 DEF run_ended, WorkerCall
  <2>3. tasks' \in Seq(Task) /\ Len(tasks') = Len(tasks) /\ DOMAIN tasks' = DOMAIN tasks
    BY <1>2, <1>4, <2>1 DEF run_ended, JobStatus
  <2>4. UNCHANGED <<queue, line, tokens, server, sent, faults, pushes>>
    BY <1>4 DEF run_ended
  <2>5. sent' \subseteq Message /\ faults' \in 0 .. MaxFaults
    BY <2>4, TablesType
  <2>. HIDE DEF c
  <2>. QED  BY <1>1, <2>1, <2>2, <2>3, <2>4, <2>5
<1>5. CASE notify_push(w)
  <2>1. worker[w].task \in DOMAIN tasks
    BY <1>5 DEF notify_push, TypeInv, TypeOK
  <2>2. PushMsg(worker[w].task) \in Message
    <3>. DEFINE t == worker[w].task
                to == tasks[t].conversation
    <3>1. /\ to \in STRING /\ t \in Nat
          /\ PushMsg(worker[w].task) = [kind |-> "push", to |-> to, task |-> t]
      BY <1>0, <2>1 DEF PushMsg, Msg
    <3>. HIDE DEF to, t
    <3>. QED  BY <3>1 DEF Message
  <2>3. sent' \subseteq Message /\ faults' \in 0 .. MaxFaults
    <3>1. \/ sent' = sent \cup {PushMsg(worker[w].task)} /\ UNCHANGED faults
          \/ Fault /\ UNCHANGED sent
      BY <1>5 DEF notify_push
    <3>2. CASE sent' = sent \cup {PushMsg(worker[w].task)} /\ UNCHANGED faults
      BY <2>2, <3>2, TablesType
    <3>3. CASE Fault /\ UNCHANGED sent
      BY <3>3, TablesType
    <3>. QED  BY <3>1, <3>2, <3>3
  <2>4. IdleWorker \in WorkerCall /\ IdleWorker.pc = "idle"
    BY DEF IdleWorker, WorkerCall
  <2>5. worker' = [worker EXCEPT ![w] = IdleWorker] /\ UNCHANGED <<queue, line, tokens, tasks, server, pushes>>
    BY <1>5 DEF notify_push
  <2>6. tasks' \in Seq(Task) /\ Len(tasks') = Len(tasks) /\ DOMAIN tasks' = DOMAIN tasks
    BY <1>0, <2>5
  <2>. QED  BY <1>1, <2>3, <2>4, <2>5, <2>6
<1>. QED  BY <1>3, <1>4, <1>5 DEF WorkerStep

LEMMA TypeInvariant == Spec => []TypeInv
<1>1. Init => TypeInv
  <2>. SUFFICES ASSUME Init PROVE TypeInv
    OBVIOUS
  <2>1. /\ tasks = <<>> /\ tasks \in Seq(Task) /\ Len(tasks) = 0
        /\ {MaxFaults, MaxDeliveries, MaxPushes} \subseteq Nat
    BY LineAssumption DEF Init
  <2>2. IdleServer \in ServerCall /\ IdleWorker \in WorkerCall
    BY DEF IdleServer, IdleWorker, ServerCall, WorkerCall, ServerPC
  <2>3. \A s \in Server : server[s] = IdleServer /\ server[s].pc = "idle" /\ server[s].task = 0
    BY DEF Init, IdleServer
  <2>4. \A w \in Worker : worker[w] = IdleWorker /\ worker[w].pc = "idle"
    BY DEF Init, IdleWorker
  <2>5. server \in [Server -> ServerCall] /\ worker \in [Worker -> WorkerCall]
    BY <2>2 DEF Init
  <2>. QED  BY <2>1, <2>3, <2>4, <2>5 DEF Init, TypeInv, TypeOK, InTurn
<1>2. TypeInv /\ [Next]_vars => TypeInv'
  <2>. SUFFICES ASSUME TypeInv, [Next]_vars
                PROVE  TypeInv'
    OBVIOUS
  <2>1. CASE UNCHANGED vars
    <3>1. \A s \in Server : InTurn(s)'
      <4>. SUFFICES ASSUME NEW s \in Server
                    PROVE  InTurn(s)'
        OBVIOUS
      <4>1. InTurn(s) /\ More(s)' = More(s) /\ Current(s)' = Current(s)
        BY <2>1, TurnKept DEF TypeInv, vars
      <4>. QED  BY <2>1, <4>1 DEF InTurn, vars
    <3>. QED  BY <2>1, <3>1 DEF vars, TypeInv, TypeOK
  <2>2. CASE Next
    BY <2>2, HandlerType, PushType, WorkerType DEF Next, ServerStep
  <2>. QED  BY <2>1, <2>2
<1>. QED  BY <1>1, <1>2, PTL DEF Spec

\* Calls are about webhooks, events and tasks that exist, whatever fails and however
\* often LINE delivers.
THEOREM TypeCorrect == Spec => []TypeOK
<1>1. TypeInv => TypeOK
  BY DEF TypeInv
<1>. QED  BY <1>1, TypeInvariant, PTL

----------------------------------------------------------------------------
(* Promises.  What a reply names was made from the event that is replied   *)
(* to, and no step takes a task away, gives it to another conversation or  *)
(* leaves it without the job it had.                                       *)

\* A task goes to the conversation of the event it was made from.
FromEvent(t) ==
    LET o == tasks[t].origin
    IN  /\ o[1] \in Delivery /\ o[2] \in DOMAIN Body[o[1]]
        /\ tasks[t].conversation = Conversation(Body[o[1]][o[2]].source)

\* Between submit and the reply, the handler's task is that of its event.
Holds(s) ==
    /\ server[s].pc \in {"schedule", "reply"} =>
           tasks[server[s].task].origin = <<server[s].delivery, At(s)>>
    /\ server[s].pc = "reply" => Dispatched(server[s].task)

\* What a message says of a task.
Kept(m) ==
    /\ m.kind \in {"accepted", "push"} =>
           m.task \in DOMAIN tasks /\ m.to = tasks[m.task].conversation
    /\ m.kind = "accepted" => Dispatched(m.task)

PromiseInv ==
    /\ \A t \in DOMAIN tasks : FromEvent(t)
    /\ \A s \in Server : Holds(s)
    /\ \A m \in sent : Kept(m)

\* No step changes what a task is about, or takes its job away, or forgets a token.
LEMMA TasksStand ==
    ASSUME TypeInv, [Next]_vars
    PROVE  /\ \A t \in DOMAIN tasks :
                  /\ t \in DOMAIN tasks'
                  /\ tasks'[t].origin = tasks[t].origin
                  /\ tasks'[t].conversation = tasks[t].conversation
                  /\ tasks[t].job # "none" => tasks'[t].job # "none"
                  /\ Dispatched(t) => Dispatched(t)'
           /\ tokens \subseteq tokens' /\ UNCHANGED queue
<1>0. tasks \in Seq(Task) /\ \A t \in DOMAIN tasks : tasks[t] \in Task
  BY Columns DEF TypeInv
<1>1. tokens \subseteq tokens'
  BY DEF Next, ServerStep, WorkerStep, deliver, handle_return, submit, submit_invalid, schedule,
         status_read, reply_text, Accepted, handle_fault, push_send, line_push_progress,
         run_one, run_ended, notify_push, vars
<1>2. \/ UNCHANGED tasks
      \/ \E s \in Server : submit(s)
      \/ \E t \in Nat, j \in {"queued", "running", "settled"} : tasks' = [tasks EXCEPT ![t].job = j]
  <2>1. ASSUME NEW s \in Server, schedule(s)
        PROVE  \E t \in Nat, j \in {"queued", "running", "settled"} :
                   tasks' = [tasks EXCEPT ![t].job = j]
    BY <2>1, Columns DEF schedule, TypeInv, ServerCall
  <2>2. ASSUME NEW w \in Worker, WorkerStep(w) \/ \E t \in DOMAIN tasks : run_one(w, t)
        PROVE  \/ UNCHANGED tasks
               \/ \E t \in Nat, j \in {"queued", "running", "settled"} :
                      tasks' = [tasks EXCEPT ![t].job = j]
    <3>1. worker[w].task \in Nat /\ DOMAIN tasks \subseteq Nat
      BY Columns DEF TypeInv, WorkerCall
    <3>. QED  BY <2>2, <3>1 DEF WorkerStep, run_one, run_ended, notify_push
  <2>. QED  BY <2>1, <2>2 DEF Next, ServerStep, deliver, handle_return, submit_invalid,
           status_read, reply_text, handle_fault, push_send, line_push_progress, vars
<1>3. ASSUME NEW s \in Server, submit(s), NEW t \in DOMAIN tasks
      PROVE  t \in DOMAIN tasks' /\ tasks'[t] = tasks[t]
  <2>1. PICK task : tasks' = Append(tasks, task)
    BY <1>3 DEF submit
  <2>. QED  BY <1>0, <2>1
<1>4. ASSUME NEW t \in Nat, NEW j \in {"queued", "running", "settled"},
             tasks' = [tasks EXCEPT ![t].job = j], NEW u \in DOMAIN tasks
      PROVE  /\ u \in DOMAIN tasks' /\ tasks'[u].origin = tasks[u].origin
             /\ tasks'[u].conversation = tasks[u].conversation
             /\ tasks[u].job # "none" => tasks'[u].job # "none"
  <2>1. tasks[u] \in Task
    BY <1>0
  <2>2. CASE u = t
    BY <1>4, <2>1, <2>2 DEF Task
  <2>3. CASE u # t
    BY <1>4, <2>3
  <2>. QED  BY <2>2, <2>3
<1>5. UNCHANGED queue
  BY DEF Next, ServerStep, WorkerStep, deliver, handle_return, submit, submit_invalid, schedule,
         status_read, reply_text, handle_fault, push_send, line_push_progress, run_one,
         run_ended, notify_push, vars
<1>6. \A t \in DOMAIN tasks :
          /\ t \in DOMAIN tasks'
          /\ tasks'[t].origin = tasks[t].origin
          /\ tasks'[t].conversation = tasks[t].conversation
          /\ tasks[t].job # "none" => tasks'[t].job # "none"
  BY <1>2, <1>3, <1>4
<1>7. \A t \in DOMAIN tasks : Dispatched(t) => Dispatched(t)'
  BY <1>5, <1>6 DEF Dispatched
<1>. QED  BY <1>1, <1>5, <1>6, <1>7

\* How an API process gets somewhere else.
LEMMA ServerMoves ==
    ASSUME TypeInv, [Next]_vars, NEW s \in Server
    PROVE  \/ server'[s] = server[s]
           \/ submit(s) \/ schedule(s) \/ status_read(s)
           \/ reply_text(s) /\ ~ReplyRefused(s)
           \/ \E d \in Delivery : deliver(s, d)
           \/ server'[s].pc \in {"idle", "push"}
<1>0. server \in [Server -> ServerCall]
  BY Columns DEF TypeInv
<1>1. ASSUME NEW q \in Server, Free(q)
      PROVE  server'[s] = server[s] \/ server'[s].pc = "idle"
  BY <1>0, <1>1 DEF Free, IdleServer
<1>2. ASSUME NEW q \in Server,
             submit(q) \/ schedule(q) \/ status_read(q) \/ \E d \in Delivery : deliver(q, d)
      PROVE  server'[s] = server[s] \/ q = s
  BY <1>0, <1>2 DEF submit, schedule, status_read, deliver, GotoS
<1>3. ASSUME NEW q \in Server, reply_text(q)
      PROVE  \/ server'[s] = server[s] \/ server'[s].pc = "idle"
             \/ q = s /\ ~ReplyRefused(s)
  BY <1>0, <1>1, <1>3 DEF reply_text, Fails, NextEvent
<1>4. ASSUME NEW q \in Server, \E t \in DOMAIN tasks : line_push_progress(q, t)
      PROVE  server'[s] = server[s] \/ server'[s].pc = "push"
  BY <1>0, <1>4 DEF line_push_progress, IdleServer
<1>5. ASSUME NEW q \in Server,
             handle_return(q) \/ submit_invalid(q) \/ handle_fault(q) \/ push_send(q)
      PROVE  Free(q)
  BY <1>5 DEF handle_return, submit_invalid, handle_fault, push_send, Fails
<1>6. ASSUME NEW w \in Worker, WorkerStep(w) \/ \E t \in DOMAIN tasks : run_one(w, t)
      PROVE  server' = server
  BY <1>6 DEF WorkerStep, run_one, run_ended, notify_push
<1>. QED  BY <1>1, <1>2, <1>3, <1>4, <1>5, <1>6 DEF Next, ServerStep, vars

\* Where messages come from.
LEMMA NewMessage ==
    ASSUME TypeInv, [Next]_vars, NEW m \in sent' \ sent
    PROVE  /\ UNCHANGED tasks
           /\ \/ \E s \in Server : server[s].pc \in {"reply", "status_reply"} /\ m = ReplyMsg(s)
              \/ \E t \in DOMAIN tasks : m = PushMsg(t)
<1>1. ASSUME NEW s \in Server, reply_text(s) \/ handle_fault(s)
      PROVE  /\ UNCHANGED tasks
             /\ server[s].pc \in {"reply", "status_reply"} /\ m = ReplyMsg(s)
  BY <1>1 DEF reply_text, handle_fault, Accepted
<1>2. ASSUME NEW s \in Server, push_send(s)
      PROVE  UNCHANGED tasks /\ \E t \in DOMAIN tasks : m = PushMsg(t)
  <2>1. server[s].task \in DOMAIN tasks
    BY <1>2 DEF push_send, TypeInv, TypeOK
  <2>. QED  BY <1>2, <2>1 DEF push_send
<1>3. ASSUME NEW w \in Worker, notify_push(w)
      PROVE  UNCHANGED tasks /\ \E t \in DOMAIN tasks : m = PushMsg(t)
  <2>1. worker[w].task \in DOMAIN tasks
    BY <1>3 DEF notify_push, TypeInv, TypeOK
  <2>. QED  BY <1>3, <2>1 DEF notify_push
<1>4. \/ \E s \in Server : reply_text(s) \/ handle_fault(s) \/ push_send(s)
      \/ \E w \in Worker : notify_push(w)
  BY DEF Next, ServerStep, WorkerStep, deliver, handle_return, submit, submit_invalid, schedule,
         status_read, line_push_progress, run_one, run_ended, vars
<1>. QED  BY <1>1, <1>2, <1>3, <1>4

\* The task a text becomes.
LEMMA Submitted ==
    ASSUME TypeInv, NEW s \in Server, submit(s)
    PROVE  /\ DOMAIN tasks' = DOMAIN tasks \cup {Len(tasks')}
           /\ Len(tasks') \notin DOMAIN tasks
           /\ tasks'[Len(tasks')].origin = <<server[s].delivery, At(s)>>
           /\ tasks'[Len(tasks')].conversation = Conversation(Current(s).source)
           /\ server'[s].pc = "schedule" /\ server'[s].task = Len(tasks')
           /\ server'[s].delivery = server[s].delivery /\ server'[s].next = server[s].next
           /\ server[s].delivery \in Delivery /\ At(s) \in DOMAIN Body[server[s].delivery]
           /\ Current(s) = Body[server[s].delivery][At(s)]
<1>0. /\ server \in [Server -> ServerCall] /\ server[s] \in ServerCall
      /\ tasks \in Seq(Task) /\ Len(tasks) \in Nat
  BY Columns DEF TypeInv
<1>1. server[s].delivery \in Delivery /\ More(s)
  BY DEF submit, TypeInv, TypeOK
<1>. DEFINE task == [job |-> "none", conversation |-> Conversation(Current(s).source),
                     origin |-> <<server[s].delivery, At(s)>>]
            c == [server[s] EXCEPT !.pc = "schedule", !.task = Len(tasks')]
<1>2. tasks' = Append(tasks, task) /\ server' = [server EXCEPT ![s] = c]
  BY <1>0 DEF submit
<1>3. /\ task.origin = <<server[s].delivery, At(s)>>
      /\ task.conversation = Conversation(Current(s).source)
  OBVIOUS
<1>4. /\ c.pc = "schedule" /\ c.task = Len(tasks') /\ c.delivery = server[s].delivery
      /\ c.next = server[s].next
  BY <1>0 DEF ServerCall
<1>. HIDE DEF task, c
<1>5. /\ Len(tasks') = Len(tasks) + 1 /\ tasks'[Len(tasks')] = task
      /\ DOMAIN tasks' = DOMAIN tasks \cup {Len(tasks')} /\ Len(tasks') \notin DOMAIN tasks
  BY <1>0, <1>2
<1>6. server'[s] = c
  BY <1>0, <1>2
<1>7. At(s) \in DOMAIN Body[server[s].delivery] /\ Current(s) = Body[server[s].delivery][At(s)]
  BY <1>1, EventInTurn DEF TypeInv
<1>. QED  BY <1>1, <1>3, <1>4, <1>5, <1>6, <1>7

\* schedule gives the task of its event a job, where there is a queue.
LEMMA Scheduled ==
    ASSUME TypeInv, NEW s \in Server, schedule(s)
    PROVE  /\ server[s].task \in DOMAIN tasks
           /\ queue => tasks'[server[s].task].job = "queued"
           /\ server'[s].pc = "reply" /\ server'[s].task = server[s].task
           /\ server'[s].delivery = server[s].delivery /\ server'[s].next = server[s].next
<1>1. /\ server \in [Server -> ServerCall] /\ server[s] \in ServerCall
      /\ server[s].task \in DOMAIN tasks
  BY Columns DEF TypeInv, TypeOK, schedule
<1>2. tasks[server[s].task] \in Task
  BY <1>1, Columns DEF TypeInv
<1>3. queue => tasks'[server[s].task].job = "queued"
  BY <1>1, <1>2 DEF schedule, Task
<1>. QED  BY <1>1, <1>3 DEF schedule, GotoS, ServerCall

LEMMA PromiseInvariant == Spec => []PromiseInv
<1>1. Init => PromiseInv
  BY DEF Init, PromiseInv, Holds, IdleServer
<1>2. TypeInv /\ PromiseInv /\ [Next]_vars => PromiseInv'
  <2>. SUFFICES ASSUME TypeInv, PromiseInv, [Next]_vars
                PROVE  PromiseInv'
    OBVIOUS
  <2>0. \A t \in DOMAIN tasks :
            /\ t \in DOMAIN tasks'
            /\ tasks'[t].origin = tasks[t].origin
            /\ tasks'[t].conversation = tasks[t].conversation
            /\ Dispatched(t) => Dispatched(t)'
    BY TasksStand
  <2>1. ASSUME NEW t \in DOMAIN tasks'
        PROVE  FromEvent(t)'
    <3>1. CASE t \in DOMAIN tasks
      BY <2>0, <3>1 DEF PromiseInv, FromEvent
    <3>2. CASE t \notin DOMAIN tasks
      <4>1. PICK s \in Server : submit(s)
        <5>1. ASSUME NEW s \in Server, schedule(s)
              PROVE  DOMAIN tasks' = DOMAIN tasks
          BY <5>1 DEF schedule
        <5>2. ASSUME NEW w \in Worker, WorkerStep(w) \/ \E u \in DOMAIN tasks : run_one(w, u)
              PROVE  DOMAIN tasks' = DOMAIN tasks
          BY <5>2 DEF WorkerStep, run_one, run_ended, notify_push
        <5>3. tasks' # tasks
          BY <2>1, <3>2
        <5>. QED  BY <2>1, <3>2, <5>1, <5>2, <5>3
             DEF Next, ServerStep, deliver, handle_return, submit_invalid, status_read, reply_text,
                 handle_fault, push_send, line_push_progress, vars
      <4>2. t = Len(tasks')
        BY <2>1, <3>2, <4>1, Submitted
      <4>. QED  BY <4>1, <4>2, Submitted DEF FromEvent
    <3>. QED  BY <3>1, <3>2
  <2>2. ASSUME NEW s \in Server
        PROVE  Holds(s)'
    <3>1. CASE server'[s] = server[s]
      <4>1. At(s)' = At(s)
        BY <3>1, TurnKept
      <4>2. server[s].pc \in {"schedule", "reply"} => server[s].task \in DOMAIN tasks
        BY DEF TypeInv, TypeOK
      <4>3. Holds(s)
        BY DEF PromiseInv
      <4>. QED  BY <2>0, <3>1, <4>1, <4>2, <4>3 DEF Holds
    <3>2. CASE submit(s)
      <4>1. At(s)' = At(s)
        BY <3>2, Submitted, TurnKept
      <4>. QED  BY <3>2, <4>1, Submitted DEF Holds
    <3>3. CASE schedule(s)
      <4>1. At(s)' = At(s)
        BY <3>3, Scheduled, TurnKept
      <4>2. tasks[server[s].task].origin = <<server[s].delivery, At(s)>>
        BY <3>3 DEF schedule, PromiseInv, Holds
      <4>3. UNCHANGED queue
        BY <3>3 DEF schedule
      <4>. QED  BY <2>0, <3>3, <4>1, <4>2, <4>3, Scheduled DEF Holds, Dispatched
    <3>4. CASE server'[s].pc \notin {"schedule", "reply"}
      BY <3>4 DEF Holds
    <3>5. ASSUME server'[s] # server[s], ~submit(s), ~schedule(s)
          PROVE  server'[s].pc \notin {"schedule", "reply"}
      <4>0. server \in [Server -> ServerCall] /\ server[s] \in ServerCall
        BY Columns DEF TypeInv
      <4>1. CASE status_read(s)
        BY <4>0, <4>1 DEF status_read, ServerCall
      <4>2. CASE reply_text(s) /\ ~ReplyRefused(s)
        BY <4>0, <4>2 DEF reply_text, NextEvent, ServerCall
      <4>3. CASE \E d \in Delivery : deliver(s, d)
        BY <4>0, <4>3 DEF deliver, IdleServer
      <4>. QED  BY <3>5, <4>1, <4>2, <4>3, ServerMoves
    <3>. QED  BY <3>1, <3>2, <3>3, <3>4, <3>5
  <2>3. ASSUME NEW m \in sent'
        PROVE  Kept(m)'
    <3>1. CASE m \in sent
      <4>1. Kept(m)
        BY <3>1 DEF PromiseInv
      <4>. QED  BY <2>0, <4>1 DEF Kept
    <3>2. CASE m \notin sent
      <4>0. UNCHANGED tasks
        BY <2>3, <3>2, NewMessage
      <4>1. ASSUME NEW s \in Server, server[s].pc \in {"reply", "status_reply"}, m = ReplyMsg(s)
            PROVE  Kept(m)
        <5>1. CASE m.kind # "accepted"
          BY <4>1, <5>1, ReplyType DEF Kept
        <5>2. CASE m.kind = "accepted"
          <6>1. /\ server[s].pc = "reply" /\ m.task = server[s].task
                /\ m.to = Conversation(Current(s).source)
            BY <4>1, <5>2, ReplyType
          <6>2. /\ tasks[m.task].origin = <<server[s].delivery, At(s)>>
                /\ Dispatched(m.task) /\ m.task \in DOMAIN tasks
                /\ server[s].delivery \in Delivery /\ More(s)
            BY <6>1 DEF PromiseInv, Holds, TypeInv, TypeOK, InTurn
          <6>3. Current(s) = Body[server[s].delivery][At(s)]
            BY <6>2, EventInTurn DEF TypeInv
          <6>4. tasks[m.task].conversation = Conversation(Body[server[s].delivery][At(s)].source)
            BY <6>2 DEF PromiseInv, FromEvent
          <6>. QED  BY <6>1, <6>2, <6>3, <6>4 DEF Kept
        <5>. QED  BY <5>1, <5>2
      <4>2. ASSUME NEW t \in DOMAIN tasks, m = PushMsg(t)
            PROVE  Kept(m)
        BY <4>2 DEF Kept, PushMsg, Msg
      <4>3. Kept(m)
        BY <2>3, <3>2, <4>1, <4>2, NewMessage
      <4>4. UNCHANGED queue
        BY TasksStand
      <4>. QED  BY <4>0, <4>3, <4>4 DEF Kept, Dispatched
    <3>. QED  BY <3>1, <3>2
  <2>. QED  BY <2>1, <2>2, <2>3 DEF PromiseInv
<1>. QED  BY <1>1, <1>2, TypeInvariant, PTL DEF Spec

\* A receipt names a task that is stored and, where the deployment has a queue, has a job
\* in it; receipts and pushes go to the conversation the request came from.
THEOREM Promises == Spec => []PromisesKept
<1>1. PromiseInv => PromisesKept
  BY DEF PromiseInv, Kept, FromEvent, PromisesKept, Conversation
<1>. QED  BY <1>1, PromiseInvariant, PTL

----------------------------------------------------------------------------
(* Answered webhooks.  What a handler has gone past is handled, whichever  *)
(* delivery did it.                                                        *)

Handled(d, i) ==
    /\ Body[d][i].type = "text" => \E t \in Made(d, i) : Dispatched(t)
    /\ Body[d][i].type # "other" => <<d, i>> \in tokens

\* The same of the next state.
HandledThen(d, i) ==
    /\ Body[d][i].type = "text" =>
           \E t \in DOMAIN tasks' : tasks'[t].origin = <<d, i>> /\ Dispatched(t)'
    /\ Body[d][i].type # "other" => <<d, i>> \in tokens'

HandledInv ==
    /\ \A s \in Server : server[s].pc \notin {"idle", "push"} =>
           \A i \in Events(server[s].delivery) :
               i < server[s].next => Handled(server[s].delivery, i)
    /\ \A d \in Delivery : line[d].acked => \A i \in DOMAIN Body[d] : Handled(d, i)

LEMMA HandledStands ==
    ASSUME TypeInv, [Next]_vars, NEW d, NEW i, Handled(d, i)
    PROVE  HandledThen(d, i)
BY TasksStand DEF Handled, Made, HandledThen

\* An event whose reply LINE has taken is handled.
LEMMA ReplyHandles ==
    ASSUME TypeInv, PromiseInv, NEW s \in Server, reply_text(s), ~ReplyRefused(s)
    PROVE  /\ HandledThen(server[s].delivery, At(s))
           /\ server'[s].delivery = server[s].delivery /\ server'[s].next = At(s) + 1
           /\ server[s].delivery \in Delivery /\ More(s)
<1>. DEFINE d == server[s].delivery
<1>1. server[s].pc \in {"reply", "status_reply"} /\ Accepted(s) /\ UNCHANGED tasks
  BY DEF reply_text
<1>2. d \in Delivery /\ More(s) /\ Current(s) = Body[d][At(s)]
  <2>1. d \in Delivery /\ More(s)
    BY <1>1 DEF TypeInv, TypeOK, InTurn
  <2>. QED  BY <2>1, EventInTurn DEF TypeInv
<1>3. <<d, At(s)>> \in tokens'
  BY <1>1 DEF Accepted
<1>4. ASSUME Body[d][At(s)].type = "text"
      PROVE  \E t \in Made(d, At(s)) : Dispatched(t)
  <2>1. server[s].pc = "reply"
    BY <1>1, <1>2, <1>4 DEF TypeInv, InTurn
  <2>2. /\ server[s].task \in DOMAIN tasks /\ Dispatched(server[s].task)
        /\ tasks[server[s].task].origin = <<d, At(s)>>
    BY <2>1 DEF PromiseInv, Holds, TypeInv, TypeOK
  <2>. QED  BY <2>2 DEF Made
<1>5. server'[s].delivery = d /\ server'[s].next = At(s) + 1
  <2>1. server \in [Server -> ServerCall] /\ server[s] \in ServerCall
    BY Columns DEF TypeInv
  <2>. QED  BY <2>1 DEF reply_text, NextEvent, ServerCall
<1>6. UNCHANGED <<queue, tasks>>
  BY <1>1 DEF reply_text
<1>. QED  BY <1>2, <1>3, <1>4, <1>5, <1>6 DEF HandledThen, Made, Dispatched

LEMMA HandledInvariant == Spec => []HandledInv
<1>1. Init => HandledInv
  BY DEF Init, HandledInv, IdleServer
<1>2. TypeInv /\ TypeInv' /\ PromiseInv /\ HandledInv /\ [Next]_vars => HandledInv'
  <2>. SUFFICES ASSUME TypeInv, TypeInv', PromiseInv, HandledInv, [Next]_vars
                PROVE  HandledInv'
    OBVIOUS
  <2>0. /\ server \in [Server -> ServerCall]
        /\ \A s \in Server : server[s] \in ServerCall
        /\ line \in [Delivery -> [count : 0 .. MaxDeliveries, acked : BOOLEAN]]
    BY Columns DEF TypeInv, TypeOK
  <2>1. ASSUME NEW s \in Server, server'[s].pc \notin {"idle", "push"},
               NEW i \in Events(server'[s].delivery), i < server'[s].next
        PROVE  HandledThen(server'[s].delivery, i)
    <3>1. ASSUME server'[s].delivery = server[s].delivery, server'[s].next = server[s].next,
                 server[s].pc \notin {"idle", "push"}
          PROVE  HandledThen(server'[s].delivery, i)
      <4>. DEFINE d == server[s].delivery
      <4>1. Handled(d, i)
        BY <2>1, <3>1 DEF HandledInv
      <4>2. HandledThen(d, i)
        BY <4>1, HandledStands
      <4>. QED  BY <3>1, <4>2
    <3>2. CASE submit(s)
      BY <3>1, <3>2, Submitted DEF submit
    <3>3. CASE schedule(s)
      BY <3>1, <3>3, Scheduled DEF schedule
    <3>4. CASE status_read(s)
      <4>1. server'[s].delivery = server[s].delivery /\ server'[s].next = server[s].next
        BY <2>0, <3>4 DEF status_read, ServerCall
      <4>. QED  BY <3>1, <3>4, <4>1 DEF status_read
    <3>5. CASE reply_text(s) /\ ~ReplyRefused(s)
      <4>. DEFINE d == server[s].delivery
                  at == At(s)
      <4>1. /\ HandledThen(d, at) /\ server'[s].delivery = d /\ server'[s].next = at + 1
            /\ d \in Delivery /\ More(s)
        BY <3>5, ReplyHandles
      <4>2. /\ at \in Nat /\ i \in Nat /\ (i < at => i < server[s].next)
        BY <2>1, <4>1, EventInTurn DEF TypeInv
      <4>3. CASE i = at
        BY <4>1, <4>3
      <4>4. CASE i < at
        <5>1. Handled(d, i)
          BY <2>1, <3>5, <4>1, <4>2, <4>4 DEF HandledInv, reply_text
        <5>. QED  BY <4>1, <5>1, HandledStands
      <4>. QED  BY <2>1, <4>1, <4>2, <4>3, <4>4
    <3>6. ASSUME NEW d \in Delivery, deliver(s, d)
          PROVE  FALSE
      <4>1. server'[s].next = 1 /\ server'[s].delivery = d
        BY <2>0, <3>6 DEF deliver, IdleServer
      <4>2. Body[d] \in Seq(Event)
        BY LineAssumption
      <4>. QED  BY <2>1, <4>1, <4>2 DEF Events
    <3>. QED  BY <2>1, <3>1, <3>2, <3>3, <3>4, <3>5, <3>6, ServerMoves
  <2>2. ASSUME NEW d \in Delivery, line'[d].acked, NEW i \in DOMAIN Body[d]
        PROVE  HandledThen(d, i)
    <3>1. CASE line[d].acked
      BY <2>2, <3>1, HandledStands DEF HandledInv
    <3>2. ASSUME NEW s \in Server, handle_return(s), server[s].delivery = d
          PROVE  Handled(d, i)
      <4>1. Body[d] \in Seq(Event) /\ server[s].next \in Nat
        BY <2>0, LineAssumption DEF ServerCall
      <4>2. CASE i \in Events(d)
        <5>1. i < server[s].next
          BY <3>2, <4>1, <4>2 DEF handle_return, More, Left
        <5>. QED  BY <3>2, <4>2, <5>1 DEF HandledInv, handle_return
      <4>3. CASE i \notin Events(d)
        BY <4>3 DEF Events, Handled
      <4>. QED  BY <4>2, <4>3
    <3>3. CASE ~line[d].acked
      <4>1. ASSUME NEW s \in Server, NEW e \in Delivery, deliver(s, e)
            PROVE  line'[d].acked = line[d].acked
        BY <2>0, <4>1 DEF deliver
      <4>2. ASSUME NEW s \in Server, handle_return(s), server[s].delivery # d
            PROVE  line'[d].acked = line[d].acked
        BY <2>0, <4>2 DEF handle_return
      <4>3. \/ line' = line
            \/ \E s \in Server : handle_return(s) \/ \E e \in Delivery : deliver(s, e)
        BY DEF Next, ServerStep, WorkerStep, submit, submit_invalid, schedule, status_read,
               reply_text, handle_fault, push_send, line_push_progress, run_one, run_ended,
               notify_push, vars
      <4>4. Handled(d, i)
        BY <2>2, <3>2, <3>3, <4>1, <4>2, <4>3
      <4>. QED  BY <4>4, HandledStands
    <3>. QED  BY <3>1, <3>3
  <2>. QED  BY <2>1, <2>2 DEF HandledInv, HandledThen, Handled, Made
<1>. QED  BY <1>1, <1>2, TypeInvariant, PromiseInvariant, PTL DEF Spec

\* A webhook that was answered with success leaves nothing undone: every text in it has
\* become a task (with a job, where the deployment has a queue) and every message was
\* replied to, whatever failed in the deliveries before.
THEOREM AckedHandled == Spec => []AckedIsHandled
<1>1. HandledInv => AckedIsHandled
  BY DEF HandledInv, AckedIsHandled, Handled
<1>. QED  BY <1>1, HandledInvariant, PTL

============================================================================
