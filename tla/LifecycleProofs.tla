-------------------------- MODULE LifecycleProofs --------------------------
(***************************************************************************)
(* An answered stop is durable and the timer respects the settings, for    *)
(* any length of the lifecycle queue: LifecycleInv is inductive.  A stop is*)
(* final from the moment it is asked for, unless a crash cuts it off       *)
(* (StopIsFinal).                                                          *)
(***************************************************************************)
EXTENDS Lifecycle, SequenceTheorems, TLAPS

(* What appending to the queue and taking its first operation do to Has.   *)
LEMMA HasAppend ==
  ASSUME NEW s \in Seq(Operation), NEW op \in Operation, NEW ops
  PROVE  /\ Append(s, op) \in Seq(Operation) /\ Append(s, op) # <<>>
         /\ Len(Append(s, op)) = Len(s) + 1
         /\ s # <<>> => Head(Append(s, op)) = Head(s)
         /\ Has(Append(s, op), ops) <=> Has(s, ops) \/ op \in ops
<1>1. /\ Append(s, op) \in Seq(Operation) /\ Append(s, op) # <<>>
      /\ Len(Append(s, op)) = Len(s) + 1
      /\ s # <<>> => Head(Append(s, op)) = Head(s)
  BY AppendProperties
<1>2. Has(s, ops) => Has(Append(s, op), ops)
  BY DEF Has
<1>3. op \in ops => Has(Append(s, op), ops)
  <2>1. Len(s) + 1 \in DOMAIN Append(s, op) /\ Append(s, op)[Len(s) + 1] = op
    BY AppendProperties
  <2> QED BY <2>1 DEF Has
<1>4. Has(Append(s, op), ops) => Has(s, ops) \/ op \in ops
  BY DEF Has
<1> QED BY <1>1, <1>2, <1>3, <1>4

LEMMA HasTail ==
  ASSUME NEW s \in Seq(Operation), s # <<>>, NEW ops
  PROVE  /\ Tail(s) \in Seq(Operation) /\ Head(s) \in Operation
         /\ Len(Tail(s)) = Len(s) - 1
         /\ Has(s, ops) <=> Head(s) \in ops \/ Has(Tail(s), ops)
<1>1. /\ Tail(s) \in Seq(Operation) /\ Head(s) \in Operation
      /\ Len(Tail(s)) = Len(s) - 1
  BY HeadTailProperties
<1>2. Head(s) \in ops => Has(s, ops)
  <2>1. 1 \in DOMAIN s /\ s[1] = Head(s)
    OBVIOUS
  <2> QED BY <2>1 DEF Has
<1>3. Has(Tail(s), ops) => Has(s, ops)
  <2> SUFFICES ASSUME NEW i \in DOMAIN Tail(s), Tail(s)[i] \in ops PROVE Has(s, ops)
    BY DEF Has
  <2>1. i + 1 \in DOMAIN s /\ s[i + 1] = Tail(s)[i]
    OBVIOUS
  <2> QED BY <2>1 DEF Has
<1>4. Has(s, ops) => Head(s) \in ops \/ Has(Tail(s), ops)
  <2> SUFFICES ASSUME NEW i \in DOMAIN s, s[i] \in ops, i # 1 PROVE Has(Tail(s), ops)
    BY DEF Has
  <2>1. i - 1 \in DOMAIN Tail(s) /\ Tail(s)[i - 1] = s[i]
    OBVIOUS
  <2> QED BY <2>1 DEF Has
<1> QED BY <1>1, <1>2, <1>3, <1>4

(* The queues of length zero and one. *)
LEMMA HasShort ==
  /\ <<>> \in Seq(Operation) /\ Len(<<>>) = 0
  /\ <<"start">> \in Seq(Operation) /\ Len(<<"start">>) = 1 /\ <<"start">> # <<>>
  /\ \A ops : ~Has(<<>>, ops) /\ (Has(<<"start">>, ops) <=> "start" \in ops)
BY DEF Has, Operation

LEMMA HasMore == \A s, A, B : A \subseteq B /\ Has(s, A) => Has(s, B)
BY DEF Has

LEMMA InvInit == Init => LifecycleInv
<1> SUFFICES ASSUME Init PROVE LifecycleInv
  OBVIOUS
<1> USE LifecycleAssumption, HasShort DEF Init
<1>1. QueueOK /\ TypeOK
  <2>1. QueueOK
    BY DEF QueueOK
  <2> QED BY <2>1 DEF TypeOK
<1>2. WaitingInv /\ ProcessInv /\ RunInv /\ IntentInv /\ SchedulerRespectsSettings
  BY DEF WaitingInv, ProcessInv, RunInv, IntentInv, SchedulerRespectsSettings, Queued
<1> QED BY <1>1, <1>2 DEF LifecycleInv

(* The operations of the lifecycle queue keep the invariant. *)
LEMMA QueueStep ==
  ASSUME LifecycleInv, Start \/ ClearTimer \/ Stop \/ Reschedule
  PROVE  LifecycleInv'
<1> USE LifecycleAssumption DEF LifecycleInv, TypeOK, WaitingInv, ProcessInv, RunInv,
                                IntentInv, SchedulerRespectsSettings, Queued, Executing
<1>1. queue # <<>> /\ queue \in Seq(Operation)
  BY DEF QueueOK, Start, ClearTimer, Stop, Reschedule
<1>2. /\ Tail(queue) \in Seq(Operation) /\ Head(queue) \in Operation
      /\ Len(Tail(queue)) = Len(queue) - 1 /\ Len(queue) \in Nat
      /\ Has(queue, {"start"}) <=> Head(queue) \in {"start"} \/ Has(Tail(queue), {"start"})
      /\ Has(queue, {"stop", "off"}) <=>
           Head(queue) \in {"stop", "off"} \/ Has(Tail(queue), {"stop", "off"})
      /\ Has(Tail(queue), {"start"}) => Has(Tail(queue), {"start", "stop"})
  BY <1>1, HasTail, HasMore, LenProperties
<1>3. CASE Start
  <2>1. TypeOK'
    <3>1. QueueOK'
      BY <1>1, <1>2, <1>3 DEF Start, Done, Launch, Answers, QueueOK
    <3> QED BY <3>1, <1>1, <1>2, <1>3 DEF Start, Done, Launch, Answers
  <2>2. WaitingInv'
    BY <1>1, <1>2, <1>3 DEF Start, Done, Launch, Answers
  <2>3. ProcessInv'
    BY <1>1, <1>2, <1>3 DEF Start, Done, Launch, Answers
  <2>4. RunInv'
    BY <1>1, <1>2, <1>3 DEF Start, Done, Launch, Answers
  <2>5. IntentInv'
    BY <1>1, <1>2, <1>3 DEF Start, Done, Launch, Answers
  <2>6. SchedulerRespectsSettings'
    BY <1>1, <1>2, <1>3 DEF Start, Done, Launch, Answers
  <2> QED BY <2>1, <2>2, <2>3, <2>4, <2>5, <2>6
<1>4. CASE ClearTimer
  <2>1. TypeOK'
    <3>1. QueueOK'
      BY <1>1, <1>2, <1>4 DEF ClearTimer, Halting, persisted, operator, QueueOK
    <3> QED BY <3>1, <1>1, <1>2, <1>4 DEF ClearTimer, Halting, persisted, operator
  <2>2. WaitingInv'
    BY <1>1, <1>2, <1>4 DEF ClearTimer, Halting, persisted, operator
  <2>3. ProcessInv'
    BY <1>1, <1>2, <1>4 DEF ClearTimer, Halting, persisted, operator
  <2>4. RunInv'
    BY <1>1, <1>2, <1>4 DEF ClearTimer, Halting, persisted, operator
  <2>5. IntentInv'
    BY <1>1, <1>2, <1>4 DEF ClearTimer, Halting, persisted, operator
  <2>6. SchedulerRespectsSettings'
    BY <1>1, <1>2, <1>4 DEF ClearTimer, Halting, persisted, operator
  <2> QED BY <2>1, <2>2, <2>3, <2>4, <2>5, <2>6
<1>5. CASE Stop
  <2>1. TypeOK'
    <3>1. QueueOK'
      BY <1>1, <1>2, <1>5 DEF Stop, Done, Answers, QueueOK
    <3> QED BY <3>1, <1>1, <1>2, <1>5 DEF Stop, Done, Answers
  <2>2. WaitingInv'
    BY <1>1, <1>2, <1>5 DEF Stop, Done, Answers
  <2>3. ProcessInv'
    BY <1>1, <1>2, <1>5 DEF Stop, Done, Answers
  <2>4. RunInv'
    BY <1>1, <1>2, <1>5 DEF Stop, Done, Answers
  <2>5. IntentInv'
    BY <1>1, <1>2, <1>5 DEF Stop, Done, Answers
  <2>6. SchedulerRespectsSettings'
    BY <1>1, <1>2, <1>5 DEF Stop, Done, Answers
  <2> QED BY <2>1, <2>2, <2>3, <2>4, <2>5, <2>6
<1>6. CASE Reschedule
  <2>1. TypeOK'
    <3>1. QueueOK'
      BY <1>1, <1>2, <1>6 DEF Reschedule, Done, operator, QueueOK
    <3> QED BY <3>1, <1>1, <1>2, <1>6 DEF Reschedule, Done, operator
  <2>2. WaitingInv'
    BY <1>1, <1>2, <1>6 DEF Reschedule, Done, operator
  <2>3. ProcessInv'
    BY <1>1, <1>2, <1>6 DEF Reschedule, Done, operator
  <2>4. RunInv'
    BY <1>1, <1>2, <1>6 DEF Reschedule, Done, operator
  <2>5. IntentInv'
    BY <1>1, <1>2, <1>6 DEF Reschedule, Done, operator
  <2>6. SchedulerRespectsSettings'
    BY <1>1, <1>2, <1>6 DEF Reschedule, Done, operator
  <2> QED BY <2>1, <2>2, <2>3, <2>4, <2>5, <2>6
<1> QED BY <1>3, <1>4, <1>5, <1>6

(* So do the process's own start and end, and the steps of a run. *)
LEMMA ProcessStep ==
  ASSUME LifecycleInv,
         \/ Suspend \/ Crash \/ Boot \/ Initialize \/ Listen
         \/ RunBegins \/ RunMarks \/ RunEnds \/ RunCloses \/ Fetched
  PROVE  LifecycleInv'
<1> USE LifecycleAssumption, HasShort
    DEF LifecycleInv, TypeOK, WaitingInv, ProcessInv, RunInv, IntentInv,
        SchedulerRespectsSettings, Queued, persisted, memory, operator
<1>1. CASE Suspend
  <2>1. TypeOK'
    <3>1. QueueOK'
      BY <1>1 DEF Suspend, Gone, Executing, QueueOK
    <3> QED BY <3>1, <1>1 DEF Suspend, Gone, Executing
  <2>2. WaitingInv'
    BY <1>1 DEF Suspend, Gone, Executing
  <2>3. ProcessInv'
    BY <1>1 DEF Suspend, Gone, Executing
  <2>4. RunInv'
    BY <1>1 DEF Suspend, Gone, Executing
  <2>5. IntentInv'
    BY <1>1 DEF Suspend, Gone, Executing
  <2>6. SchedulerRespectsSettings'
    BY <1>1 DEF Suspend, Gone, Executing
  <2> QED BY <2>1, <2>2, <2>3, <2>4, <2>5, <2>6
<1>2. CASE Crash
  <2>1. TypeOK'
    <3>1. QueueOK'
      BY <1>2 DEF Crash, Gone, QueueOK
    <3> QED BY <3>1, <1>2 DEF Crash, Gone
  <2>2. WaitingInv'
    BY <1>2 DEF Crash, Gone
  <2>3. ProcessInv'
    BY <1>2 DEF Crash, Gone
  <2>4. RunInv'
    BY <1>2 DEF Crash, Gone
  <2>5. IntentInv'
    BY <1>2 DEF Crash, Gone
  <2>6. SchedulerRespectsSettings'
    BY <1>2 DEF Crash, Gone
  <2> QED BY <2>1, <2>2, <2>3, <2>4, <2>5, <2>6
<1>3. CASE Boot
  <2>1. QueueOK'
    BY <1>3 DEF Boot, QueueOK
  <2>2. TypeOK'
    BY <2>1, <1>3 DEF Boot
  <2> QED BY <2>2, <1>3 DEF Boot
<1>4. CASE Initialize
  <2>1. TypeOK'
    <3>1. QueueOK'
      BY <1>4 DEF Initialize, QueueOK
    <3> QED BY <3>1, <1>4 DEF Initialize
  <2>2. WaitingInv'
    BY <1>4 DEF Initialize
  <2>3. ProcessInv'
    BY <1>4 DEF Initialize
  <2>4. RunInv'
    BY <1>4 DEF Initialize
  <2>5. IntentInv'
    BY <1>4 DEF Initialize
  <2>6. SchedulerRespectsSettings'
    BY <1>4 DEF Initialize
  <2> QED BY <2>1, <2>2, <2>3, <2>4, <2>5, <2>6
<1>5. CASE Listen
  <2>1. QueueOK'
    BY <1>5 DEF Listen, QueueOK
  <2>2. TypeOK'
    BY <2>1, <1>5 DEF Listen
  <2> QED BY <2>2, <1>5 DEF Listen
<1>6. CASE RunBegins
  <2>1. QueueOK'
    BY <1>6 DEF RunBegins, QueueOK
  <2>2. TypeOK'
    BY <2>1, <1>6 DEF RunBegins
  <2> QED BY <2>2, <1>6 DEF RunBegins
<1>7. CASE RunMarks
  <2>1. QueueOK'
    BY <1>7 DEF RunMarks, QueueOK
  <2>2. TypeOK'
    BY <2>1, <1>7 DEF RunMarks
  <2> QED BY <2>2, <1>7 DEF RunMarks
<1>8. CASE RunEnds
  <2>1. QueueOK'
    BY <1>8 DEF RunEnds, QueueOK
  <2>2. TypeOK'
    BY <2>1, <1>8 DEF RunEnds
  <2> QED BY <2>2, <1>8 DEF RunEnds
<1>9. CASE RunCloses
  <2>1. QueueOK'
    BY <1>9 DEF RunCloses, QueueOK
  <2>2. TypeOK'
    BY <2>1, <1>9 DEF RunCloses
  <2> QED BY <2>2, <1>9 DEF RunCloses
<1>10. CASE Fetched
  <2>1. QueueOK'
    BY <1>10 DEF Fetched, Quiet, QueueOK
  <2>2. TypeOK'
    BY <2>1, <1>10 DEF Fetched, Quiet
  <2> QED BY <2>2, <1>10 DEF Fetched, Quiet
<1> QED BY <1>1, <1>2, <1>3, <1>4, <1>5, <1>6, <1>7, <1>8, <1>9, <1>10

(* So do the events. *)
LEMMA EventStep ==
  ASSUME LifecycleInv,
         \/ TimerFires \/ RunOnce \/ Terminate \/ ServerClosed
         \/ \E op \in {"start", "stop"} : Command(op)
         \/ \E c \in Config, interval \in BOOLEAN : SaveConfig(c, interval)
  PROVE  LifecycleInv'
<1> USE LifecycleAssumption
    DEF LifecycleInv, TypeOK, WaitingInv, ProcessInv, RunInv, IntentInv,
        SchedulerRespectsSettings, Queued, persisted, memory, operator, Quiet
<1>1. queue \in Seq(Operation) /\ Len(queue) \in Nat
  BY LenProperties DEF QueueOK
<1>2. \A op \in Operation :
        /\ Append(queue, op) \in Seq(Operation) /\ Append(queue, op) # <<>>
        /\ Len(Append(queue, op)) = Len(queue) + 1
        /\ queue # <<>> => Head(Append(queue, op)) = Head(queue)
        /\ Has(Append(queue, op), {"start"}) <=> Has(queue, {"start"}) \/ op \in {"start"}
        /\ Has(Append(queue, op), {"stop", "off"}) <=>
             Has(queue, {"stop", "off"}) \/ op \in {"stop", "off"}
  BY <1>1, HasAppend
<1>3. {"start", "stop", "off", "reschedule", "suspend"} = Operation
  BY DEF Operation
<1>4. CASE TimerFires
  <2>1. QueueOK'
    BY <1>4 DEF TimerFires, Launch, QueueOK
  <2>2. TypeOK'
    BY <2>1, <1>4 DEF TimerFires, Launch
  <2> QED BY <2>2, <1>4 DEF TimerFires, Launch
<1>5. CASE RunOnce
  <2>1. QueueOK'
    BY <1>5 DEF RunOnce, Launch, QueueOK
  <2>2. TypeOK'
    BY <2>1, <1>5 DEF RunOnce, Launch
  <2> QED BY <2>2, <1>5 DEF RunOnce, Launch
<1>6. CASE Terminate
  <2>1. QueueOK'
    BY <1>6 DEF Terminate, QueueOK
  <2>2. TypeOK'
    BY <2>1, <1>6 DEF Terminate
  <2> QED BY <2>2, <1>6 DEF Terminate
<1>7. CASE ServerClosed
  <2>1. QueueOK'
    BY <1>1, <1>2, <1>3, <1>7 DEF ServerClosed, QueueOK
  <2>2. TypeOK'
    BY <2>1, <1>1, <1>2, <1>3, <1>7 DEF ServerClosed
  <2> QED BY <2>2, <1>1, <1>2, <1>3, <1>7 DEF ServerClosed
<1>8. ASSUME NEW op \in {"start", "stop"}, Command(op) PROVE LifecycleInv'
  <2>1. QueueOK'
    BY <1>1, <1>2, <1>3, <1>8 DEF Command, QueueOK
  <2>2. TypeOK'
    BY <2>1, <1>1, <1>2, <1>3, <1>8 DEF Command
  <2> QED BY <2>2, <1>1, <1>2, <1>3, <1>8 DEF Command
<1>9. ASSUME NEW c \in Config, NEW interval \in BOOLEAN, SaveConfig(c, interval)
      PROVE  LifecycleInv'
  <2>1. QueueOK'
    BY <1>1, <1>2, <1>3, <1>9 DEF SaveConfig, SwitchedOff, Allows, QueueOK
  <2>2. TypeOK'
    BY <2>1, <1>1, <1>2, <1>3, <1>9 DEF SaveConfig, SwitchedOff, Allows
  <2> QED BY <2>2, <1>1, <1>2, <1>3, <1>9 DEF SaveConfig, SwitchedOff, Allows
<1> QED BY <1>4, <1>5, <1>6, <1>7, <1>8, <1>9

LEMMA InvStep == LifecycleInv /\ [Next]_vars => LifecycleInv'
<1> SUFFICES ASSUME LifecycleInv, [Next]_vars PROVE LifecycleInv'
  OBVIOUS
<1>1. CASE UNCHANGED vars
  <2>1. QueueOK'
    BY <1>1 DEF vars, memory, LifecycleInv, TypeOK, QueueOK
  <2> QED
    BY <1>1, <2>1 DEF vars, persisted, memory, operator, LifecycleInv, TypeOK, WaitingInv,
                      ProcessInv, RunInv, IntentInv, SchedulerRespectsSettings, Queued
<1>2. CASE Execute
  BY <1>2, QueueStep, ProcessStep DEF Execute
<1>3. CASE Events
  BY <1>3, ProcessStep, EventStep DEF Events
<1> QED BY <1>1, <1>2, <1>3 DEF Next

(***************************************************************************)
(* Whatever runs, saves, crashes and restarts follow an answered stop, the *)
(* scheduler stays off until the operator starts it (worker.stop).         *)
(***************************************************************************)
THEOREM StopStays == Spec => []StopIsDurable
<1>1. LifecycleInv => StopIsDurable
  BY DEF LifecycleInv, IntentInv, StopIsDurable
<1> QED BY <1>1, InvInit, InvStep, PTL DEF Spec

(***************************************************************************)
(* The timer never runs under settings that forbid polling, but for the    *)
(* stop that is already queued (worker.start, service.saveConfig).         *)
(***************************************************************************)
THEOREM SettingsRespected == Spec => []SchedulerRespectsSettings
<1>1. LifecycleInv => SchedulerRespectsSettings
  BY DEF LifecycleInv
<1> QED BY <1>1, InvInit, InvStep, PTL DEF Spec

-----------------------------------------------------------------------------
(* Once the process has initialized the worker, an intent that is written   *)
(* has its timer, or an operation that has cleared it is about to withdraw  *)
(* the intent.                                                              *)
IntentHasTimer == up \notin {"down", "starting"} /\ intent => timer \/ waiting

LEMMA IntentStep ==
  ASSUME LifecycleInv, IntentHasTimer, Next \/ UNCHANGED vars
  PROVE  IntentHasTimer'
<1> USE DEF IntentHasTimer, persisted, memory, operator
<1>1. CASE UNCHANGED vars
  BY <1>1 DEF vars
<1>2. CASE Start
  <2>1. ~waiting
    BY <1>2 DEF Start, Executing, LifecycleInv, WaitingInv
  <2>2. CASE timer' = TRUE
    BY <2>2
  <2>3. CASE timer /\ timer' = timer
    BY <2>3
  <2>4. CASE ~timer /\ timer' = timer /\ intent' = intent /\ up' = up
    BY <2>1, <2>4
  <2> QED BY <1>2, <2>2, <2>3, <2>4 DEF Start
<1>3. CASE ClearTimer \/ Stop \/ Reschedule
  BY <1>3 DEF ClearTimer, Stop, Reschedule, Done
<1>4. CASE Suspend \/ Crash
  BY <1>4 DEF Suspend, Crash, Gone
<1>5. CASE Boot \/ Initialize
  BY <1>5 DEF Boot, Initialize
<1>6. CASE Listen
  BY <1>6 DEF Listen
<1>7. CASE RunBegins \/ RunEnds \/ Fetched
  BY <1>7 DEF RunBegins, RunEnds, Fetched
<1>8. CASE RunMarks \/ RunCloses
  <2>1. intent' = intent /\ timer' = timer /\ waiting' = waiting /\ up' = up
    BY <1>8 DEF RunMarks, RunCloses, LifecycleInv, RunInv
  <2> QED BY <2>1
<1>9. CASE TimerFires \/ RunOnce
  BY <1>9 DEF TimerFires, RunOnce
<1>10. CASE Terminate \/ ServerClosed
  BY <1>10 DEF Terminate, ServerClosed, Quiet
<1>11. CASE \E op \in {"start", "stop"} : Command(op)
  BY <1>11 DEF Command
<1>12. CASE \E c \in Config, interval \in BOOLEAN : SaveConfig(c, interval)
  BY <1>12 DEF SaveConfig
<1> QED
  BY <1>1, <1>2, <1>3, <1>4, <1>5, <1>6, <1>7, <1>8, <1>9, <1>10, <1>11, <1>12
     DEF Next, Execute, Events

(***************************************************************************)
(* Whenever the daemon serves and nothing is under way, runtime.running    *)
(* says whether the timer is there, whatever runs copied and saves,        *)
(* commands, crashes and restarts changed (worker.initialize, start, stop, *)
(* reschedule, executeRun).                                                *)
(***************************************************************************)
THEOREM SchedulerIsIntent == Spec => []SchedulerMatchesIntent
<1>1. Init => IntentHasTimer
  BY DEF Init, IntentHasTimer
<1>2. LifecycleInv /\ IntentHasTimer /\ [Next]_vars => IntentHasTimer'
  BY IntentStep
<1>3. LifecycleInv /\ IntentHasTimer => SchedulerMatchesIntent
  <2> SUFFICES ASSUME LifecycleInv, IntentHasTimer, up = "serving", queue = <<>>
               PROVE  timer <=> intent
    BY DEF SchedulerMatchesIntent
  <2>1. ~waiting
    BY DEF LifecycleInv, WaitingInv
  <2>2. intent => timer
    BY <2>1 DEF IntentHasTimer
  <2>3. timer => intent
    BY DEF LifecycleInv, IntentInv
  <2>4. timer \in BOOLEAN /\ intent \in BOOLEAN
    BY DEF LifecycleInv, TypeOK
  <2> QED BY <2>2, <2>3, <2>4
<1> QED BY <1>1, <1>2, <1>3, InvInit, InvStep, PTL DEF Spec

(***************************************************************************)
(* The lifecycle's variables keep their types; the queue stays bounded,    *)
(* for a shutdown adds one operation after the last command or save        *)
(* (worker.lifecycleQueue).                                                *)
(***************************************************************************)
THEOREM LifecycleTypes == Spec => []TypeOK
<1>1. LifecycleInv => TypeOK
  BY DEF LifecycleInv
<1> QED BY <1>1, InvInit, InvStep, PTL DEF Spec

-----------------------------------------------------------------------------
(* The position of the operations in the queue.                             *)

LEMMA LastAppend ==
  ASSUME NEW s \in Seq(Operation), NEW op \in Operation, queue = s, queue' = Append(s, op)
  PROVE  /\ op = "start" => StartLast'
         /\ op \notin {"stop", "off"} /\ StartLast => StartLast'
<1>1. /\ Len(queue) \in Nat /\ DOMAIN queue = 1..Len(queue)
      /\ DOMAIN queue' = 1..(Len(queue) + 1)
      /\ queue'[Len(queue) + 1] = op /\ \A i \in DOMAIN queue : queue'[i] = queue[i]
  BY AppendProperties, LenProperties
<1>2. op = "start" => StartLast'
  BY <1>1 DEF StartLast
<1>3. op \notin {"stop", "off"} /\ StartLast => StartLast'
  BY <1>1 DEF StartLast
<1> QED BY <1>2, <1>3

LEMMA LastTail ==
  ASSUME queue \in Seq(Operation), queue # <<>>, queue' = Tail(queue), StartLast
  PROVE  StartLast' /\ (~Has(queue', {"start"}) => ~Has(queue', {"stop", "off"}))
<1>1. /\ Len(queue) \in Nat \ {0} /\ DOMAIN queue = 1..Len(queue)
      /\ DOMAIN queue' = 1..(Len(queue) - 1)
      /\ \A i \in DOMAIN queue' : queue'[i] = queue[i + 1]
  BY HeadTailProperties, LenProperties
<1>2. StartLast'
  <2> SUFFICES ASSUME NEW i \in DOMAIN queue', queue'[i] \in {"stop", "off"}
               PROVE  \E j \in DOMAIN queue' : j > i /\ queue'[j] = "start"
    BY DEF StartLast
  <2>1. PICK j \in DOMAIN queue : j > i + 1 /\ queue[j] = "start"
    BY <1>1 DEF StartLast
  <2>2. j - 1 \in DOMAIN queue' /\ j - 1 > i /\ queue'[j - 1] = "start"
    BY <1>1, <2>1
  <2> QED BY <2>2
<1>3. ~Has(queue', {"start"}) => ~Has(queue', {"stop", "off"})
  BY <1>2 DEF StartLast, Has
<1> QED BY <1>2, <1>3

LEMMA StartStep ==
  ASSUME LifecycleInv, StartInv, Next \/ UNCHANGED vars, ~StartupCrash
  PROVE  StartInv'
<1> SUFFICES ASSUME asked' = "start"
             PROVE  /\ StartLast'
                    /\ answered' => ~Has(queue', {"stop", "off"})
                    /\ answered' => intent' \/ (up' = "resuming" /\ queue' = <<"start">>)
  BY DEF StartInv, Queued
<1> USE DEF Queued, Executing, persisted, memory, operator
<1>1. queue \in Seq(Operation)
  BY DEF LifecycleInv, TypeOK, QueueOK
<1>2. /\ queue' = queue /\ StartLast => StartLast'
      /\ queue' = <<>> => StartLast'
      /\ queue' = <<"start">> => StartLast'
      /\ ~Has(<<>>, {"stop", "off"}) /\ ~Has(<<"start">>, {"stop", "off"})
  BY HasShort DEF StartLast
<1>3. queue # <<>> /\ queue' = Tail(queue) /\ StartLast =>
        /\ StartLast'
        /\ ~Has(queue', {"start"}) => ~Has(queue', {"stop", "off"})
        /\ Has(queue, {"stop", "off"}) <=>
             Head(queue) \in {"stop", "off"} \/ Has(queue', {"stop", "off"})
  BY <1>1, LastTail, HasTail
<1>4. CASE UNCHANGED vars \/ Boot \/ Listen \/ TimerFires \/ RunOnce \/ Terminate
  BY <1>2, <1>4 DEF vars, Boot, Listen, TimerFires, RunOnce, Terminate, Launch, StartInv
<1>5. CASE RunBegins \/ RunMarks \/ RunEnds \/ RunCloses \/ Fetched
  BY <1>2, <1>5 DEF RunBegins, RunMarks, RunEnds, RunCloses, Fetched, StartInv, LifecycleInv, RunInv
<1>6. CASE Start
  <2>1. Has(Tail(queue), {"start"}) => Has(Tail(queue), {"start", "stop"})
    BY HasMore
  <2>2. queue = <<"start">> => ~Has(Tail(queue), {"start", "stop"})
    <3>1. Tail(<<"start">>) = <<>>
      OBVIOUS
    <3> QED BY <3>1, HasShort
  <2>3. asked = "start" /\ queue # <<>> /\ queue' = Tail(queue)
    BY <1>6 DEF Start, Done
  <2>4. StartLast' /\ (answered' => ~Has(queue', {"stop", "off"}))
    BY <1>3, <1>6, <2>1, <2>3 DEF Start, Answers, StartInv
  <2>5. answered' => intent'
    <3>1. CASE intent' = TRUE
      BY <3>1
    <3>2. CASE timer /\ intent' = intent
      BY <3>2 DEF LifecycleInv, IntentInv
    <3>3. CASE ~Answers("start") /\ intent' = intent /\ (answered' => answered)
      BY <2>2, <2>3, <3>3 DEF Answers, StartInv
    <3> QED BY <1>6, <3>1, <3>2, <3>3 DEF Start
  <2> QED BY <2>4, <2>5
<1>7. CASE ClearTimer
  BY <1>2, <1>7 DEF ClearTimer, StartInv
<1>8. CASE Stop
  BY <1>3, <1>8 DEF Stop, Done, Answers, StartInv, LifecycleInv, WaitingInv
<1>9. CASE Reschedule
  BY <1>3, <1>9 DEF Reschedule, Done, StartInv
<1>10. CASE Suspend \/ Crash
  BY <1>2, <1>10 DEF Suspend, Crash, Gone, StartInv
<1>11. CASE Initialize
  BY <1>2, <1>11 DEF Initialize, StartInv
<1>12. CASE ServerClosed
  BY <1>1, <1>12, LastAppend, HasAppend DEF ServerClosed, StartInv, Operation, Quiet
<1>13. ASSUME NEW op \in {"start", "stop"}, Command(op) PROVE StartInv'
  BY <1>1, <1>13, LastAppend DEF Command, Connected, StartInv, Operation
<1>14. ASSUME NEW c \in Config, NEW interval \in BOOLEAN, SaveConfig(c, interval)
       PROVE  StartInv'
  BY <1>1, <1>2, <1>14, LastAppend, HasAppend DEF SaveConfig, Connected, StartInv, Operation
<1> QED
  BY <1>4, <1>5, <1>6, <1>7, <1>8, <1>9, <1>10, <1>11, <1>12, <1>13, <1>14
     DEF Next, Execute, Events, StartInv

(***************************************************************************)
(* If the process is never cut short while it starts, a start that was     *)
(* answered survives every run, save, shutdown and crash until the         *)
(* operator stops the worker (worker.initialize, suspendForShutdown).      *)
(***************************************************************************)
THEOREM StartSurvives == ASSUME ~StartupCrash PROVE Spec => []StartIsDurable
<1>1. Init => StartInv
  BY HasShort DEF Init, StartInv
<1>2. LifecycleInv /\ StartInv /\ [Next]_vars => StartInv'
  BY StartStep
<1>3. StartInv => StartIsDurable
  <2>1. Has(<<"start">>, {"start"})
    BY HasShort
  <2> QED BY <2>1 DEF StartInv, StartIsDurable, Queued
<1> QED BY <1>1, <1>2, <1>3, InvInit, InvStep, PTL DEF Spec
-----------------------------------------------------------------------------
(* What worker.initialize says of an explicit stop, for every stop that is *)
(* not cut off by the end of the process before the lifecycle queue has    *)
(* come to it: it is the last command in the queue until it is answered.   *)

StopsAreCarriedOut == Crash => ~Queued({"stop"})

StopLast ==
  \E i \in DOMAIN queue :
    queue[i] = "stop" /\ \A j \in DOMAIN queue : queue[j] = "start" => j < i

\* Nothing is asked for once the shutdown is queued.
SuspendLast ==
  \A i \in DOMAIN queue : queue[i] = "suspend" => up = "suspending" /\ i = Len(queue)

StopInv == SuspendLast /\ (asked = "stop" /\ ~answered => StopLast)

LEMMA StopAppend ==
  ASSUME queue \in Seq(Operation), NEW op \in Operation, queue' = Append(queue, op)
  PROVE  /\ op = "stop" => StopLast'
         /\ op # "start" /\ StopLast => StopLast'
         /\ op # "suspend" /\ SuspendLast /\ up # "suspending" => SuspendLast'
         /\ op = "suspend" /\ SuspendLast /\ up # "suspending" /\ up' = "suspending" => SuspendLast'
<1>1. /\ Len(queue) \in Nat /\ DOMAIN queue = 1..Len(queue)
      /\ DOMAIN queue' = 1..(Len(queue) + 1) /\ Len(queue') = Len(queue) + 1
      /\ queue'[Len(queue) + 1] = op /\ \A i \in DOMAIN queue : queue'[i] = queue[i]
  BY AppendProperties, LenProperties
<1>2. op = "stop" => StopLast'
  <2> SUFFICES ASSUME op = "stop" PROVE StopLast'
    OBVIOUS
  <2>1. \A j \in DOMAIN queue' : queue'[j] = "start" => j < Len(queue) + 1
    BY <1>1
  <2>2. Len(queue) + 1 \in DOMAIN queue' /\ queue'[Len(queue) + 1] = "stop"
    BY <1>1
  <2> QED
    BY <2>1, <2>2 DEF StopLast
<1>3. op # "start" /\ StopLast => StopLast'
  <2> SUFFICES ASSUME op # "start", StopLast PROVE StopLast'
    OBVIOUS
  <2>1. PICK i \in DOMAIN queue :
          queue[i] = "stop" /\ \A j \in DOMAIN queue : queue[j] = "start" => j < i
    BY DEF StopLast
  <2>2. i \in DOMAIN queue' /\ queue'[i] = "stop"
    BY <1>1, <2>1
  <2>3. \A j \in DOMAIN queue' : queue'[j] = "start" => j < i
    BY <1>1, <2>1
  <2> QED
    BY <2>2, <2>3 DEF StopLast
<1>4. op # "suspend" /\ SuspendLast /\ up # "suspending" => SuspendLast'
  BY <1>1 DEF SuspendLast
<1>5. op = "suspend" /\ SuspendLast /\ up # "suspending" /\ up' = "suspending" => SuspendLast'
  BY <1>1 DEF SuspendLast
<1> QED BY <1>2, <1>3, <1>4, <1>5

LEMMA StopTail ==
  ASSUME queue \in Seq(Operation), queue # <<>>, queue' = Tail(queue), up' = up
  PROVE  /\ SuspendLast => SuspendLast'
         /\ StopLast => StopLast' \/ (Head(queue) = "stop" /\ ~Has(queue', {"start", "stop"}))
<1>1. /\ Len(queue) \in Nat \ {0} /\ DOMAIN queue = 1..Len(queue)
      /\ DOMAIN queue' = 1..(Len(queue) - 1) /\ Len(queue') = Len(queue) - 1
      /\ Head(queue) = queue[1]
      /\ \A i \in DOMAIN queue' : queue'[i] = queue[i + 1]
  BY HeadTailProperties, LenProperties
<1>2. SuspendLast => SuspendLast'
  BY <1>1 DEF SuspendLast
<1>3. ASSUME StopLast, ~StopLast'
      PROVE  Head(queue) = "stop" /\ ~Has(queue', {"start", "stop"})
  <2>1. PICK i \in DOMAIN queue :
          queue[i] = "stop" /\ \A j \in DOMAIN queue : queue[j] = "start" => j < i
    BY <1>3 DEF StopLast
  <2>2. \A j \in DOMAIN queue' : j + 1 \in DOMAIN queue /\ (queue'[j] = "start" => j + 1 < i)
    BY <1>1, <2>1
  <2>3. i = 1
    <3> SUFFICES ASSUME i # 1 PROVE StopLast'
      BY <1>3
    <3>1. i - 1 \in DOMAIN queue' /\ queue'[i - 1] = "stop"
      BY <1>1, <2>1
    <3>2. \A j \in DOMAIN queue' : queue'[j] = "start" => j < i - 1
      BY <1>1, <2>2
    <3> QED BY <3>1, <3>2 DEF StopLast
  <2>4. \A j \in DOMAIN queue' : queue'[j] # "start"
    BY <1>1, <2>2, <2>3
  <2>5. \A j \in DOMAIN queue' : queue'[j] # "stop"
    BY <1>3, <2>4 DEF StopLast
  <2> QED BY <1>1, <2>1, <2>3, <2>4, <2>5 DEF Has
<1> QED BY <1>2, <1>3

LEMMA StopStep ==
  ASSUME LifecycleInv, StopInv, Next \/ UNCHANGED vars, StopsAreCarriedOut \/ UNCHANGED vars
  PROVE  StopInv'
<1> USE DEF Queued, Executing, persisted, memory, operator
<1>1. queue \in Seq(Operation) /\ asked \in {"none", "start", "stop"} /\ answered \in BOOLEAN
  BY DEF LifecycleInv, TypeOK, QueueOK
<1>2. queue # <<>> /\ queue' = Tail(queue) /\ up' = up =>
        /\ SuspendLast => SuspendLast'
        /\ StopLast => StopLast' \/ (Head(queue) = "stop" /\ ~Has(queue', {"start", "stop"}))
  BY <1>1, StopTail
<1>3. queue' = <<>> => SuspendLast'
  BY DEF SuspendLast
<1>4. StopLast => Has(queue, {"stop"})
  BY DEF StopLast, Has
<1>5. queue' = queue /\ (up' = up \/ up # "suspending") =>
        (SuspendLast => SuspendLast') /\ (StopLast => StopLast')
  BY DEF SuspendLast, StopLast
<1>6. CASE UNCHANGED vars
  BY <1>5, <1>6 DEF vars, StopInv
<1>7. CASE Boot \/ Listen \/ TimerFires \/ RunOnce \/ Terminate
  BY <1>5, <1>7 DEF Boot, Listen, TimerFires, RunOnce, Terminate, StopInv
<1>8. CASE RunBegins \/ RunMarks \/ RunEnds \/ RunCloses \/ Fetched \/ ClearTimer
  BY <1>5, <1>8 DEF RunBegins, RunMarks, RunEnds, RunCloses, Fetched, ClearTimer, StopInv
<1>9. CASE Start
  <2>1. queue # <<>> /\ queue' = Tail(queue) /\ up' = up /\ Head(queue) = "start"
    BY <1>9 DEF Start, Done
  <2>2. asked' = "stop" /\ ~answered' => asked = "stop" /\ ~answered
    BY <1>9 DEF Start, Answers
  <2> QED BY <1>2, <2>1, <2>2 DEF StopInv
<1>10. CASE Stop
  <2>1. queue # <<>> /\ queue' = Tail(queue) /\ up' = up /\ asked' = asked
        /\ answered' = (answered \/ Answers("stop"))
    BY <1>10 DEF Stop, Done
  <2> QED BY <1>1, <1>2, <2>1 DEF StopInv, Answers
<1>11. CASE Reschedule
  <2>1. queue # <<>> /\ queue' = Tail(queue) /\ up' = up /\ Head(queue) = "reschedule"
        /\ UNCHANGED <<asked, answered>>
    BY <1>11 DEF Reschedule, Done
  <2> QED BY <1>2, <2>1 DEF StopInv
<1>12. CASE Suspend
  <2>1. /\ queue # <<>> /\ Head(queue) = "suspend" /\ queue' = <<>>
        /\ UNCHANGED <<asked, answered>>
    BY <1>12 DEF Suspend, Gone
  <2>2. DOMAIN queue = 1..Len(queue) /\ Len(queue) \in Nat \ {0} /\ queue[1] = "suspend"
    BY <1>1, <2>1, LenProperties
  <2>3. Len(queue) = 1
    BY <2>2 DEF StopInv, SuspendLast
  <2>4. ~StopLast
    BY <2>2, <2>3 DEF StopLast
  <2> QED BY <1>3, <2>1, <2>4 DEF StopInv
<1>13. CASE Crash
  <2>1. ~Has(queue, {"stop"}) \/ UNCHANGED vars
    BY <1>13 DEF StopsAreCarriedOut
  <2>2. queue' = <<>> /\ UNCHANGED <<asked, answered>>
    BY <1>13 DEF Crash, Gone
  <2> QED BY <1>3, <1>4, <1>6, <2>1, <2>2 DEF StopInv
<1>14. CASE Initialize
  <2>1. queue = <<>>
    BY <1>14 DEF Initialize, LifecycleInv, ProcessInv
  <2>2. ~StopLast
    BY <2>1 DEF StopLast
  <2>3. queue' = <<"start">> \/ queue' = <<>>
    BY <1>14 DEF Initialize
  <2>4. SuspendLast'
    BY <2>3 DEF SuspendLast
  <2> QED BY <1>14, <2>2, <2>4 DEF Initialize, StopInv
<1>15. CASE ServerClosed
  BY <1>1, <1>15, StopAppend DEF ServerClosed, StopInv, Operation
<1>16. ASSUME NEW op \in {"start", "stop"}, Command(op) PROVE StopInv'
  BY <1>1, <1>16, StopAppend DEF Command, Connected, StopInv, Operation
<1>17. ASSUME NEW c \in Config, NEW interval \in BOOLEAN, SaveConfig(c, interval)
       PROVE  StopInv'
  BY <1>1, <1>5, <1>17, StopAppend DEF SaveConfig, Connected, StopInv, Operation
<1> QED
  BY <1>6, <1>7, <1>8, <1>9, <1>10, <1>11, <1>12, <1>13, <1>14, <1>15, <1>16, <1>17
     DEF Next, Execute, Events

(***************************************************************************)
(* "An explicit stop() remains durable" (worker.initialize) from the moment*)
(* the operator asks for it, whatever runs, saves, shutdowns and restarts  *)
(* come first, as long as no crash or forced exit cuts off a stop that is  *)
(* still waiting for the run in progress: that window is all there is.     *)
(***************************************************************************)
THEOREM StopIsFinal == Spec /\ [][StopsAreCarriedOut]_vars => []StopRequestIsFinal
<1>1. Init => StopInv
  BY DEF Init, StopInv, SuspendLast
<1>2. LifecycleInv /\ StopInv /\ [Next]_vars /\ [StopsAreCarriedOut]_vars => StopInv'
  BY StopStep
<1>3. ASSUME LifecycleInv, StopInv PROVE StopRequestIsFinal
  <2> SUFFICES ASSUME asked = "stop", queue = <<>> PROVE ~timer
    BY DEF StopRequestIsFinal
  <2>1. ~StopLast
    BY DEF StopLast
  <2>2. answered
    BY <1>3, <2>1 DEF StopInv
  <2> QED BY <1>3, <2>2 DEF LifecycleInv, IntentInv
<1> QED BY <1>1, <1>2, <1>3, InvInit, InvStep, PTL DEF Spec
=============================================================================
