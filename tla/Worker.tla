------------------------------- MODULE Worker -------------------------------
(***************************************************************************)
(* The automatic-reply worker (src/main/core/worker.ts: executeRun and     *)
(* processRecord) between the messaging platform it polls, the outbox it   *)
(* persists to and the settings an operator saves meanwhile                *)
(* (src/main/core/service.ts: saveConfig).                                 *)
(*                                                                         *)
(* A step of the worker runs from one await that does I/O to the next.  A  *)
(* crash may fall between any two steps, and the database operation of a   *)
(* step may fail; a request already handed to the command-line connector   *)
(* survives both.  Steps of a save may fall between those of a record, as  *)
(* the asynchronous interface of the stores allows: with the synchronous   *)
(* driver in use the schedules of the program are among these.             *)
(***************************************************************************)
EXTENDS Outbox

CONSTANTS
  Group,        \* the configured groups
  GroupOf,      \* GroupOf[m] is the group of message m
  Sender,       \* the members of the groups
  SenderOf,     \* SenderOf[m] is the sender of message m
  Mentions,     \* messages that mention the connected account
  Own,          \* messages sent by the connected account itself
  Blank,        \* messages without text (pictures, voice, attachments)
  Configs,      \* the settings an operator may save
  Answers,      \* reply texts the knowledge index may compose
  None,         \* no message, group, configuration, answer or call
  FollowUp,     \* the largest followUpHours, in ticks
  Page,         \* messages one lookup of the conversation returns
  Stall,        \* ticks one record's processing may take
  Flight,       \* ticks until a request is decided
  MaxAttempts,  \* failed attempts before the record is handed over
  MaxFaults     \* bound of the model: crashes and failed database operations

\* lookback and followUp: ticks a poll looks back and a message stays answerable.
Config == [enabled : BOOLEAN, groups : SUBSET Group, dry : BOOLEAN, mark : BOOLEAN,
           limit : Nat, lookback : Nat, followUp : 0..FollowUp]

\* A record or mention a loop still has to process, with what the snapshot it
\* was taken from says of it.
Item == [msg : Msg, uncertain : BOOLEAN, overdue : BOOLEAN, withdrawn : BOOLEAN,
         own : BOOLEAN]

(***************************************************************************)
(* validation.ts admits followUpHours up to 24, the length of the          *)
(* platform's window: the strict inequality below asks that what is left   *)
(* of the window covers one processing and one request.                    *)
(***************************************************************************)
ASSUME WorkerAssumption ==
  /\ GroupOf \in [Msg -> Group]
  /\ SenderOf \in [Msg -> Sender]
  /\ Mentions \subseteq Msg /\ Own \subseteq Msg /\ Blank \subseteq Msg
  /\ Configs \subseteq Config
  /\ None \notin Msg \cup Group \cup Item /\ None \notin Configs /\ None \notin Answers
  /\ None \notin [next : Configs, stage : {"publish", "persist", "stop"}]
  /\ FollowUp \in Nat /\ Page \in Nat /\ Stall \in Nat /\ Flight \in Nat
  /\ MaxAttempts \in Nat \ {0} /\ MaxFaults \in Nat
  /\ FollowUp + Stall + Flight < Window

VARIABLES
  \* the messaging platform
  rank,         \* rank[m] = k: m is the k-th message posted; 0: not posted
  age,          \* ticks since m was posted
  recalled,     \* messages their sender withdrew
  wire,         \* send requests the platform has not decided yet
  accepted,     \* idempotency keys the platform has seen, with their age
  delivered,    \* delivered[m]: replies to m that appeared in the group
  \* the settings, as service.ts holds them
  stored,       \* the persisted configuration (configStore)
  current,      \* the in-memory configuration (currentConfig)
  save,         \* the saveConfig call in progress
  answer,       \* what the active index composes now
  \* the state document
  recs,         \* the outbox
  initialized,  \* groups whose first scan is done (initializedGroups)
  historical,   \* history: messages older than their group's authorisation
  answeredAt,   \* messages posted when the reply to m was recorded (updatedAt)
  closed,       \* replies whose follow-up window is closed (followUpClosedAt)
  \* the run
  pc,           \* where the worker is
  cfg,          \* the configuration the run read when it started
  scope,        \* messages inside the run's time window
  groupsLeft, group, fetched,
  phase, todo,  \* the loops: recoverable records, mentions, follow-ups
  windows,      \* the follow-up windows still to look at
  \* the record in processing
  cur, text, reserved, busy, ack,
  faults        \* crashes and failed database operations so far

platformVars == <<rank, age, recalled, wire, accepted, delivered>>
settingVars == <<stored, current, save, answer>>
followUpVars == <<answeredAt, closed>>
storeVars == <<recs, initialized, historical, followUpVars>>
runVars == <<cfg, scope, groupsLeft, group, fetched, phase, todo, windows>>
jobVars == <<cur, text, reserved, busy, ack>>
vars == <<platformVars, settingVars, storeVars, pc, runVars, jobVars, faults>>

\* The steps of one record's processing that share a time budget.
JobSteps == {"history", "latest", "recheck", "claim", "guard", "call"}

PC == JobSteps \cup {"down", "idle", "group", "scan", "mark", "snapshot", "next", "entry"}

Request == [msg : Msg, attempt : Nat, uuid : Msg, age : 0..Window]

PlatformTypeOK ==
  /\ rank \in [Msg -> Nat] /\ age \in [Msg -> 0..Window] /\ recalled \subseteq Msg
  /\ wire \subseteq Request /\ accepted \subseteq [uuid : Msg, age : 0..Window]
  /\ delivered \in [Msg -> Nat]

SettingsTypeOK ==
  /\ stored \in Configs /\ current \in Configs /\ answer \in Answers \cup {None}
  /\ save \in [next : Configs, stage : {"publish", "persist", "stop"}] \cup {None}

StoreTypeOK ==
  /\ recs \in [Msg -> Record] /\ initialized \subseteq Group /\ historical \subseteq Msg
  /\ answeredAt \in [Msg -> Nat] /\ closed \subseteq Msg

RunTypeOK ==
  /\ pc \in PC /\ phase \in {"recover", "mentions", "followups"}
  /\ cfg \in Configs \cup {None} /\ (pc \notin {"down", "idle"} => cfg \in Configs)
  /\ scope \subseteq Msg /\ groupsLeft \subseteq Group
  /\ group \in Group \cup {None}
  /\ pc \notin {"down", "idle", "group"} => group \in Group
  /\ fetched \subseteq Item /\ todo \subseteq Item /\ windows \subseteq Msg

JobTypeOK ==
  /\ cur \in Item \cup {None} /\ (pc \in JobSteps \cup {"entry"} => cur \in Item)
  /\ text \in Answers \cup {None} /\ reserved \in Nat /\ busy \in Nat
  /\ ack \in BOOLEAN /\ faults \in Nat

TypeOK == PlatformTypeOK /\ SettingsTypeOK /\ StoreTypeOK /\ RunTypeOK /\ JobTypeOK

Init ==
  /\ rank = [m \in Msg |-> 0] /\ age = [m \in Msg |-> 0] /\ recalled = {}
  /\ wire = {} /\ accepted = {} /\ delivered = [m \in Msg |-> 0]
  /\ stored \in Configs /\ current = stored /\ save = None
  /\ answer \in Answers \cup {None}
  /\ recs = [m \in Msg |-> Absent] /\ initialized = {} /\ historical = {}
  /\ answeredAt = [m \in Msg |-> 0] /\ closed = {}
  /\ pc = "idle" /\ cfg = None /\ scope = {} /\ groupsLeft = {} /\ group = None
  /\ fetched = {} /\ phase = "recover" /\ todo = {} /\ windows = {}
  /\ cur = None /\ text = None /\ reserved = 0 /\ busy = 0 /\ ack = FALSE
  /\ faults = 0

-----------------------------------------------------------------------------
(* The messaging platform.                                                 *)

Posted == {m \in Msg : rank[m] > 0}

Post(m) ==
  /\ rank[m] = 0
  /\ rank' = [rank EXCEPT ![m] = Cardinality(Posted) + 1]
  /\ UNCHANGED <<age, recalled, wire, accepted, delivered, settingVars, storeVars, pc,
                 runVars, jobVars, faults>>

Recall(m) ==
  /\ m \in Posted \ recalled
  /\ recalled' = recalled \cup {m}
  /\ UNCHANGED <<rank, age, wire, accepted, delivered, settingVars, storeVars, pc,
                 runVars, jobVars, faults>>

\* One page of the conversation of group g, from the first message posted
\* after n others (listConversationMessages).
PageAfter(g, n) ==
  LET later == {m \in Posted : GroupOf[m] = g /\ rank[m] > n}
  IN {m \in later : Cardinality({k \in later : rank[k] <= rank[m]}) <= Page}

\* A later message of the group that the connected account did not send:
\* somebody took over, or the conversation moved on.  The page starts two
\* minutes before m, at the earliest with the group's first message.
Interrupted(m) == \E n \in PageAfter(GroupOf[m], 0) \ Own : rank[n] > rank[m]

Remembered(uuid) == \E a \in accepted : a.uuid = uuid /\ a.age < Window

\* The platform takes a request: a key it remembers is confirmed without a
\* second delivery.  Only the attempt the worker awaits is told.
Accept(w) ==
  /\ wire' = wire \ {w}
  /\ IF Remembered(w.uuid)
     THEN UNCHANGED <<accepted, delivered>>
     ELSE /\ accepted' = accepted \cup {[uuid |-> w.uuid, age |-> 0]}
          /\ delivered' = [delivered EXCEPT ![w.msg] = @ + 1]
  /\ ack' = (ack \/ (pc = "call" /\ cur.msg = w.msg /\ recs[w.msg].attempts = w.attempt))
  /\ UNCHANGED <<rank, age, recalled, settingVars, storeVars, pc, runVars, cur, text,
                 reserved, busy, faults>>

Drop(w) ==
  /\ wire' = wire \ {w}
  /\ UNCHANGED <<rank, age, recalled, accepted, delivered, settingVars, storeVars, pc,
                 runVars, jobVars, faults>>

(***************************************************************************)
(* The clock.  The time limits of the connector and of the agent bound a   *)
(* record's processing by Stall, the limit of one connector call bounds a  *)
(* request by Flight; there is no I/O between claiming a record and        *)
(* starting its request.                                                   *)
(***************************************************************************)
Tick ==
  /\ pc # "guard" /\ (pc \in JobSteps => busy < Stall)
  /\ \A w \in wire : w.age < Flight
  /\ age' = [m \in Msg |-> IF m \in Posted THEN Older(age[m]) ELSE 0]
  /\ wire' = {[w EXCEPT !.age = Older(@)] : w \in wire}
  /\ accepted' = {[a EXCEPT !.age = Older(@)] : a \in accepted}
  /\ recs' = [m \in Msg |-> AgedRecord(recs[m])]
  /\ busy' = IF pc \in JobSteps THEN busy + 1 ELSE busy
  /\ UNCHANGED <<rank, recalled, delivered, settingVars, initialized, historical,
                 followUpVars, pc, runVars, cur, text, reserved, ack, faults>>

-----------------------------------------------------------------------------
(* The settings (service.ts: saveConfig, serialised by the daemon).  The    *)
(* worker does no I/O between claiming a record and its last guard: a save *)
(* in progress may take a step there, none begins.                          *)

\* The groups saveConfig authorises anew: their first scan is due again and
\* their unfinished records go to a human.
HandOver(fresh) ==
  /\ initialized' = initialized \ fresh
  /\ recs' = [m \in Msg |->
                IF GroupOf[m] \in fresh /\ recs[m].status \in Unfinished
                THEN WithStatus(recs[m], "needs_manual") ELSE recs[m]]

BeginSave(c) ==
  /\ save = None /\ pc \notin {"down", "guard"} /\ c # stored
  /\ LET fresh == c.groups \ stored.groups
     IN /\ HandOver(fresh)
        /\ historical' = historical \cup {m \in Posted : GroupOf[m] \in fresh}
  /\ save' = [next |-> c, stage |-> "publish"]
  /\ UNCHANGED <<platformVars, stored, current, answer, followUpVars, pc, runVars,
                 jobVars, faults>>

\* The in-memory view changes before the write it announces.
PublishSave ==
  /\ save # None /\ save.stage = "publish"
  /\ current' = save.next
  /\ save' = [save EXCEPT !.stage = "persist"]
  /\ UNCHANGED <<platformVars, stored, answer, storeVars, pc, runVars, jobVars, faults>>

\* Switching the last group or the policy off also stops the worker.
Stops(c) == ~c.enabled \/ c.groups = {}

PersistSave ==
  /\ save # None /\ save.stage = "persist"
  /\ stored' = save.next
  /\ save' = IF stored.enabled /\ Stops(save.next)
             THEN [save EXCEPT !.stage = "stop"] ELSE None
  /\ UNCHANGED <<platformVars, current, answer, storeVars, pc, runVars, jobVars, faults>>

FailSave ==
  /\ save # None /\ save.stage = "persist"
  /\ current' = stored
  /\ save' = None
  /\ UNCHANGED <<platformVars, stored, answer, storeVars, pc, runVars, jobVars, faults>>

\* worker.stop() waits for the run in progress.
StopSave ==
  /\ save # None /\ save.stage = "stop" /\ pc = "idle"
  /\ save' = None
  /\ UNCHANGED <<platformVars, stored, current, answer, storeVars, pc, runVars, jobVars,
                 faults>>

\* A change of sources replaces the index, or a synchronisation does, which
\* first takes the stored configuration for the current one: nothing falls
\* between its read and this write, nor between those of a save.
ChangeAnswer(a) ==
  /\ pc # "down" /\ a # answer
  /\ answer' = a
  /\ \/ UNCHANGED current
     \/ (save # None => save.stage = "stop") /\ current' = stored
  /\ UNCHANGED <<platformVars, stored, save, storeVars, pc, runVars, jobVars, faults>>

-----------------------------------------------------------------------------
(* One run over the groups (executeRun).                                    *)

NoJob == cur' = None /\ text' = None /\ reserved' = 0 /\ busy' = 0 /\ ack' = FALSE

LeaveGroup ==
  /\ pc' = "group" /\ group' = None /\ groupsLeft' = groupsLeft \ {group}
  /\ fetched' = {} /\ phase' = "recover" /\ todo' = {} /\ windows' = {} /\ NoJob
  /\ UNCHANGED <<cfg, scope>>

BackToLoop == pc' = "next" /\ NoJob /\ UNCHANGED runVars

StartRun ==
  /\ pc = "idle"
  /\ pc' = "group" /\ cfg' = stored
  /\ groupsLeft' = IF stored.enabled THEN stored.groups ELSE {}
  /\ scope' = {m \in Posted : age[m] <= stored.lookback}
  /\ UNCHANGED <<platformVars, settingVars, storeVars, group, fetched, phase, todo,
                 windows, jobVars, faults>>

\* listMentions: only messages of the run's window, however late the call is.
FetchMentions(g) ==
  /\ pc = "group" /\ g \in groupsLeft
  /\ pc' = "scan" /\ group' = g
  /\ fetched' = {[msg |-> m, uncertain |-> FALSE, overdue |-> FALSE,
                  withdrawn |-> m \in recalled, own |-> m \in Own] :
                   m \in {n \in scope \cap Mentions : GroupOf[n] = g}}
  /\ UNCHANGED <<platformVars, settingVars, storeVars, cfg, scope, groupsLeft, phase, todo,
                 windows, jobVars, faults>>

FetchFails(g) ==
  /\ pc = "group" /\ g \in groupsLeft
  /\ groupsLeft' = groupsLeft \ {g}
  /\ UNCHANGED <<platformVars, settingVars, storeVars, pc, cfg, scope, group, fetched,
                 phase, todo, windows, jobVars, faults>>

\* The records of the first scan: nothing that was there before is answered.
MarkedIgnored(r) == IF r.status = "absent" THEN WithStatus(NewRecord, "ignored") ELSE r

Scan ==
  /\ pc = "scan"
  /\ \/ /\ group \in initialized
        /\ pc' = "snapshot" /\ UNCHANGED recs
     \/ /\ group \notin initialized /\ cfg.mark
        /\ recs' \in Trimmed([m \in Msg |-> IF \E i \in fetched : i.msg = m
                                            THEN MarkedIgnored(recs[m]) ELSE recs[m]])
        /\ pc' = "mark"
     \/ /\ group \notin initialized /\ ~cfg.mark
        /\ pc' = "mark" /\ UNCHANGED recs
  /\ UNCHANGED <<platformVars, settingVars, initialized, historical, followUpVars,
                 runVars, jobVars, faults>>

\* markGroupInitialized; a marking first scan goes on to the next group.
MarkInitialized ==
  /\ pc = "mark"
  /\ initialized' = initialized \cup {group}
  /\ IF cfg.mark THEN LeaveGroup
     ELSE pc' = "snapshot" /\ UNCHANGED <<runVars, jobVars>>
  /\ UNCHANGED <<platformVars, settingVars, recs, historical, followUpVars, faults>>

\* Only records never attempted are recovered.
RecoverPending(r) == r.status = "pending"

IsUncertain(r) == r.status = "sending" /\ r.attempts > 0

Recoverable(r) == r.status = "pending" \/ (r.status = "sending" /\ LeaseExpired(r))

TakeSnapshot ==
  /\ pc = "snapshot"
  /\ pc' = "next" /\ phase' = "recover"
  /\ todo' = {[msg |-> m, uncertain |-> IsUncertain(recs[m]),
               overdue |-> recs[m].since >= Window, withdrawn |-> FALSE, own |-> FALSE] :
                m \in {n \in Msg : GroupOf[n] = group /\ Recoverable(recs[n])}}
  /\ UNCHANGED <<platformVars, settingVars, storeVars, cfg, scope, groupsLeft, group,
                 fetched, windows, jobVars, faults>>

\* The replies whose follow-up window is open.
OpenWindows ==
  {m \in Msg : /\ GroupOf[m] = group /\ recs[m].status = "sent"
               /\ m \notin closed /\ recs[m].since <= cfg.followUp}

\* Of the windows of one sender the newest counts; replies recorded between
\* the same two messages are ordered by timestamps the model does not keep.
NewestBySender(open) ==
  {S \in SUBSET open :
     \A m \in open : \E n \in S :
       /\ answeredAt[n] >= answeredAt[m]
       /\ {k \in S : SenderOf[k] = SenderOf[m]} = {n}}

NextPhase ==
  /\ pc = "next" /\ todo = {}
  /\ \/ /\ phase = "recover"
        /\ phase' = "mentions" /\ todo' = fetched /\ fetched' = {}
        /\ UNCHANGED <<pc, cfg, scope, groupsLeft, group, windows, jobVars>>
     \/ /\ phase = "mentions"
        /\ phase' = "followups" /\ windows' \in NewestBySender(OpenWindows)
        /\ UNCHANGED <<pc, cfg, scope, groupsLeft, group, fetched, todo, jobVars>>
     \/ phase = "followups" /\ windows = {} /\ LeaveGroup
  /\ UNCHANGED <<platformVars, settingVars, storeVars, faults>>

EndRun ==
  /\ pc = "group" /\ groupsLeft = {}
  /\ pc' = "idle" /\ cfg' = None /\ scope' = {}
  /\ UNCHANGED <<platformVars, settingVars, storeVars, groupsLeft, group, fetched, phase,
                 todo, windows, jobVars, faults>>

-----------------------------------------------------------------------------
(* One record (processRecord).                                              *)

\* An uncertain send is closed like any other record.
SettledAlways(s) == s

\* stopWithoutRetry: once a send may have reached the platform, only a human
\* may close the record.
Settled(s) ==
  IF cur.uncertain /\ s \in {"recalled", "ignored", "dry_run"} THEN "needs_manual" ELSE s

\* setStatus: an illegal status change throws, which ends the group's turn.
Finish(m, s) ==
  \/ /\ AllowedTransition(recs[m].status, s)
     /\ recs' \in Trimmed([recs EXCEPT ![m] = WithStatus(@, s)])
     /\ BackToLoop
  \/ /\ ~AllowedTransition(recs[m].status, s)
     /\ UNCHANGED recs /\ LeaveGroup

\* Either go on to the next lookup or close the record with this status.
Decide(verdict, step) ==
  \/ /\ verdict = "proceed"
     /\ pc' = step /\ UNCHANGED <<recs, runVars, jobVars>>
  \/ verdict # "proceed" /\ Finish(cur.msg, Settled(verdict))

Outside == <<platformVars, settingVars, initialized, historical, followUpVars, faults>>

TakeRecoverable(i) ==
  /\ pc = "next" /\ phase = "recover" /\ i \in todo /\ ~i.overdue
  /\ todo' = todo \ {i} /\ cur' = i /\ pc' = "entry"
  /\ UNCHANGED <<Outside, recs, cfg, scope, groupsLeft, group, fetched, phase, windows,
                 text, reserved, busy, ack>>

\* Past the platform's window a retry could be delivered twice.
TakeOverdue(i) ==
  /\ pc = "next" /\ phase = "recover" /\ i \in todo /\ i.overdue
  /\ \/ /\ AllowedTransition(recs[i.msg].status, "needs_manual")
        /\ recs' \in Trimmed([recs EXCEPT ![i.msg] = WithStatus(@, "needs_manual")])
        /\ todo' = todo \ {i}
        /\ UNCHANGED <<pc, cfg, scope, groupsLeft, group, fetched, phase, windows,
                       jobVars>>
     \/ /\ ~AllowedTransition(recs[i.msg].status, "needs_manual")
        /\ UNCHANGED recs /\ LeaveGroup
  /\ UNCHANGED Outside

\* ensurePendingRecord, then processRecord's first returns: a settled record
\* and one whose lease runs are left alone.  Mentions come in posting order.
TakeMention(i) ==
  /\ pc = "next" /\ phase # "recover" /\ i \in todo
  /\ \A j \in todo : rank[i.msg] <= rank[j.msg]
  /\ todo' = todo \ {i}
  /\ \/ /\ recs[i.msg].status = "absent"
        /\ recs' \in Trimmed([recs EXCEPT ![i.msg] = NewRecord])
        /\ cur' = i /\ pc' = "entry"
     \/ /\ Recoverable(recs[i.msg])
        /\ cur' = [i EXCEPT !.uncertain = IsUncertain(recs[i.msg])]
        /\ pc' = "entry" /\ UNCHANGED recs
     \/ /\ recs[i.msg].status # "absent" /\ ~Recoverable(recs[i.msg])
        /\ UNCHANGED <<recs, cur, pc>>
  /\ UNCHANGED <<Outside, cfg, scope, groupsLeft, group, fetched, phase, windows, text,
                 reserved, busy, ack>>


\* A follow-up comes from the sender who was answered.
FollowsUp(m, n) == SenderOf[n] = SenderOf[m]

\* The messages of the page after the reply to m that open a conversation.
HumanAfter(m) == PageAfter(group, answeredAt[m]) \ (Own \cup recalled \cup Blank)

\* processOpenFollowUps, one window: it is closed by the first message after
\* the reply, before that message is recorded as a follow-up; a failing
\* lookup ends the group's turn.
ServeWindow(m) ==
  /\ pc = "next" /\ phase = "followups" /\ todo = {} /\ m \in windows
  /\ \A n \in windows : answeredAt[n] <= answeredAt[m]
  /\ \/ /\ HumanAfter(m) = {}
        /\ windows' = windows \ {m}
        /\ UNCHANGED <<closed, todo, pc, cfg, scope, groupsLeft, group, fetched, phase,
                       jobVars>>
     \/ \E n \in HumanAfter(m) :
          /\ \A k \in HumanAfter(m) : rank[n] <= rank[k]
          /\ windows' = windows \ {m} /\ closed' = closed \cup {m}
          /\ todo' = IF FollowsUp(m, n)
                     THEN {[msg |-> n, uncertain |-> FALSE, overdue |-> FALSE,
                            withdrawn |-> FALSE, own |-> FALSE]}
                     ELSE {}
          /\ UNCHANGED <<pc, cfg, scope, groupsLeft, group, fetched, phase, jobVars>>
     \/ UNCHANGED closed /\ LeaveGroup
  /\ UNCHANGED <<platformVars, settingVars, recs, initialized, historical, answeredAt,
                 faults>>

\* The age check is left to the platform's own window.
FreshWithinWindow(m) == age[m] < Window

FreshEnough(m) == age[m] <= cfg.followUp

EntryVerdict ==
  IF cur.withdrawn THEN "recalled"
  ELSE IF cur.own THEN "ignored"
  ELSE IF cur.msg \in Blank THEN "needs_manual"
  ELSE IF FreshEnough(cur.msg) THEN "proceed" ELSE "ignored"

Entry ==
  /\ pc = "entry"
  /\ Decide(EntryVerdict, "history")
  /\ UNCHANGED Outside

\* What a lookup of the conversation may lead to: it fails; the message is
\* withdrawn or off the page; somebody else wrote; or nothing on the page
\* stands against going on, and then the verdict is the caller's.
LookupVerdicts(otherwise) ==
  {"needs_manual", "recalled"} \cup
  (IF cur.msg \in recalled \/ Interrupted(cur.msg) THEN {} ELSE {otherwise})

Composed == IF answer = None THEN "needs_manual" ELSE IF cfg.dry THEN "dry_run" ELSE "proceed"

\* The author of the message is taken from the mention alone.
HistoryTrustsMention == LookupVerdicts(Composed)

\* A recovered record does not remember who wrote its message; the first
\* lookup does.
HistoryVerdicts ==
  IF cur.msg \in Own \ recalled THEN {"needs_manual", "recalled", "ignored"}
  ELSE LookupVerdicts(Composed)

ReadHistory ==
  /\ pc = "history"
  /\ \E v \in HistoryVerdicts : Decide(v, "latest")
  /\ UNCHANGED Outside

Permits(c) == c.enabled /\ group \in c.groups

\* The threshold may have risen since the first retrieval.
ReadLatestConfig ==
  /\ pc = "latest"
  /\ \E v \in IF ~Permits(stored) THEN {"ignored"}
              ELSE (IF answer = None THEN {"needs_manual"} ELSE {}) \cup
                   {IF stored.dry THEN "dry_run" ELSE "proceed"} :
       Decide(v, "recheck")
  /\ UNCHANGED Outside

RecheckHistory ==
  /\ pc = "recheck"
  /\ \E v \in LookupVerdicts("proceed") : Decide(v, "claim")
  /\ UNCHANGED Outside

ClaimVerdict ==
  IF ~Permits(stored) THEN "ignored"
  ELSE IF stored.dry THEN "dry_run"
  ELSE IF answer = None \/ ReservedBesides(recs, cur.msg) >= stored.limit
  THEN "needs_manual" ELSE "proceed"

\* The hourly limit is compared with the records that were sent for certain.
Claim ==
  /\ pc = "claim"
  /\ \/ /\ ClaimVerdict = "proceed"
        /\ AllowedTransition(recs[cur.msg].status, "sending")
        /\ recs' \in Trimmed([recs EXCEPT ![cur.msg] = Claimed(@)])
        /\ pc' = "guard" /\ text' = answer
        /\ reserved' = ReservedBesides(recs, cur.msg)
        /\ UNCHANGED <<runVars, cur, busy, ack>>
     \/ /\ ClaimVerdict = "proceed"
        /\ ~AllowedTransition(recs[cur.msg].status, "sending")
        /\ UNCHANGED recs /\ LeaveGroup
     \/ /\ ClaimVerdict # "proceed"
        /\ Finish(cur.msg, Settled(ClaimVerdict))
  /\ UNCHANGED Outside

\* The last guard reads the persisted settings again.
GuardStored ==
  IF ~Permits(stored) THEN "ignored"
  ELSE IF stored.dry THEN "dry_run"
  ELSE IF answer # text \/ reserved >= stored.limit THEN "needs_manual" ELSE "proceed"

GuardVerdict ==
  IF ~Permits(current) THEN "ignored"
  ELSE IF current.dry THEN "dry_run"
  ELSE IF answer # text \/ reserved >= current.limit THEN "needs_manual" ELSE "proceed"

\* A new key for every attempt.
UuidPerAttempt(m, attempt) == <<m, attempt>>

\* stableUuid: one key per message, whatever the attempt.
Uuid(m, attempt) == m

Guard ==
  /\ pc = "guard"
  /\ \/ /\ GuardVerdict = "proceed"
        /\ wire' = wire \cup {[msg |-> cur.msg, attempt |-> recs[cur.msg].attempts,
                               uuid |-> Uuid(cur.msg, recs[cur.msg].attempts), age |-> 0]}
        /\ pc' = "call" /\ ack' = FALSE
        /\ UNCHANGED <<recs, runVars, cur, text, reserved, busy>>
     \/ /\ GuardVerdict # "proceed"
        /\ Finish(cur.msg, Settled(GuardVerdict))
        /\ UNCHANGED wire
  /\ UNCHANGED <<rank, age, recalled, accepted, delivered, settingVars, initialized,
                 historical, followUpVars, faults>>

\* The reply is recorded, and its follow-up window opens.
CallSucceeds ==
  /\ pc = "call" /\ ack /\ AllowedTransition(recs[cur.msg].status, "sent")
  /\ recs' \in Trimmed([recs EXCEPT ![cur.msg] = WithStatus(@, "sent")])
  /\ answeredAt' = [answeredAt EXCEPT ![cur.msg] = Cardinality(Posted)]
  /\ closed' = closed \ {cur.msg}
  /\ BackToLoop
  /\ UNCHANGED <<platformVars, settingVars, initialized, historical, faults>>

\* One attempt too many.
AttemptsExceeded(r) == r.attempts > MaxAttempts

AttemptsExhausted(r) == r.attempts >= MaxAttempts

\* The catch of a send: the record keeps its lease and is retried, until the
\* attempts are used up.
RetryLater(m) ==
  Finish(m, IF AttemptsExhausted(recs[m]) THEN "needs_manual" ELSE "sending")

\* The call timed out, was refused, or its result could not be recorded.
CallFails ==
  /\ pc = "call"
  /\ RetryLater(cur.msg)
  /\ UNCHANGED Outside

-----------------------------------------------------------------------------
(* Faults.                                                                  *)

\* The step the worker is at reads or writes the state document or reads the
\* stored settings.
UsesStore ==
  \/ pc \in {"scan", "mark", "snapshot", "history", "latest", "recheck", "claim", "call"}
  \/ pc = "next" /\ (phase # "recover" \/ \E i \in todo : i.overdue)
  \/ pc = "entry" /\ EntryVerdict # "proceed"
  \/ pc = "guard" /\ GuardVerdict # "proceed"

\* A database operation of the worker fails: nothing is written and the
\* exception ends the group's turn, whatever the step had decided.  Only the
\* hand-over by a last guard is awaited inside the catch of the send.
StoreFails ==
  /\ UsesStore /\ faults < MaxFaults
  /\ faults' = faults + 1
  /\ \/ UNCHANGED recs /\ LeaveGroup
     \/ pc = "guard" /\ GuardVerdict = "needs_manual" /\ RetryLater(cur.msg)
  /\ UNCHANGED <<platformVars, settingVars, initialized, historical, followUpVars>>

Crash ==
  /\ pc # "down" /\ faults < MaxFaults
  /\ pc' = "down" /\ faults' = faults + 1
  /\ cfg' = None /\ scope' = {} /\ groupsLeft' = {} /\ group' = None
  /\ fetched' = {} /\ phase' = "recover" /\ todo' = {} /\ windows' = {} /\ NoJob
  /\ save' = None
  /\ UNCHANGED <<platformVars, stored, current, answer, storeVars>>

Restart ==
  /\ pc = "down"
  /\ pc' = "idle" /\ current' = stored
  /\ UNCHANGED <<platformVars, stored, save, answer, storeVars, runVars, jobVars, faults>>

Platform ==
  \/ \E m \in Msg : Post(m) \/ Recall(m)
  \/ \E w \in wire : Accept(w) \/ Drop(w)
  \/ Tick

Settings ==
  \/ \E c \in Configs : BeginSave(c)
  \/ PublishSave \/ PersistSave \/ FailSave \/ StopSave
  \/ \E a \in Answers \cup {None} : ChangeAnswer(a)

Run ==
  \/ StartRun
  \/ \E g \in Group : FetchMentions(g) \/ FetchFails(g)
  \/ Scan \/ MarkInitialized \/ TakeSnapshot \/ NextPhase \/ EndRun

Process ==
  \/ \E i \in todo : TakeRecoverable(i) \/ TakeOverdue(i) \/ TakeMention(i)
  \/ \E m \in windows : ServeWindow(m)
  \/ Entry \/ ReadHistory \/ ReadLatestConfig \/ RecheckHistory \/ Claim \/ Guard
  \/ CallSucceeds \/ CallFails

Next == Platform \/ Settings \/ Run \/ Process \/ StoreFails \/ Crash \/ Restart

Spec == Init /\ [][Next]_vars

(***************************************************************************)
(* Fairness: the event loop keeps running the worker and launchd restarts  *)
(* it; the clock advances; the connector's time limits decide every        *)
(* request; and fetching a group's mentions does not fail forever.         *)
(***************************************************************************)
Fairness ==
  /\ WF_vars(Run \/ Process) /\ WF_vars(Restart) /\ SF_vars(Tick)
  /\ WF_vars(\E w \in wire : Accept(w) \/ Drop(w))
  /\ \A g \in Group : SF_vars(FetchMentions(g))

FairSpec == Spec /\ Fairness

-----------------------------------------------------------------------------
(* Properties.                                                              *)

(***************************************************************************)
(* However often an attempt is repeated after lost results and crashes,    *)
(* the reply to a message appears in the group at most once: every request *)
(* carries the same key and is made while the platform remembers it.       *)
(***************************************************************************)
AtMostOnceDelivered == \A m \in Msg : delivered[m] <= 1

(***************************************************************************)
(* The lease keeps attempts apart: two requests for one message are never  *)
(* outstanding together, not even after a crash and a restart.             *)
(***************************************************************************)
OneRequestPerMessage == \A v, w \in wire : v.msg = w.msg => v = w

(***************************************************************************)
(* Retries are bounded: beyond MaxAttempts, every further attempt is paid  *)
(* for by a crash or a failed write that kept the worker from handing the  *)
(* record over.                                                            *)
(***************************************************************************)
AttemptsBounded == \A m \in Msg : recs[m].attempts <= MaxAttempts + faults

(***************************************************************************)
(* The records that reserve capacity in the last hour, sent or still being *)
(* sent (countReservedInLastHour), never outnumber the largest limit an    *)
(* operator can have set, however attempts are retried and their           *)
(* timestamps refreshed.  A record handed to a human no longer reserves,   *)
(* even if its reply appeared: replies may outnumber the limit by those.   *)
(***************************************************************************)
HourlyReservation ==
  \E c \in Configs :
    Cardinality({m \in Msg : recs[m].status \in {"sent", "sending"}
                             /\ recs[m].since <= Hour}) <= c.limit

(***************************************************************************)
(* Whatever record the worker writes, trimming removes no send the hourly  *)
(* limit counts and no unfinished record, except the one just closed       *)
(* (trimReplies).                                                          *)
(***************************************************************************)
InHand(m) ==
  \/ cur # None /\ cur.msg = m
  \/ \E i \in todo : i.msg = m /\ i.overdue

ProtectedNeverEvicted ==
  [][\A m \in Msg :
       \/ recs[m].status = "sent" /\ Reserves(recs[m])
       \/ recs[m].status \in Unfinished /\ ~InHand(m)
       => recs'[m].status # "absent"]_vars

(***************************************************************************)
(* A request starts only while the persisted and the in-memory settings    *)
(* both allow live replies in the group: a save that forbids them is seen  *)
(* before it is written, and one that allows them not before it is.        *)
(***************************************************************************)
SendNeedsBothSettings ==
  [][\A w \in wire' \ wire : w.age = 0 =>
       \A c \in {stored, current} : Permits(c) /\ ~c.dry]_vars

(***************************************************************************)
(* While its group stays allowed, every record the worker opened is        *)
(* settled: a crash, a failed write, an uncertain result or a lease leaves *)
(* none behind for ever.                                                   *)
(***************************************************************************)
Allowed(m) == stored.enabled /\ GroupOf[m] \in stored.groups

EveryRecordSettles ==
  \A m \in Msg :
    recs[m].status \in Unfinished ~> (recs[m].status \notin Unfinished \/ ~Allowed(m))

(***************************************************************************)
(* Loop protection: no request is made for a message the account sent      *)
(* itself nor for one without text, not even for a record recovered after  *)
(* a crash, which no longer says who wrote its message.                    *)
(***************************************************************************)
ScreenedNeverSent == \A w \in wire : w.msg \notin Own \cup Blank

(***************************************************************************)
(* A message that was already there when its group was last authorised is  *)
(* never answered (the first scan of a group is a watermark).              *)
(***************************************************************************)
HistoricalNeverAnswered ==
  [][\A w \in wire' \ wire : w.age = 0 => w.msg \notin historical]_vars

(***************************************************************************)
(* A message that does not mention the account is taken up only as a       *)
(* follow-up: its sender was answered in the group, and it is the first    *)
(* message anyone there wrote after that reply (processOpenFollowUps),     *)
(* even when it is recovered or retried much later.                        *)
(***************************************************************************)
FirstAfter(m, n) ==
  /\ answeredAt[m] > 0 /\ GroupOf[n] = GroupOf[m] /\ rank[n] > answeredAt[m]
  /\ \A k \in Posted \ (Own \cup recalled \cup Blank) :
       GroupOf[k] = GroupOf[m] /\ rank[k] > answeredAt[m] => rank[k] >= rank[n]


(***************************************************************************)
(* The verdict on a message, as ReplyPromise sees it: a claimed record is  *)
(* open until its first request may have left.                             *)
(***************************************************************************)
Verdict(m) ==
  CASE recs[m].status \in {"absent", "pending"} -> "open"
    [] recs[m].status = "sending" ->
         IF pc = "guard" /\ cur.msg = m /\ ~cur.uncertain THEN "open" ELSE "attempted"
    [] recs[m].status = "sent" -> "sent"
    [] recs[m].status \in {"ignored", "recalled", "dry_run"} -> "declined"
    [] recs[m].status \in {"needs_manual", "failed"} -> "manual"

Promise == INSTANCE ReplyPromise
             WITH outcome <- [m \in Msg |-> Verdict(m)], replies <- delivered

(***************************************************************************)
(* The worker implements ReplyPromise, as long as no terminal record is    *)
(* evicted while its message is inside the polling window.                 *)
(***************************************************************************)
KeepsPromise == Promise!Spec

-----------------------------------------------------------------------------
(* Inductive strengthenings of the invariants the proofs establish.         *)

(* The message of every list entry and of every record was posted. *)
ListsPosted ==
  /\ scope \subseteq Posted
  /\ \A i \in fetched \cup todo : i.msg \in Posted
  /\ pc \in JobSteps \cup {"entry"} => cur.msg \in Posted

RecordsPosted == \A m \in Msg : recs[m].status # "absent" => m \in Posted

(***************************************************************************)
(* Why a key is never forgotten while a request with it may still arrive:  *)
(* a request leaves at most FollowUp + Stall after its message was posted  *)
(* and arrives within Flight, while a key is no older than its message.    *)
(***************************************************************************)
JobOnTime ==
  /\ pc \notin JobSteps => busy = 0
  /\ pc \in JobSteps => busy <= Stall /\ age[cur.msg] <= FollowUp + busy

RequestsOnTime ==
  \A w \in wire : /\ w.msg \in Posted /\ w.uuid = w.msg /\ w.age <= Flight
                  /\ age[w.msg] <= FollowUp + Stall + w.age

KeysRemembered ==
  /\ \A a \in accepted : a.uuid \in Posted /\ a.age <= age[a.uuid]
  /\ \A m \in Msg : /\ delivered[m] <= 1
                    /\ delivered[m] = 1 => \E a \in accepted : a.uuid = m

DeliveryInv ==
  ListsPosted /\ RecordsPosted /\ JobOnTime /\ RequestsOnTime /\ KeysRemembered

(***************************************************************************)
(* A record beyond MaxAttempts - 1 attempts is either closed or the one    *)
(* whose call the worker is about to make or awaits; a fault there lets it *)
(* through once.                                                           *)
(***************************************************************************)
InFlight(m) == pc \in {"guard", "call"} /\ cur.msg = m

AttemptsInv ==
  \A m \in Msg :
    /\ recs[m].attempts <= MaxAttempts + faults
    /\ recs[m].status \in Unfinished /\ ~InFlight(m) =>
         recs[m].attempts < MaxAttempts + faults
=============================================================================
