------------------------ MODULE AgentConfiguration -------------------------
(***************************************************************************)
(* Saving the settings through the daemon (src/daemon/index.ts): the       *)
(* agent's configuration together with its key in the keychain, and the    *)
(* rest of the settings, here whether replies are really sent.  The saves  *)
(* of all requests go through one queue (configurationMutations).          *)
(*                                                                         *)
(* A save changes the keychain and the settings one after the other and    *)
(* undoes both when a step fails; every step may fail, before or after its *)
(* effect, and the daemon may stop between two steps.  A scope is a        *)
(* runtime with an endpoint.  Models, providers and protocols are left out.*)
(***************************************************************************)
EXTENDS Naturals, FiniteSets

CONSTANTS
  Scope,    \* runtime and endpoint, what a key is kept for
  Key,      \* keys a user may enter
  NoKey,
  Mutation  \* save requests that may be under way together

ASSUME AgentConfigurationAssumption ==
  NoKey \notin Key \cup {"clear", "app"} /\ {"clear", "app"} \cap Key = {}

VARIABLES
  settings,   \* the stored settings
  keychain,   \* the key kept for each scope
  saves,      \* save requests being served
  \* remembered for the properties only
  promised,   \* agent configuration and keys as the last saves answered as done
              \* left them, and the permissions to send there may be: the last one
              \* answered, and what saves that failed since wanted; nothing once a
              \* save was cut short or could not be undone
  stuck,      \* the key was put back, the settings were not
  entered     \* scopes whose key was entered since they were configured

agentVars == <<settings, keychain, saves, promised, stuck, entered>>

Settings == [live : BOOLEAN, on : BOOLEAN, by : {"default", "open", "key"}, scope : Scope]
Keys == [Scope -> Key \cup {NoKey}]
Saves == [stage : {"change", "restore", "store", "decorate", "undo key", "undo settings"},
          before : Settings, after : Settings, key : Key \cup {NoKey, "clear", "app"},
          previous : Key \cup {NoKey}, changed : BOOLEAN]

AgentPart(s) == [on |-> s.on, by |-> s.by, scope |-> s.scope]

Promises ==
  [agent : [on : BOOLEAN, by : {"default", "open", "key"}, scope : Scope],
   live : SUBSET BOOLEAN, keys : Keys]

Promise == [agent |-> AgentPart(settings), live |-> {settings.live}, keys |-> keychain]

NotSaving == [stage |-> "none"]
NoPromise == [kept |-> FALSE]

AgentTypeOK ==
  /\ settings \in Settings /\ keychain \in Keys
  /\ saves \in [Mutation -> Saves \cup {NotSaving}]
  /\ promised \in Promises \cup {NoPromise}
  /\ stuck \in BOOLEAN /\ entered \subseteq Scope

AgentInit ==
  /\ settings \in {s \in Settings : ~s.on /\ s.by = "default" /\ ~s.live}
  /\ keychain = [s \in Scope |-> NoKey]
  /\ saves = [m \in Mutation |-> NotSaving]
  /\ promised = Promise
  /\ stuck = FALSE /\ entered = {}

\* An agent save carries the rest of the settings over as it read them.
WithAgent(s, on, by, scope) == [s EXCEPT !.on = on, !.by = by, !.scope = scope]

\* assertAgentConfigurationInput: only a configuration with a key takes one or
\* has it cleared.
AgentInput ==
  {i \in [on : BOOLEAN, by : {"default", "open", "key"}, scope : Scope,
          key : Key \cup {NoKey, "clear"}] : i.by # "key" => i.key = NoKey}

\* It is enough that the endpoint was configured, however it authenticated.
SameScopeOnly(now, i) == now.scope = i.scope /\ i.by = "key"

\* sameCredentialScope
SameCredentialScope(now, i) ==
  now.by = "key" /\ i.by = "key" /\ now.scope = i.scope

\* The key of another scope is not taken up again: it must be entered anew.
Refused(now, i) == i.on /\ i.by = "key" /\ i.key \notin Key /\ ~SameCredentialScope(now, i)

\* OrderedAsyncDispatcher: the next save is served when the last one is over.
MayServe == \A m \in Mutation : saves[m] = NotSaving

AgentSaveBegins(m, i) ==
  /\ saves[m] = NotSaving /\ MayServe /\ ~Refused(settings, i)
  /\ saves' = [saves EXCEPT ![m] =
       [stage |-> "change", before |-> settings,
        after |-> WithAgent(settings, i.on, i.by, i.scope),
        key |-> i.key,
        previous |-> IF i.by = "default" THEN NoKey ELSE keychain[i.scope],
        changed |-> FALSE]]
  /\ UNCHANGED <<settings, keychain, promised, stuck, entered>>

\* The key kept so far is not wanted any more.
DeletesKey(v) ==
  \/ v.key = "clear"
  \/ v.after.by = "open" /\ v.previous # NoKey
  \/ v.after.by = "key" /\ v.key = NoKey /\ v.previous # NoKey
     /\ ~SameCredentialScope(v.before, v.after)

Continue(m, stage) == saves' = [saves EXCEPT ![m].stage = stage]
SaveOver(m) == saves' = [saves EXCEPT ![m] = NotSaving]

NewKey(v) == IF DeletesKey(v) THEN NoKey ELSE IF v.key \in Key THEN v.key
             ELSE keychain[v.after.scope]

Stored(scope, key) == keychain' = [keychain EXCEPT ![scope] = key]

KeyEntered(v) == entered' = IF v.key \in Key THEN entered \cup {v.after.scope} ELSE entered

KeyChanges(m) ==
  LET v == saves[m]
  IN /\ v.stage = "change"
     /\ Stored(v.after.scope, NewKey(v))
     /\ saves' = [saves EXCEPT ![m].stage = "store",
                               ![m].changed = DeletesKey(v) \/ v.key \in Key]
     /\ KeyEntered(v)
     /\ UNCHANGED <<settings, promised, stuck>>

\* The keychain refuses, or does not answer in time after it may have obeyed.
KeyChangeFails(m) ==
  LET v == saves[m]
  IN /\ v.stage = "change" /\ (DeletesKey(v) \/ v.key \in Key)
     /\ \E key \in {keychain[v.after.scope], NewKey(v)} : Stored(v.after.scope, key)
     /\ Continue(m, "restore") /\ KeyEntered(v)
     /\ UNCHANGED <<settings, promised, stuck>>

\* The scopes whose key was entered for the configuration there is.
StillEntered(E) == E \cap {s \in Scope : settings'.by = "key" /\ s = settings'.scope}

\* restoreCredential, whose errors are ignored.
KeyRestored(m) ==
  LET v == saves[m]
  IN \/ Stored(v.after.scope, v.previous) /\ UNCHANGED promised
     \/ UNCHANGED keychain /\ promised' = NoPromise

KeyRestoredAfterFailure(m) ==
  /\ saves[m].stage = "restore" /\ KeyRestored(m) /\ SaveOver(m)
  /\ UNCHANGED settings /\ entered' = StillEntered(entered)
  /\ UNCHANGED stuck

\* A configuration in use needs a key in the keychain.
LacksKey(v) == v.after.on /\ v.after.by = "key" /\ keychain[v.after.scope] = NoKey

\* saveConfig
SettingsStored(m) ==
  LET v == saves[m]
  IN /\ v.stage = "store" /\ v.key # "app" /\ ~LacksKey(v)
     /\ settings' = v.after /\ Continue(m, "decorate")
     /\ UNCHANGED <<keychain, promised, stuck, entered>>

\* The keychain cannot be read, holds no key, or saveConfig fails, after it may
\* have written.
SettingsNotStored(m) ==
  LET v == saves[m]
  IN /\ v.stage = "store" /\ v.key # "app"
     /\ settings' \in {settings} \cup (IF LacksKey(v) THEN {} ELSE {v.after})
     /\ Continue(m, "undo key")
     /\ UNCHANGED <<keychain, promised, stuck, entered>>

AgentSaveAnswered(m) ==
  /\ saves[m].stage = "decorate" /\ SaveOver(m)
  /\ UNCHANGED <<settings, keychain, stuck>>
  /\ promised' = LET v == saves[m].after
                 IN IF promised = NoPromise
                    THEN Promise
                    ELSE [promised EXCEPT !.agent = AgentPart(v),
                                          !.keys = [@ EXCEPT ![v.scope] = keychain[v.scope]]]
  /\ entered' = StillEntered(entered)

\* The state that answers the save cannot be put together.
DecorateFails(m) ==
  /\ saves[m].stage = "decorate" /\ Continue(m, "undo key")
  /\ UNCHANGED <<settings, keychain, promised, stuck, entered>>

\* Nothing that was done to the keychain is undone.
KeyLeft(m) == UNCHANGED <<keychain, promised>>

KeyUndone(m) == IF saves[m].changed THEN KeyRestored(m) ELSE UNCHANGED <<keychain, promised>>

UndoKey(m) ==
  /\ saves[m].stage = "undo key" /\ KeyUndone(m)
  /\ Continue(m, "undo settings")
  /\ UNCHANGED <<settings, stuck, entered>>

\* saveConfig with the settings from before, whose errors are ignored.
UndoSettings(m) ==
  /\ saves[m].stage = "undo settings" /\ SaveOver(m)
  /\ \/ settings' = saves[m].before /\ UNCHANGED <<promised, stuck>>
     \/ /\ UNCHANGED settings
        /\ promised' = IF settings = saves[m].before THEN promised ELSE NoPromise
        /\ stuck' = (stuck \/ settings # saves[m].before)
  /\ entered' = StillEntered(entered)
  /\ UNCHANGED keychain

-----------------------------------------------------------------------------
(* saveApplicationConfiguration: the agent's part stays as it is.          *)

ApplicationSaveBegins(m, live, approved) ==
  /\ saves[m] = NotSaving /\ MayServe
  /\ live /\ ~settings.live => approved
  /\ saves' = [saves EXCEPT ![m] =
       [stage |-> "store", before |-> settings, after |-> [settings EXCEPT !.live = live],
        key |-> "app", previous |-> NoKey, changed |-> FALSE]]
  /\ UNCHANGED <<settings, keychain, promised, stuck, entered>>

ApplicationSaveAnswered(m) ==
  /\ saves[m].stage = "store" /\ saves[m].key = "app"
  /\ settings' = saves[m].after
  /\ promised' = IF promised = NoPromise THEN promised
                 ELSE [promised EXCEPT !.live = {saves[m].after.live}]
  /\ SaveOver(m) /\ entered' = StillEntered(entered)
  /\ UNCHANGED <<keychain, stuck>>

\* saveConfig fails, or the state that answers the save cannot be put together:
\* what was written by then stays, nothing is undone.
ApplicationSaveFails(m) ==
  /\ saves[m].stage = "store" /\ saves[m].key = "app"
  /\ settings' \in {settings, saves[m].after}
  /\ promised' = IF promised = NoPromise THEN promised
                 ELSE [promised EXCEPT !.live = @ \cup {saves[m].after.live}]
  /\ SaveOver(m) /\ entered' = StillEntered(entered)
  /\ UNCHANGED <<keychain, stuck>>

-----------------------------------------------------------------------------
\* The daemon stops in the middle of its saves, and starts again.
SavesLost ==
  /\ ~MayServe /\ saves' = [m \in Mutation |-> NotSaving]
  /\ UNCHANGED settings
  /\ promised' = NoPromise /\ entered' = StillEntered(entered)
  /\ stuck' = (stuck \/ \E m \in Mutation :
                          saves[m].stage = "undo settings" /\ saves[m].before # settings)
  /\ UNCHANGED keychain

AgentNext ==
  \/ SavesLost
  \/ \E m \in Mutation :
       \/ \E i \in AgentInput : AgentSaveBegins(m, i)
       \/ KeyChanges(m) \/ KeyChangeFails(m) \/ KeyRestoredAfterFailure(m)
       \/ SettingsStored(m) \/ SettingsNotStored(m) \/ AgentSaveAnswered(m)
       \/ DecorateFails(m) \/ UndoKey(m) \/ UndoSettings(m)
       \/ \E live, approved \in BOOLEAN : ApplicationSaveBegins(m, live, approved)
       \/ ApplicationSaveAnswered(m) \/ ApplicationSaveFails(m)

AgentSpec == AgentInit /\ [][AgentNext]_agentVars

-----------------------------------------------------------------------------
(* Properties.                                                             *)

\* A key that was entered for a configuration is not used again when that
\* configuration comes back after another one: whenever no save is under way, a
\* key in use was entered since the configuration with its scope was chosen.
\* Stops of the daemon are no exception, but for one: between the two steps that
\* undo a save, the key before the settings; nor does it hold when the second of
\* them fails.
StaleKeyNeverUsed ==
  MayServe /\ ~stuck /\ settings.on /\ settings.by = "key"
    /\ keychain[settings.scope] # NoKey
    => settings.scope \in entered

\* The settings are those that were answered, but for the permission to send,
\* which a failed save of the application's settings may have left as it wanted.
AsAnswered(s) == AgentPart(s) = promised.agent /\ s.live \in promised.live

\* Whenever no save is under way, the agent's configuration and the keys are as
\* the saves answered as done left them: a save of either kind that was answered
\* as failed has changed nothing of them.  The permission to send is as it was
\* last answered, or as an application save since then, answered as failed,
\* wanted it: such a save is not undone.  Nothing is said after an agent save
\* that could not be undone, or was cut short by a stop, until another is
\* answered as done.
AnsweredSavesStand ==
  MayServe /\ promised # NoPromise => AsAnswered(settings) /\ keychain = promised.keys
=============================================================================
