--------------------------- MODULE ProviderSettings ---------------------------
(***************************************************************************)
(* The connection to the model: its settings and saved profiles            *)
(* (settings.py), the login that yields a key (provider_login.py), the     *)
(* route chosen for a job (model_routing.py), and what a request makes of  *)
(* them (providers.ModelGateway.generate).  The user changes settings      *)
(* between tasks, profiles and logins at any time, also while a request is *)
(* out; a restart may come up where older keys cannot be decrypted.        *)
(*                                                                         *)
(* A key is its number, in the order in which keys came in: entered[k]     *)
(* says for which origin, and in which protection context.                 *)
(***************************************************************************)
EXTENDS Naturals, Sequences, FiniteSets

CONSTANTS
  Origins,       \* remote endpoints, as numbers; Local is the local server
  Local,
  Portal,        \* the one of them whose login yields a key
  Models, ReviewModels,  \* numbers of models
  MaxKeys, MaxProfiles, MaxChanges, MaxRestarts

VARIABLES
  doc,        \* provider-settings.json
  entered,    \* the keys that came in
  context,    \* the protection context the process runs in
  task,       \* whether a task is running or stopping
  login,      \* whether one is begun
  choice,     \* the configuration and model a job was given, and how far
  call,       \* the request that is out
  kept,       \* the key that the last accepted answer contains
  changes, restarts

vars == <<doc, entered, context, task, login, choice, call, kept, changes, restarts>>

None == 0        \* no URL, model, key or profile
Urls == Origins \cup {Local, None}
Profiles == 1 .. MaxProfiles
Roles == {"worker", "reviewer"}

\* _configuration: the fields that decide where a request goes
Conf(d) == [url |-> d.url, model |-> d.model, review |-> d.review]
NoConf == [url |-> None, model |-> None, review |-> None]

NoProfile == [name |-> FALSE, conf |-> NoConf, key |-> None]
NoChoice == [st |-> "none", conf |-> NoConf, role |-> "worker", model |-> None]
NoCall == [url |-> None, key |-> None, model |-> None, role |-> "worker", scrub |-> {},
           pinned |-> NoChoice]

Init ==
  /\ doc = [url |-> None, model |-> None, review |-> None, key |-> None, history |-> {},
            profiles |-> [p \in Profiles |-> NoProfile], active |-> None]
  /\ entered = <<>> /\ context = 1 /\ task = "idle" /\ login = FALSE
  /\ choice = NoChoice /\ call = NoCall /\ kept = None /\ changes = 0 /\ restarts = 0

-------------------------------------------------------------------------------
(* redaction_secrets: every retained key, and those not to be decrypted    *)
Known == (doc.history \cup {doc.key}) \ {None}
Unavailable == {k \in Known : entered[k].context # context}
Readable == Known \ Unavailable

Change == changes < MaxChanges /\ changes' = changes + 1

\* A key comes in for an origin; with "keep" and "clear" none does.
Enters(how, url) ==
  IF how = "new" THEN /\ Len(entered) < MaxKeys
                      /\ entered' = Append(entered, [for |-> url, context |-> context])
  ELSE entered' = entered

\* What happens to the key of the settings when their URL becomes url: it never
\* follows a switch to a local server, nor one from an origin to another.
KeyOf(how, url) ==
  IF how = "keep" /\ url = Local /\ doc.url # Local THEN "clear" ELSE how
Refused(how, url) == how = "keep" /\ url # doc.url /\ doc.url # None /\ url # Local

\* SettingsManager.update, by the route that admits it only when no task runs
Update(url, model, review, how) ==
  /\ task = "idle" /\ Change /\ ~Refused(how, url)
  /\ LET h == KeyOf(how, url)
         key == CASE h = "keep" -> doc.key [] h = "clear" -> None [] h = "new" -> Len(entered) + 1
         new == [doc EXCEPT !.url = url, !.model = model, !.review = review, !.key = key,
                            !.history = IF h = "keep" THEN @ ELSE @ \cup ({doc.key} \ {None})]
         p == doc.profiles[doc.active]
     IN /\ Enters(h, url)
        /\ doc' = [new EXCEPT !.active =
                     IF doc.active # None /\ (p.conf # Conf(new) \/ p.key # new.key)
                     THEN None ELSE @]
  /\ UNCHANGED <<context, task, login, choice, call, kept, restarts>>

\* save_profile of the current settings
SaveProfile(p) ==
  /\ ~doc.profiles[p].name
  /\ doc' = [doc EXCEPT !.profiles[p] = [name |-> TRUE, conf |-> Conf(doc), key |-> doc.key],
                        !.active = p]
  /\ UNCHANGED <<entered, context, task, login, choice, call, kept, changes, restarts>>

\* activate_profile, by the route that admits it only when no task runs
ActivateProfile(p) ==
  /\ task = "idle" /\ doc.profiles[p].name
  /\ doc' = [doc EXCEPT !.url = doc.profiles[p].conf.url, !.model = doc.profiles[p].conf.model,
                        !.review = doc.profiles[p].conf.review, !.key = doc.profiles[p].key,
                        !.history = @ \cup ({doc.key} \ {None}), !.active = p]
  /\ UNCHANGED <<entered, context, task, login, choice, call, kept, changes, restarts>>

\* Fault: the key of the profile is not retained.
DeleteProfileAndKey(p) ==
  /\ doc.profiles[p].name
  /\ doc' = [doc EXCEPT !.profiles[p] = NoProfile, !.active = IF @ = p THEN None ELSE @,
                        !.history = @ \ {doc.profiles[p].key}]
  /\ UNCHANGED <<entered, context, task, login, choice, call, kept, changes, restarts>>

\* delete_profile
DeleteProfile(p) ==
  /\ doc.profiles[p].name
  /\ doc' = [doc EXCEPT !.profiles[p] = NoProfile, !.active = IF @ = p THEN None ELSE @,
                        !.history = @ \cup ({doc.profiles[p].key} \ {None})]
  /\ UNCHANGED <<entered, context, task, login, choice, call, kept, changes, restarts>>

\* ProviderLogin.begin, and the key that arrives for finish.  A login is taken up
\* once; one that is late or fails saves nothing.
BeginLogin ==
  /\ ~login /\ Change /\ login' = TRUE
  /\ UNCHANGED <<doc, entered, context, task, choice, call, kept, restarts>>

FailLogin ==
  /\ login /\ login' = FALSE
  /\ UNCHANGED <<doc, entered, context, task, choice, call, kept, changes, restarts>>

FinishLogin(p) ==
  /\ login /\ login' = FALSE /\ ~doc.profiles[p].name
  /\ Enters("new", Portal)
  /\ doc' = [doc EXCEPT !.history = @ \cup {Len(entered) + 1},
                        !.profiles[p] = [name |-> TRUE, key |-> Len(entered) + 1,
                                         conf |-> [NoConf EXCEPT !.url = Portal]]]
  /\ UNCHANGED <<context, task, choice, call, kept, changes, restarts>>

-------------------------------------------------------------------------------
StartTask ==
  /\ task = "idle" /\ task' = "active"
  /\ UNCHANGED <<doc, entered, context, login, choice, call, kept, changes, restarts>>

\* A task ends, stops or waits; a request that is out is cancelled with it.
EndTask ==
  /\ task = "active" /\ task' = "idle" /\ call' = NoCall
  /\ UNCHANGED <<doc, entered, context, login, choice, kept, changes, restarts>>

\* catalog: a review model of its own serves reviewers only
ModelFor(conf, role) ==
  IF role = "reviewer" /\ conf.review # None THEN conf.review ELSE conf.model

\* A parent selects a model for a role from the catalog, under its hash.
Choose(role) ==
  /\ task = "active" /\ call = NoCall /\ choice = NoChoice
  /\ doc.url # None /\ doc.model # None
  /\ choice' = [st |-> "chosen", conf |-> Conf(doc), role |-> role,
                model |-> ModelFor(Conf(doc), role)]
  /\ UNCHANGED <<doc, entered, context, task, login, call, kept, changes, restarts>>

\* bind_selection: StaleModelLease when the configuration is another by now
Bind ==
  /\ task = "active" /\ choice.st = "chosen"
  /\ choice' = IF Conf(doc) = choice.conf THEN [choice EXCEPT !.st = "lease"] ELSE NoChoice
  /\ UNCHANGED <<doc, entered, context, task, login, call, kept, changes, restarts>>

\* Fault: a lease is taken whatever the settings are.
PinnedAny == choice.st = "lease"

\* resolve_lease: the configuration must be the one of the lease
Pinned == choice.st = "lease" /\ choice.conf = Conf(doc)

\* generate, up to its request: route and key are read under one lock, and
\* nothing leaves while a key is known that cannot be redacted.
Send(role, leased) ==
  /\ task = "active" /\ call = NoCall
  /\ doc.url # None /\ doc.model # None /\ (doc.key # None \/ doc.url = Local)
  /\ Unavailable = {}
  /\ leased => Pinned /\ role = choice.role
  /\ call' = [url |-> doc.url, key |-> doc.key, role |-> role, scrub |-> Readable,
              model |-> IF leased THEN choice.model ELSE ModelFor(Conf(doc), role),
              pinned |-> IF leased THEN choice ELSE NoChoice]
  /\ UNCHANGED <<doc, entered, context, task, login, choice, kept, changes, restarts>>

\* A response that repeats a key, or none: what is known now is added to what was
\* known when it was sent, and nothing with a key in it is accepted.
Receive(key) ==
  /\ call # NoCall /\ call' = NoCall
  /\ kept' = IF key \in call.scrub \cup Readable \/ Unavailable # {} THEN None ELSE key
  /\ UNCHANGED <<doc, entered, context, task, login, choice, changes, restarts>>

\* The process ends and comes up again, perhaps under another user context.
Restart(c) ==
  /\ restarts < MaxRestarts /\ restarts' = restarts + 1
  /\ context' = c /\ task' = "idle" /\ login' = FALSE /\ call' = NoCall
  /\ UNCHANGED <<doc, entered, choice, kept, changes>>

Next ==
  \/ \E url \in Urls, model \in Models, review \in ReviewModels \cup {None},
        how \in {"keep", "clear", "new"} : Update(url, model, review, how)
  \/ \E p \in Profiles : \/ SaveProfile(p) \/ ActivateProfile(p) \/ DeleteProfile(p)
                         \/ FinishLogin(p)
  \/ BeginLogin \/ FailLogin
  \/ StartTask \/ EndTask \/ Bind
  \/ \E role \in Roles : Choose(role) \/ Send(role, TRUE) \/ Send(role, FALSE)
  \/ \E key \in DOMAIN entered \cup {None} : Receive(key)
  \/ \E c \in 1 .. 2 : Restart(c)

Spec == Init /\ [][Next]_vars

-------------------------------------------------------------------------------
TypeOK ==
  /\ doc.url \in Urls /\ doc.key \in 0 .. Len(entered) /\ doc.history \subseteq DOMAIN entered
  /\ doc.active # None => doc.profiles[doc.active].name
  /\ task \in {"idle", "active"} /\ login \in BOOLEAN
  /\ choice.st \in {"none", "chosen", "lease"} /\ kept \in 0 .. Len(entered)

\* However profiles, keys and contexts change: no key is forgotten that might
\* still come back in an answer, and none does; the key a request carries was
\* entered for where the request goes; and a leased request goes to the model
\* that was selected, for its role, from the configuration still in force.
SettingsSound ==
  /\ TypeOK
  /\ Known = DOMAIN entered
  /\ kept = None
  /\ call.key # None => entered[call.key].for \in {call.url, None}
  /\ LET c == call.pinned
     IN c # NoChoice => /\ call.model = ModelFor(c.conf, c.role) /\ call.role = c.role
                        /\ Conf(doc) = c.conf /\ call.url = c.conf.url
===============================================================================
