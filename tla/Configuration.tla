----------------------------- MODULE Configuration -----------------------------
(***************************************************************************)
(* The GitHub credentials on their way from the configuration file, the    *)
(* environment and the vault to the pool of clients: config.Load and       *)
(* Migrate (config/config.go), the fallback of Bootstrap to the vault      *)
(* (bootstrap.go) and Connect of the GitHub service (services/github.go).  *)
(***************************************************************************)
EXTENDS Integers, SequencesExt

CONSTANTS
    Files,        \* what config.yaml may set: records over Settings
    Environments, \* what SCUFFINGER_ variables may set; empty ones count as not set
    Stored,       \* what the vault may hold
    KeyFiles,     \* private_key_path of which a key can be read and parsed
    NoText,       \* the empty string
    Unset,
    Unparsable

VARIABLES
    stage,    \* "off", "load", "migrate", "vault", "tokens", "apps", then "ready" with
              \* a pool, "plain" without the GitHub service, or "refused"
    file, env, stored,
    github,   \* cfg.GitHub
    index,        \* index of the loops of Connect
    entries   \* s.entries

configVars == <<stage, file, env, stored, github, index, entries>>

Defaults == [token |-> NoText, tokens |-> <<>>,
             app_id |-> 0, installation_id |-> 0, private_key_path |-> NoText,
             applications |-> <<>>, collector_interval |-> 5]

Settings == DOMAIN Defaults

Apps == [app_id : Int, installation_id : Int, private_key_path : STRING]

(* What a source sets has the type of the setting; a file may also set a list *)
(* of applications, a variable only try to. *)
ASSUME SourcesAssumption ==
    /\ \A s \in Files \cup Environments :
          /\ DOMAIN s = Settings
          /\ s.token = Unset \/ s.token \in STRING
          /\ s.tokens = Unset \/ s.tokens \in Seq(STRING)
          /\ s.app_id = Unset \/ s.app_id \in Int
          /\ s.installation_id = Unset \/ s.installation_id \in Int
          /\ s.private_key_path = Unset \/ s.private_key_path \in STRING
          /\ s.collector_interval \in {Unset, Unparsable} \/ s.collector_interval \in Int
    /\ \A s \in Files : s.applications = Unset \/ s.applications \in Seq(Apps)
    /\ Stored \subseteq STRING
    /\ NoText \in STRING \ KeyFiles

NothingSet == [k \in Settings |-> Unset]

ConfigInit ==
    /\ stage = "off"
    /\ file = NothingSet /\ env = NothingSet /\ stored = NoText
    /\ github = Defaults /\ index = 1 /\ entries = <<>>

(* A process is started with some configuration. *)
Configure ==
    /\ stage = "off"
    /\ stage' = "load"
    /\ file' \in Files /\ env' \in Environments /\ stored' \in Stored
    /\ UNCHANGED <<github, index, entries>>

-----------------------------------------------------------------------------

(* A variable overrides the file, which overrides the default. *)
Setting(k) ==
    IF env[k] # Unset THEN env[k]
    ELSE IF file[k] # Unset THEN file[k] ELSE Defaults[k]

(* A list of applications does not fit into a variable: Unmarshal fails. *)
Load ==
    /\ stage = "load"
    /\ IF env.applications # Unset
       THEN stage' = "refused" /\ UNCHANGED github
       ELSE stage' = "migrate" /\ github' = [k \in Settings |-> Setting(k)]
    /\ UNCHANGED <<file, env, stored, index, entries>>

LegacyApp(g) == [app_id |-> g.app_id, installation_id |-> g.installation_id,
                 private_key_path |-> g.private_key_path]

MigratedTokensIfNone(g) ==    \* mutant: the old token counts only without a list
    IF g.token = NoText \/ g.tokens # <<>> THEN g.tokens ELSE <<g.token>>
MigratedTokens(g) ==
    IF g.token = NoText \/ g.token \in ToSet(g.tokens) THEN g.tokens
    ELSE <<g.token>> \o g.tokens

(* Applications are compared by their id alone. *)
MigratedApps(g) ==
    IF g.app_id = 0 \/ \E a \in ToSet(g.applications) : a.app_id = g.app_id THEN g.applications
    ELSE <<LegacyApp(g)>> \o g.applications

(* CollectorDuration, 5 minutes being the fallback *)
CollectorDuration(raw) == IF raw = Unparsable THEN 5 ELSE IF raw <= 0 THEN 5 ELSE raw

Migrate ==
    /\ stage = "migrate"
    /\ stage' = "vault"
    /\ github' = [github EXCEPT
            !.token = NoText, !.tokens = MigratedTokens(github),
            !.applications = MigratedApps(github),
            !.app_id = 0,
            !.installation_id = IF github.app_id = 0 THEN @ ELSE 0,
            !.private_key_path = IF github.app_id = 0 THEN @ ELSE NoText]
    /\ UNCHANGED <<file, env, stored, index, entries>>

Enabled(g) == Len(g.tokens) > 0 \/ Len(g.applications) > 0

(* Bootstrap takes the token of the vault when no token is listed. *)
Fallback ==
    /\ stage = "vault"
    /\ github' = IF github.tokens = <<>> /\ stored # NoText
                 THEN [github EXCEPT !.tokens = <<stored>>] ELSE github
    /\ stage' = IF Enabled(github') THEN "tokens" ELSE "plain"
    /\ UNCHANGED <<file, env, stored, index, entries>>

-----------------------------------------------------------------------------
(* GitHubService.Connect *)

AddToken ==
    /\ stage = "tokens" /\ index <= Len(github.tokens)
    /\ entries' = IF github.tokens[index] = NoText THEN entries
                  ELSE Append(entries, [token |-> github.tokens[index]])
    /\ index' = index + 1
    /\ UNCHANGED <<stage, file, env, stored, github>>

TokensDone ==
    /\ stage = "tokens" /\ index > Len(github.tokens)
    /\ stage' = "apps" /\ index' = 1
    /\ UNCHANGED <<file, env, stored, github, entries>>

(* The key is read and parsed; the process ends if that fails. *)
AddApp ==
    /\ stage = "apps" /\ index <= Len(github.applications)
    /\ LET app == github.applications[index]
           known == app.app_id # 0
           usable == app.private_key_path \in KeyFiles
       IN  /\ entries' = IF known /\ usable THEN Append(entries, app) ELSE entries
           /\ stage' = IF known /\ ~usable THEN "refused" ELSE stage
    /\ index' = index + 1
    /\ UNCHANGED <<file, env, stored, github>>

AppsDone ==
    /\ stage = "apps" /\ index > Len(github.applications)
    /\ stage' = IF entries = <<>> THEN "refused" ELSE "ready"
    /\ UNCHANGED <<file, env, stored, github, index, entries>>

(* The process ends, and what it knows is gone. *)
End ==
    /\ stage \in {"ready", "plain", "refused"}
    /\ stage' = "off"
    /\ file' = NothingSet /\ env' = NothingSet /\ stored' = NoText
    /\ github' = Defaults /\ index' = 1 /\ entries' = <<>>

ConfigNext ==
    \/ Configure \/ Load \/ Migrate \/ Fallback
    \/ AddToken \/ TokensDone \/ AddApp \/ AppsDone
    \/ End

ConfigSpec == ConfigInit /\ [][ConfigNext]_configVars

-----------------------------------------------------------------------------

Configured == [k \in Settings |-> Setting(k)]

(* Places of the configured credentials, and of the two kinds of entries. *)
ListedTokens == {i \in DOMAIN Configured.tokens : Configured.tokens[i] # NoText}
ListedApps == {i \in DOMAIN Configured.applications : Configured.applications[i].app_id # 0}
Pats == {i \in DOMAIN entries : "token" \in DOMAIN entries[i]}
Installed == DOMAIN entries \ Pats

(* The tokens of the old and the new settings, or else that of the vault; an old *)
(* one comes first unless it is listed as well. *)
TokensAsConfigured ==
    LET old == Configured.token
        new == {Configured.tokens[i] : i \in ListedTokens}
        held == {entries[i].token : i \in Pats}
    IN  IF old = NoText /\ Configured.tokens = <<>>
        THEN held = {stored} \ {NoText} /\ Cardinality(Pats) = Cardinality(held)
        ELSE /\ held = (new \cup {old}) \ {NoText}
             /\ Cardinality(Pats) =
                   Cardinality(ListedTokens) + IF old \in new \cup {NoText} THEN 0 ELSE 1
             /\ old \notin new \cup {NoText} => entries[1] = [token |-> old]

(* The applications of the old and the new settings; of two with the same id the *)
(* listed one. *)
AppsAsConfigured ==
    LET old == LegacyApp(Configured)
        new == {Configured.applications[i] : i \in ListedApps}
        ids == {a.app_id : a \in new}
    IN  /\ {entries[i] : i \in Installed} =
              new \cup IF old.app_id \in ids \cup {0} THEN {} ELSE {old}
        /\ Cardinality(Installed) =
              Cardinality(ListedApps) + IF old.app_id \in ids \cup {0} THEN 0 ELSE 1

(* config.go:82: no credential is lost, added more often than it is listed, or *)
(* mixed with another on its way from the old and the new settings to the pool. *)
(* An old one comes first unless it is listed as well; of two applications with *)
(* the same id the listed one counts; the vault is used only when no token is *)
(* configured at all. And the ticker of the collector is given a positive *)
(* interval, or it would panic. *)
PoolHoldsWhatWasConfigured ==
    stage = "ready" =>
        /\ \A i \in Pats, j \in Installed : i < j
        /\ TokensAsConfigured
        /\ AppsAsConfigured
        /\ CollectorDuration(github.collector_interval) > 0
=============================================================================
