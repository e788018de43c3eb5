------------------------------ MODULE Plugins ------------------------------
(***************************************************************************)
(* The installation of one plugin from Git: staging a candidate, activating *)
(* it, configuring and rolling back the installation, and the background    *)
(* refresh of installations whose policy is automatic.  The registry rows   *)
(* are changed by one database transaction each; fetching, reading the      *)
(* installation, looking for an equal candidate, inserting one, reading it   *)
(* back, moving the files and the activating transaction are separate steps, *)
(* each can fail, and the updater's are interleaved with those of a user.   *)
(*                                                                         *)
(* The candidate and the version it becomes share a number (id and          *)
(* planned_version_id are made together); 0 is no version.  Receipts are    *)
(* left out: a replayed command answers the stored view and changes nothing, *)
(* and one that changed something would meet its own version check.          *)
(***************************************************************************)
EXTENDS Naturals, FiniteSets

CONSTANTS
  Sources,       \* Git URLs whose repositories hold this plugin
  Commits,
  Permissions,   \* commit -> permissions its manifest asks for
  Dependent,     \* the commits whose manifest names the other plugin
  MaxFetches     \* bound

VARIABLES
  candidates,    \* plugin_candidates rows, by number
  versions,      \* plugin_versions rows, the numbers installed
  plugin,        \* plugin_installations row, active = 0: not installed
  issued,        \* numbers given out
  workspaces,    \* numbers with files under staging/<id>/work
  placed,        \* numbers with files under versions/<plugin>/<id>
  torn,          \* history: rows whose staging reported an error all the same
  tasks          \* what the updater and the user's request are about

vars == <<candidates, versions, plugin, issued, workspaces, placed, torn, tasks>>

Policies == {"manual", "automatic"}   \* "notify" is treated as "manual" here
Callers == {"updater", "user"}
Ids == 1..MaxFetches
NoCandidate == [status |-> "none"]
Idle == [at |-> "idle"]

Init ==
  /\ candidates = [i \in Ids |-> NoCandidate] /\ versions = {}
  /\ plugin = [active |-> 0]
  /\ issued = 0 /\ workspaces = {} /\ placed = {} /\ torn = {}
  /\ tasks = [c \in Callers |-> Idle]
-----------------------------------------------------------------------------
Installed == plugin.active # 0
Grants(v) == IF v = 0 THEN {} ELSE Permissions[candidates[v].commit]
KnownCommits == {candidates[v].commit : v \in versions}

Becomes(c, task) == tasks' = [tasks EXCEPT ![c] = task]

(* The refresh lists the installations first; what it saw of this one is    *)
(* what it will expect to be active when it activates.  A user says what he *)
(* expects with the request that activates.                                 *)
ListAutomatic ==
  /\ tasks["updater"] = Idle
  /\ Installed /\ plugin.enabled /\ plugin.policy = "automatic"
  /\ Becomes("updater", [at |-> "checking", source |-> plugin.source, expected |-> plugin.active])
  /\ UNCHANGED <<candidates, versions, plugin, issued, workspaces, placed, torn>>

Inspect(source) ==
  /\ tasks["user"] = Idle
  /\ Becomes("user", [at |-> "checking", source |-> source, expected |-> 0])
  /\ UNCHANGED <<candidates, versions, plugin, issued, workspaces, placed, torn>>

(* checkout: the commit the source's ref names at this moment (external)     *)
(* into a fresh staging directory, or an error.                             *)
Fetch(c, commit) ==
  LET t == tasks[c] IN
  /\ t.at = "checking" /\ issued < MaxFetches
  /\ issued' = issued + 1
  /\ workspaces' = workspaces \cup {issued + 1}
  /\ Becomes(c, [at |-> "fetched", source |-> t.source, expected |-> t.expected,
                 id |-> issued + 1, commit |-> commit])
  /\ UNCHANGED <<candidates, versions, plugin, placed, torn>>

FetchFails(c) ==
  /\ tasks[c].at = "checking"
  /\ Becomes(c, Idle)
  /\ UNCHANGED <<candidates, versions, plugin, issued, workspaces, placed, torn>>

(* The fetched package against the installation: a commit among its          *)
(* versions, active or not, is up to date.                                  *)
AddedPermissions(commit) == Permissions[commit] \ Grants(plugin.active)

ReadInstallation(c) ==
  LET t == tasks[c] IN
  /\ t.at = "fetched"
  /\ IF t.commit \in KnownCommits
       THEN workspaces' = workspaces \ {t.id} /\ Becomes(c, Idle)
       ELSE /\ Becomes(c, [at |-> "staged", source |-> t.source, expected |-> t.expected,
                           id |-> t.id, commit |-> t.commit, base |-> plugin.active,
                           added |-> AddedPermissions(t.commit)])
            /\ UNCHANGED workspaces
  /\ UNCHANGED <<candidates, versions, plugin, issued, placed, torn>>

StagedAt(commit) == {i \in Ids : candidates[i].status = "staged" /\ candidates[i].commit = commit}
Newest(S) == {i \in S : \A j \in S : j <= i}

(* What becomes of a caller that has its candidate: a user is answered, the *)
(* updater goes on unless the candidate asks for more.                      *)
Answered(c, i, candidate) ==
  IF c = "user" \/ candidate.added # {} THEN Idle
  ELSE [at |-> "chosen", id |-> i, expected |-> tasks[c].expected, policy |-> "automatic"]

(* A candidate already staged at the commit is returned as it is and the    *)
(* new copy dropped.                                                        *)
DiscardedExisting(own, existing) == existing
Discarded(own, existing) == own

LookUpCandidate(c) ==
  LET t == tasks[c]  same == StagedAt(t.commit) IN
  /\ t.at = "staged"
  /\ IF same = {}
       THEN Becomes(c, [t EXCEPT !.at = "missing"]) /\ UNCHANGED workspaces
       ELSE \E i \in Newest(same) :
            /\ workspaces' = workspaces \ {Discarded(t.id, i)}
            /\ Becomes(c, Answered(c, i, candidates[i]))
  /\ UNCHANGED <<candidates, versions, plugin, issued, placed, torn>>

(* The row is inserted outside a transaction: it is there at once, for every *)
(* other caller too, while this one has yet to read it back.                *)
RegisterCandidate(c) ==
  LET t == tasks[c]
      row == [status |-> "staged", source |-> t.source, commit |-> t.commit,
              base |-> t.base, added |-> t.added] IN
  /\ t.at = "missing"
  /\ candidates' = [candidates EXCEPT ![t.id] = row]
  /\ Becomes(c, [at |-> "registered", id |-> t.id, expected |-> t.expected])
  /\ UNCHANGED <<versions, plugin, issued, workspaces, placed, torn>>

ReloadCandidate(c) ==
  LET t == tasks[c] IN
  /\ t.at = "registered"
  /\ Becomes(c, Answered(c, t.id, candidates[t.id]))
  /\ UNCHANGED <<candidates, versions, plugin, issued, workspaces, placed, torn>>

(* An error drops the caller's copy.  Reading the row back may be what fails, *)
(* and then the row stays without its copy (see CandidatesHaveFiles).       *)
Drop(c) ==
  /\ workspaces' = workspaces \ {tasks[c].id} /\ Becomes(c, Idle)
  /\ UNCHANGED <<candidates, versions, plugin, issued, placed>>

StagingFails(c) ==
  /\ tasks[c].at \in {"fetched", "staged", "missing"}
  /\ Drop(c) /\ UNCHANGED torn

ReloadFails(c) ==
  /\ tasks[c].at = "registered"
  /\ Drop(c) /\ torn' = torn \cup {tasks[c].id}
-----------------------------------------------------------------------------
(* A user activates a candidate with a policy, expecting the version the     *)
(* candidate names or the one active now.                                   *)
Request(i, expected, policy) ==
  /\ tasks["user"] = Idle /\ candidates[i].status # "none"
  /\ Becomes("user", [at |-> "chosen", id |-> i, expected |-> expected, policy |-> policy])
  /\ UNCHANGED <<candidates, versions, plugin, issued, workspaces, placed, torn>>

(* activate_files, before the registry decides: the staged tree is renamed  *)
(* to the version's directory unless an earlier attempt did so.             *)
ActivateFiles(c) ==
  LET t == tasks[c]
      found == t.id \in workspaces \cup placed IN
  /\ t.at = "chosen"
  /\ placed' = IF found THEN placed \cup {t.id} ELSE placed
  /\ workspaces' = workspaces \ {t.id}
  /\ Becomes(c, IF found THEN [t EXCEPT !.at = "placed"] ELSE Idle)
  /\ UNCHANGED <<candidates, versions, plugin, issued, torn>>

Expected(t) == plugin.active = t.expected /\ candidates[t.id].base = t.expected

(* Whether the plugin the manifest may depend on is installed and enabled is *)
(* outside this model.                                                      *)
Activatable(t, dependency) ==
  LET candidate == candidates[t.id] IN
  /\ Expected(t)
  /\ candidate.commit \in Dependent => dependency
  /\ Installed => plugin.source = candidate.source
  /\ candidate.commit \notin KnownCommits

(* The transaction: every check, or nothing is changed.  A first activation *)
(* enables the plugin, a later one leaves that alone; both set the policy.  *)
ActivateCandidate(c, dependency) ==
  LET t == tasks[c] IN
  /\ t.at = "placed" /\ Activatable(t, dependency)
  /\ plugin' = [active |-> t.id, policy |-> t.policy, source |-> candidates[t.id].source,
                enabled |-> IF Installed THEN plugin.enabled ELSE TRUE]
  /\ versions' = versions \cup {t.id}
  /\ candidates' = [candidates EXCEPT ![t.id].status = "activated"]
  /\ Becomes(c, Idle)
  /\ UNCHANGED <<issued, workspaces, placed, torn>>

RefuseActivation(c, dependency) ==
  /\ tasks[c].at = "placed" /\ ~Activatable(tasks[c], dependency)
  /\ Becomes(c, Idle)
  /\ UNCHANGED <<candidates, versions, plugin, issued, workspaces, placed, torn>>

(* An error of the activation leaves the files where they are.              *)
ActivationFails(c) ==
  /\ tasks[c].at \in {"chosen", "placed"}
  /\ Becomes(c, Idle)
  /\ UNCHANGED <<candidates, versions, plugin, issued, workspaces, placed, torn>>

Configure(enabled, policy) ==
  /\ Installed
  /\ plugin' = [plugin EXCEPT !.enabled = enabled, !.policy = policy]
  /\ UNCHANGED <<candidates, versions, issued, workspaces, placed, torn, tasks>>

(* With the active version as expected; any other expectation is refused.   *)
Rollback(v) ==
  /\ Installed /\ v \in versions
  /\ plugin' = [plugin EXCEPT !.active = v]
  /\ UNCHANGED <<candidates, versions, issued, workspaces, placed, torn, tasks>>

(* The process ends: requests are lost, rows and files stay.                *)
Crash ==
  /\ tasks' = [c \in Callers |-> Idle]
  /\ UNCHANGED <<candidates, versions, plugin, issued, workspaces, placed, torn>>

Requests ==
  \/ \E s \in Sources : Inspect(s)
  \/ \E i \in Ids, p \in Policies :
       \E e \in {plugin.active} \cup (IF candidates[i].status = "none" THEN {} ELSE {candidates[i].base}) :
         Request(i, e, p)
  \/ \E enabled \in BOOLEAN, p \in Policies : Configure(enabled, p)
  \/ \E v \in versions : Rollback(v)

Proceed(c) ==
  \/ \E commit \in Commits : Fetch(c, commit)
  \/ FetchFails(c) \/ ReadInstallation(c) \/ LookUpCandidate(c)
  \/ RegisterCandidate(c) \/ ReloadCandidate(c) \/ StagingFails(c) \/ ReloadFails(c)
  \/ ActivateFiles(c) \/ ActivationFails(c)
  \/ \E dependency \in BOOLEAN : ActivateCandidate(c, dependency) \/ RefuseActivation(c, dependency)

Next ==
  \/ ListAutomatic
  \/ Requests
  \/ \E c \in Callers : Proceed(c)
  \/ Crash

Spec == Init /\ [][Next]_vars
-----------------------------------------------------------------------------
(* The background refresh never gives a plugin a permission that the version *)
(* active at that moment does not have, whatever was staged, activated or   *)
(* rolled back since the candidate's permissions were compared              *)
(* (update.rs:26-46, activation.rs:42-49).                                  *)
UpdateAsksNothing ==
  tasks'["updater"] # tasks["updater"] /\ plugin'.active # plugin.active
    => Grants(plugin.active)' \subseteq Grants(plugin.active)
UpdatesAddNoPermission == [][UpdateAsksNothing]_vars

(* Every candidate a user can still activate and every installed version has *)
(* its files, so that the active entrypoint loads: no copy a row stands for *)
(* is dropped by a second staging of its commit, a refused activation, an   *)
(* error or a crash (staging.rs:40-126, manager.rs:39-72), but for the rows *)
(* whose staging failed in reading back what it had inserted.  Not even such *)
(* a row is installed without its files, whoever asks for it.               *)
PackagesAreWhole ==
  /\ \A i \in Ids : candidates[i].status # "none" => i \in workspaces \cup placed \cup torn
  /\ versions \subseteq placed
  /\ Installed => plugin.active \in versions

(* Without that exemption it does not hold: registry.rs:58-67 commits the    *)
(* row at once and staging.rs:122-125 drops its files when registry.rs:68    *)
(* fails.  Later stagings of the commit then find the row, drop their own   *)
(* copy and answer with it, and every activation of it fails.               *)
CandidatesHaveFiles ==
  \A i \in Ids : candidates[i].status = "staged" => i \in workspaces \cup placed
=============================================================================
