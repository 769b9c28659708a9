--------------------------- MODULE InventorySync ---------------------------
(***************************************************************************)
(* The inventory of one Docker Agent and its copy in PostgreSQL: the Agent *)
(* inspects the containers one by one, keeps the last snapshots it took in *)
(* memory and serves them page by page; synchronize_agent_inventory reads  *)
(* all the pages of a snapshot and replaces the rows of targets,           *)
(* compose_members and docker_inventory_issues in one transaction.         *)
(*                                                                         *)
(* Around them Docker changes, other clients take snapshots, the Agent     *)
(* restarts with another protected target, calls fail, and two             *)
(* synchronisations of the connection overlap. The Agent is the code of    *)
(* this repository: what a page that no Agent sends is refused for is left *)
(* out. So are the names and dates of a row. Which policy an unprotected   *)
(* resource has is PolicyStore's subject: here any of StoredPolicies.      *)
(***************************************************************************)
EXTENDS Naturals, Sequences, FiniteSets, SequencesExt, ComposeState

CONSTANTS
  Containers,      \* Docker ids, in the order of the listing
  Projects,        \* Compose projects
  Standalone,      \* the classification of a container without labels
  Ambiguous,       \* that of a container with unusable labels
  KindOf,          \* project or classification of a container
  Seen,            \* bound: observations a container may show
  Initially,       \* bound: what a container may be at the beginning
  Unborn, Gone,    \* a container not yet created, or removed
  NoTarget,        \* no protected target is configured
  NoRow,
  Protectable,     \* bound: what may be configured as protected
  StoredPolicies,  \* bound: policies of unprotected resources
  Syncs,           \* threads that synchronise
  Nobody, Other,   \* holders of the snapshot lock that are no synchronisation
  CacheSize,       \* snapshots the Agent keeps
  PageSize,        \* agent_sync_page_size
  MaxPages,        \* agent_sync_max_pages
  MaxEvents,       \* bound: changes in Docker
  MaxTaken,        \* bound: snapshots
  MaxManual,       \* bound: writes of the Controller to targets
  MaxRestarts      \* bound: restarts of the Agent

Targets == Containers \cup Projects
Policies == {"discovered", "managed", "protected"}

ASSUME SyncAssumption ==
  /\ IsFiniteSet(Containers) /\ Containers \subseteq Nat
  /\ Containers \cap Projects = {}
  /\ {Standalone, Ambiguous} \cap Projects = {}
  /\ Standalone # Ambiguous
  /\ KindOf \in [Containers -> Projects \cup {Standalone, Ambiguous}]
  /\ Seen \subseteq Observations
  /\ Initially \subseteq Seen \cup {Unborn}
  /\ Protectable \subseteq Containers \cup Projects \cup {NoTarget}
  /\ Unborn \notin Observations /\ Gone \notin Observations
  /\ NoTarget \notin Containers \cup Projects
  /\ Nobody \notin Syncs /\ Other \notin Syncs /\ Nobody # Other
  /\ CacheSize \in Nat \ {0}
  /\ PageSize \in Nat \ {0}
  /\ MaxPages \in Nat \ {0}
  /\ StoredPolicies \subseteq Policies
  /\ {MaxEvents, MaxTaken, MaxManual, MaxRestarts} \subseteq Nat

VARIABLES
  docker,      \* what each container is
  configured,  \* protected_target of the Agent
  cache,       \* the numbers of the snapshots in _snapshots, oldest first
  taken,       \* the resources of all snapshots ever taken
  lister,      \* for whom the holder of _snapshot_lock builds a snapshot
  todo,        \* containers listed and not yet inspected
  found,       \* what the inspected ones showed
  pc,          \* where a synchronisation stands
  snap,        \* expected_snapshot_id
  got,         \* the resources received
  since,       \* what each container has been since the synchronisation began
  targets, members, issues,  \* the three tables
  applied,     \* the snapshot of the last transaction that replaced the rows
  refused,     \* whether the trigger on protections has made one fail
  events, manual, restarts

snapshots == <<cache, taken, lister, todo, found>>
agent == <<configured, restarts>>
syncs == <<pc, snap, got, since>>
rows == <<targets, members, issues, applied, refused>>
vars == <<docker, events, agent, snapshots, syncs, rows, manual>>

(* The containers of S that are classified as k. *)
Classified(S, k) == {c \in S : KindOf[c] = k}

-----------------------------------------------------------------------------
(* Docker. Identifiers are never used twice, labels never change. *)

Change(c, new) ==
  /\ events < MaxEvents
  /\ events' = events + 1
  /\ docker[c] # Gone
  /\ new # docker[c]
  /\ \/ new \in Seen
     \/ new = Gone /\ docker[c] \in Seen
  /\ docker' = [docker EXCEPT ![c] = new]
  /\ since' = [s \in Syncs |->
                 IF pc[s] = "idle" THEN since[s] ELSE [since[s] EXCEPT ![c] = @ \cup {new}]]
  /\ UNCHANGED <<agent, snapshots, pc, snap, got, rows, manual>>

-----------------------------------------------------------------------------
(* The Agent: list_resources and _build_resources. A definition named X_Fault is
   X with a plausible fault; Next uses none of them, they show that the
   properties notice the fault. *)

(* The policy a resource is listed with. *)
EffectivePolicy(t, stored) == IF t = configured THEN "protected" ELSE stored

Resource(t, shown, stored, inside) ==
  [class |-> "operational", target |-> t, shown |-> shown,
   policy |-> EffectivePolicy(t, stored[t]), forced |-> t = configured,
   members |-> inside]

Issue(c, shown) ==
  [class |-> "ambiguous", target |-> c, shown |-> shown,
   policy |-> NoRow, forced |-> FALSE, members |-> <<>>]

(* Coherent containers are grouped, the others stand for themselves. *)
Resources(stored) ==
  LET seen == DOMAIN found
      inside(p) == [c \in Classified(seen, p) |-> found[c]]
      inhabited == {p \in Projects : Classified(seen, p) # {}}
  IN {Resource(c, found[c], stored, <<>>) : c \in Classified(seen, Standalone)}
     \cup {Resource(p, Aggregate({found[c] : c \in Classified(seen, p)}), stored, inside(p)) :
             p \in inhabited}
     \cup {Issue(c, found[c]) : c \in Classified(seen, Ambiguous)}

(* What one page of a snapshot holds. *)
Page(resources, offset) ==
  SubSeq(resources, offset + 1, Min({offset + PageSize, Len(resources)}))

Evict(ids) == IF Len(ids) > CacheSize THEN Tail(ids) ELSE ids

(* A synchronisation ends, or a step of it fails: the rows stay as they are. *)
Ends(s) ==
  /\ pc' = [pc EXCEPT ![s] = "idle"]
  /\ snap' = [snap EXCEPT ![s] = 0]
  /\ got' = [got EXCEPT ![s] = <<>>]
  /\ since' = [since EXCEPT ![s] = [c \in Containers |-> {}]]

(* _fetch_complete_inventory, once a page of snapshot id, which holds
   these resources, has been received. *)
Receive(s, id, resources) ==
  LET received == got[s] \o Page(resources, Len(got[s]))
      total == Len(resources)
  IN \/ total > PageSize * MaxPages /\ Ends(s)
     \/ /\ total <= PageSize * MaxPages
        /\ got' = [got EXCEPT ![s] = received]
        /\ snap' = [snap EXCEPT ![s] = id]
        /\ pc' = [pc EXCEPT ![s] = IF Len(received) = total THEN "apply" ELSE "paging"]
        /\ UNCHANGED since

(* A first page is asked for: the containers are listed under the lock. *)
ListFor(client) ==
  /\ lister = Nobody
  /\ Len(taken) < MaxTaken
  /\ lister' = client
  /\ todo' = {c \in Containers : docker[c] \in Seen}
  /\ found' = <<>>
  /\ UNCHANGED <<cache, taken>>

(* One container is inspected; a NotFound leaves it out. *)
Inspect ==
  /\ lister # Nobody
  /\ \E c \in todo :
     /\ \A d \in todo : c <= d
     /\ todo' = todo \ {c}
     /\ found' = IF docker[c] \in Seen
                 THEN [x \in DOMAIN found \cup {c} |-> IF x = c THEN docker[c] ELSE found[x]]
                 ELSE found
  /\ UNCHANGED <<docker, events, agent, cache, taken, lister, syncs, rows, manual>>

Unlock ==
  /\ lister' = Nobody
  /\ todo' = {}
  /\ found' = <<>>

(* The snapshot is complete: it enters the cache, its first page is returned. *)
Take ==
  /\ lister # Nobody
  /\ todo = {}
  /\ \E stored \in [Targets -> StoredPolicies] :
       LET resources == SetToSeq(Resources(stored))
           id == Len(taken) + 1
       IN /\ taken' = Append(taken, resources)
          /\ cache' = Evict(Append(cache, id))
          /\ IF lister \in Syncs THEN Receive(lister, id, resources) ELSE UNCHANGED syncs
  /\ Unlock
  /\ UNCHANGED <<docker, events, agent, rows, manual>>

(* Docker does not answer: the lock is released and the client is told. *)
ListFails ==
  /\ lister # Nobody
  /\ IF lister \in Syncs THEN Ends(lister) ELSE UNCHANGED syncs
  /\ Unlock
  /\ UNCHANGED <<docker, events, agent, cache, taken, rows, manual>>

OtherClient ==
  /\ ListFor(Other)
  /\ UNCHANGED <<docker, events, agent, syncs, rows, manual>>

(* The process stops and starts: _snapshots is empty again. *)
Restart ==
  /\ restarts < MaxRestarts
  /\ restarts' = restarts + 1
  /\ configured' \in Protectable
  /\ cache' = <<>>
  /\ IF lister \in Syncs THEN Ends(lister) ELSE UNCHANGED syncs
  /\ Unlock
  /\ UNCHANGED <<docker, events, taken, rows, manual>>

-----------------------------------------------------------------------------
(* The Controller: synchronize_agent_inventory *)

(* The connection has been read, and the Agent's health and contract are good. *)
Begin(s) ==
  /\ pc[s] = "idle"
  /\ pc' = [pc EXCEPT ![s] = "first"]
  /\ since' = [since EXCEPT ![s] = [c \in Containers |-> {docker[c]}]]
  /\ UNCHANGED <<docker, events, agent, snapshots, snap, got, rows, manual>>

FirstPage_FromCache(s) ==
  /\ pc[s] = "first"
  /\ IF cache = <<>>
     THEN /\ ListFor(s)
          /\ pc' = [pc EXCEPT ![s] = "listing"]
          /\ UNCHANGED <<snap, got, since>>
     ELSE /\ lister = Nobody
          /\ Receive(s, Last(cache), taken[Last(cache)])
          /\ UNCHANGED snapshots
  /\ UNCHANGED <<docker, events, agent, rows, manual>>

FirstPage(s) ==
  /\ pc[s] = "first"
  /\ ListFor(s)
  /\ pc' = [pc EXCEPT ![s] = "listing"]
  /\ UNCHANGED <<docker, events, agent, snap, got, since, rows, manual>>

(* 409: the snapshot has been evicted, or forgotten by a restart. *)
Expired_Complete(s) ==
  /\ pc' = [pc EXCEPT ![s] = "apply"]
  /\ UNCHANGED <<snap, got, since>>

Expired(s) == Ends(s)

NextPage(s) ==
  /\ pc[s] = "paging"
  /\ lister = Nobody
  /\ IF snap[s] \in Range(cache)
     THEN Receive(s, snap[s], taken[snap[s]])
     ELSE Expired(s)
  /\ UNCHANGED <<docker, events, agent, snapshots, rows, manual>>

(* A call fails or times out, on the way or in the database: nothing is written.
   The Agent goes on with a listing that nobody waits for. *)
Fails(s) ==
  /\ pc[s] # "idle"
  /\ Ends(s)
  /\ lister' = IF lister = s THEN Other ELSE lister
  /\ UNCHANGED <<docker, events, agent, cache, taken, todo, found, rows, manual>>

-----------------------------------------------------------------------------
(* synchronize_inventory_rows: the lock of the connection makes the transactions
   of two synchronisations follow each other, so one action is a transaction. *)

NewTarget == [shown |-> NoRow, present |-> FALSE, pilotable |-> TRUE,
              policy |-> "discovered", forced |-> FALSE]

Upserted_TakesPolicy(old, r) ==
  [shown |-> r.shown, present |-> TRUE, pilotable |-> TRUE,
   policy |-> r.policy,
   forced |-> r.forced]

(* _upsert_resource *)
Upserted(old, r) ==
  LET kept == old # NoRow /\ old.forced IN
  [shown |-> r.shown, present |-> TRUE, pilotable |-> TRUE,
   policy |-> IF kept THEN "protected" ELSE r.policy,
   forced |-> kept \/ r.forced]

(* _mark_targets_absent, _mark_rows_absent *)
MarkedAbsent(row) == IF row = NoRow THEN NoRow ELSE [row EXCEPT !.present = FALSE]

Disabled_Never(row) == MarkedAbsent(row)

(* _disable_legacy_member_targets *)
Disabled(row) ==
  IF row = NoRow THEN NoRow ELSE [row EXCEPT !.present = FALSE, !.pilotable = FALSE]

(* enforce_target_protection, the trigger on an update of targets. *)
Forbidden(old, new) ==
  /\ old # NoRow
  /\ old.forced
  /\ ~new.forced \/ new.policy # "protected"

NewTargets(resources) ==
  LET operational == {r \in resources : r.class = "operational"}
      inside == UNION {DOMAIN r.members : r \in operational}
  IN [t \in Targets |->
        IF \E r \in operational : r.target = t
        THEN Upserted(targets[t], CHOOSE r \in operational : r.target = t)
        ELSE IF t \in inside THEN Disabled(targets[t])
        ELSE MarkedAbsent(targets[t])]

NewMembers(resources) ==
  LET projects == {r \in resources : r.class = "operational"}
  IN [c \in Containers |->
        IF \E r \in projects : c \in DOMAIN r.members
        THEN LET r == CHOOSE p \in projects : c \in DOMAIN p.members
             IN [project |-> r.target, shown |-> r.members[c], present |-> TRUE]
        ELSE MarkedAbsent(members[c])]

NewIssues(resources) ==
  LET ambiguous == {r \in resources : r.class = "ambiguous"}
  IN [c \in Containers |->
        IF \E r \in ambiguous : r.target = c
        THEN [shown |-> (CHOOSE r \in ambiguous : r.target = c).shown, present |-> TRUE]
        ELSE MarkedAbsent(issues[c])]

Replace(s) ==
  LET resources == Range(got[s])
      new == NewTargets(resources)
  IN IF \E t \in Targets : Forbidden(targets[t], new[t])
     THEN /\ refused' = TRUE
          /\ UNCHANGED <<targets, members, issues, applied>>
     ELSE /\ targets' = new
          /\ members' = NewMembers(resources)
          /\ issues' = NewIssues(resources)
          /\ applied' = snap[s]
          /\ UNCHANGED refused

Apply(s) ==
  /\ pc[s] = "apply"
  /\ Replace(s)
  /\ Ends(s)
  /\ UNCHANGED <<docker, events, agent, snapshots, manual>>

-----------------------------------------------------------------------------
(* Other writes of the Controller to targets *)

Write(t, row) ==
  /\ manual < MaxManual
  /\ manual' = manual + 1
  /\ targets' = [targets EXCEPT ![t] = row]
  /\ UNCHANGED <<docker, events, agent, snapshots, syncs, members, issues, applied, refused>>

(* create_target_row *)
CreateTarget(t) ==
  /\ targets[t] = NoRow
  /\ Write(t, NewTarget)

(* update_target_management_policy_row *)
UpdatePolicy(t, policy) ==
  /\ targets[t] # NoRow
  /\ ~targets[t].forced \/ policy = "protected"
  /\ Write(t, [targets[t] EXCEPT !.policy = policy])

-----------------------------------------------------------------------------
Init ==
  /\ docker \in [Containers -> Initially]
  /\ configured \in Protectable
  /\ cache = <<>>
  /\ taken = <<>>
  /\ lister = Nobody
  /\ todo = {}
  /\ found = <<>>
  /\ pc = [s \in Syncs |-> "idle"]
  /\ snap = [s \in Syncs |-> 0]
  /\ got = [s \in Syncs |-> <<>>]
  /\ since = [s \in Syncs |-> [c \in Containers |-> {}]]
  /\ targets = [t \in Targets |-> NoRow]
  /\ members = [c \in Containers |-> NoRow]
  /\ issues = [c \in Containers |-> NoRow]
  /\ applied = 0
  /\ refused = FALSE
  /\ events = 0
  /\ manual = 0
  /\ restarts = 0

SyncStep(s) ==
  \/ Begin(s) \/ FirstPage(s) \/ NextPage(s) \/ Apply(s) \/ Fails(s)

AgentStep == Inspect \/ Take \/ ListFails \/ OtherClient \/ Restart

Next ==
  \/ \E s \in Syncs : SyncStep(s)
  \/ AgentStep
  \/ \E c \in Containers, new \in Seen \cup {Gone} : Change(c, new)
  \/ \E t \in Targets : CreateTarget(t) \/ \E policy \in Policies : UpdatePolicy(t, policy)

Spec == Init /\ [][Next]_vars

-----------------------------------------------------------------------------
(* Properties *)

Shown == [state : ContainerStates \cup ProjectStates, health : Healths]

TargetRow == [shown : Shown \cup {NoRow}, present : BOOLEAN, pilotable : BOOLEAN,
              policy : Policies, forced : BOOLEAN]

MemberRow == [project : Projects, shown : Seen, present : BOOLEAN]
IssueRow == [shown : Seen, present : BOOLEAN]

ASSUME RowAssumption == NoRow \notin TargetRow \cup MemberRow \cup IssueRow

TypeOK ==
  /\ docker \in [Containers -> Seen \cup {Unborn, Gone}]
  /\ configured \in Targets \cup {NoTarget}
  /\ cache \in Seq(DOMAIN taken) /\ Len(cache) <= CacheSize
  /\ lister \in Syncs \cup {Nobody, Other}
  /\ todo \in SUBSET Containers
  /\ DOMAIN found \subseteq Containers /\ Range(found) \subseteq Seen
  /\ pc \in [Syncs -> {"idle", "first", "listing", "paging", "apply"}]
  /\ snap \in [Syncs -> 0..MaxTaken]
  /\ targets \in [Targets -> TargetRow \cup {NoRow}]
  /\ members \in [Containers -> MemberRow \cup {NoRow}]
  /\ issues \in [Containers -> IssueRow \cup {NoRow}]
  /\ applied \in 0..Len(taken)

Present(row) == row # NoRow /\ row.present

(* The snapshot the tables must show. *)
Source == IF applied = 0 THEN {} ELSE Range(taken[applied])

(* The rows marked present are the resources of one whole snapshot the Agent
   took, each with what it showed, and no other row is: whatever pages, failed
   calls, restarts, evictions and overlapping synchronisations came before
   (_fetch_complete_inventory, synchronize_inventory_rows). The state of a
   project is that of the members shown under it. *)
OneSnapshot ==
  /\ {<<t, targets[t].shown>> : t \in {u \in Targets : Present(targets[u])}}
       = {<<r.target, r.shown>> : r \in {q \in Source : q.class = "operational"}}
  /\ {<<c, issues[c].shown>> : c \in {d \in Containers : Present(issues[d])}}
       = {<<r.target, r.shown>> : r \in {q \in Source : q.class = "ambiguous"}}
  /\ LET shown(p) == {members[c].shown : c \in {d \in Containers :
                        Present(members[d]) /\ members[d].project = p}}
     IN \A p \in Projects :
          IF Present(targets[p]) THEN targets[p].shown = Aggregate(shown(p))
                                 ELSE shown(p) = {}

(* A container that does not exist yet shows as little as one that is gone. *)
Visible(x) == IF x = Unborn THEN Gone ELSE x

(* What the tables show of one container. *)
ShownOf(c) ==
  IF Present(members[c]) THEN members[c].shown
  ELSE IF Present(issues[c]) THEN issues[c].shown
  ELSE IF Present(targets[c]) THEN targets[c].shown
  ELSE Gone

(* A synchronisation writes nothing older than itself: what it says of a
   container was true at some moment since it began, although the Agent looks
   at the containers one after the other, keeps snapshots, and serves several
   clients. *)
Fresh ==
  [][\A s \in Syncs :
       pc[s] = "apply" /\ applied' = snap[s] /\ applied' # applied
         => \A c \in Containers :
              ShownOf(c)' \in {Visible(x) : x \in since[s][c]}]_vars

(* A protection forced by an Agent holds for ever in the Controller, also when
   the Agent is configured otherwise and when an administrator writes another
   policy; and no synchronisation is refused by the trigger that guards it. *)
ProtectionStays ==
  /\ [](/\ ~refused
        /\ \A t \in Targets : targets[t] # NoRow /\ targets[t].forced
                                 => targets[t].policy = "protected")
  /\ [][\A t \in Targets : targets[t] # NoRow /\ targets[t].forced
                              => targets[t]'.forced]_vars

(* When a synchronisation has shown a container as a member of a project, a
   target row that a former version made for this container is not pilotable,
   and no later synchronisation makes it so. *)
MembersNotPilotable ==
  [][/\ applied' # applied =>
          \A c \in Containers : Present(members[c]') /\ targets[c]' # NoRow
                                   => ~targets[c]'.pilotable
     /\ \A t \in Targets : targets[t] # NoRow /\ ~targets[t].pilotable
                              => ~targets[t]'.pilotable]_vars

-----------------------------------------------------------------------------
(* Refinement: snapshots, pages, caches and transactions together are the copy
   of InventoryCopy. *)

truth   == [c \in Containers |-> Visible(docker[c])]
copy    == [c \in Containers |-> ShownOf(c)]
guarded == {t \in Targets : targets[t] # NoRow /\ targets[t].forced}
reading == {s \in Syncs : pc[s] # "idle"}
watched == [s \in Syncs |-> [c \in Containers |-> {Visible(x) : x \in since[s][c]}]]

Copy == INSTANCE InventoryCopy
          WITH Values <- Seen, Absent <- Gone, Readers <- Syncs

(* Only a synchronisation writes what the tables show and which protections are
   forced, once and at its end, nothing older than itself, and without taking a
   protection back; one that is refused, that expires or that fails anywhere
   writes nothing at all. *)
CopySpec == Copy!Spec
=============================================================================
