------------------------ MODULE InventorySyncProofs ------------------------
(***************************************************************************)
(* Theorems about InventorySync, for any number of containers, projects,   *)
(* synchronisations, snapshots and pages, and about the rules of           *)
(* ComposeState it uses.                                                   *)
(***************************************************************************)
EXTENDS InventorySync, FiniteSetTheorems, TLAPS

-----------------------------------------------------------------------------
(* Snapshots *)

(* What a resource may be. *)
Inside == UNION {[D -> Seen] : D \in SUBSET Containers}
Record == [class : {"operational", "ambiguous"}, target : Targets, shown : Shown,
           policy : Policies \cup {NoRow}, forced : BOOLEAN, members : Inside]

(* A resource stands for a container, or for a project of containers and then
   says of it what they show. *)
Alone(r, kind) ==
  /\ r.target \in Classified(Containers, kind)
  /\ r.shown \in Seen
  /\ DOMAIN r.members = {}

Composed(r) ==
  /\ r.target \in Projects
  /\ DOMAIN r.members # {}
  /\ DOMAIN r.members \subseteq Classified(Containers, r.target)
  /\ r.shown = Aggregate({r.members[c] : c \in DOMAIN r.members})

WellFormed(R) ==
  /\ R \subseteq Record
  /\ \A r \in R : r.class = "operational" =>
       /\ r.policy \in Policies /\ (r.forced => r.policy = "protected")
       /\ Alone(r, Standalone) \/ Composed(r)
  /\ \A r \in R : r.class = "ambiguous" => Alone(r, Ambiguous)
  /\ \A q, r \in R : q.target = r.target => q = r

(* What R says of each container is one of the observations S. *)
Agrees(R, S) ==
  \A c \in Containers :
    \/ \E r \in R : c \in DOMAIN r.members /\ r.members[c] \in S[c]
    \/ \E r \in R : r.target = c /\ r.shown \in S[c]
    \/ /\ \A r \in R : r.target # c /\ c \notin DOMAIN r.members
       /\ S[c] \cap {Unborn, Gone} # {}

(* What the containers inspected so far, and those that were found missing, have
   shown is one of the observations S. *)
ListedIn(S) ==
  /\ \A c \in DOMAIN found : found[c] \in S[c]
  /\ \A c \in Containers \ (DOMAIN found \cup todo) : S[c] \cap {Unborn, Gone} # {}

LEMMA Constants ==
  /\ IsFiniteSet(Containers) /\ Containers \subseteq Nat
  /\ Containers \cap Projects = {} /\ Standalone \notin Projects /\ Ambiguous \notin Projects
  /\ Standalone # Ambiguous
  /\ \A c \in Containers : KindOf[c] \in Projects \cup {Standalone, Ambiguous}
  /\ Seen \subseteq Observations /\ Seen \subseteq Shown
  /\ Unborn \notin Seen /\ Gone \notin Seen
  /\ Nobody \notin Syncs /\ Other \notin Syncs /\ Nobody # Other
  /\ StoredPolicies \subseteq Policies
  /\ CacheSize \in Nat /\ CacheSize # 0
  /\ PageSize \in Nat /\ PageSize # 0
  /\ MaxPages \in Nat
  /\ MaxTaken \in Nat
BY SyncAssumption DEF Observations, Shown

LEMMA Empty == <<>> \in Inside /\ DOMAIN <<>> = {}
<1>1. DOMAIN <<>> = {}
  OBVIOUS
<1>2. <<>> \in [{} -> Seen]
  OBVIOUS
<1> QED BY <1>1, <1>2 DEF Inside

LEMMA AggregateType ==
  ASSUME NEW S \in SUBSET Observations
  PROVE  Aggregate(S) \in Shown
<1>1. AggregateState(S) \in ProjectStates
  BY DEF AggregateState, ProjectStates
<1>2. AggregateHealth(S) \in Healths
  BY DEF AggregateHealth, Healths
<1> QED BY <1>1, <1>2 DEF Aggregate, Shown

(* SetToSeq lists a finite set. *)
LEMMA Listing ==
  ASSUME NEW S, IsFiniteSet(S)
  PROVE  SetToSeq(S) \in Seq(S) /\ Range(SetToSeq(S)) = S
<1> DEFINE n == Cardinality(S)
           s == SetToSeq(S)
<1>1. n \in Nat /\ ExistsBijection(1..n, S)
  BY FS_CardinalityType
<1>2. \E f \in [1..n -> S] : IsInjective(f)
  BY <1>1 DEF ExistsBijection, Bijection, Injection, IsInjective
<1>3. s \in [1..n -> S] /\ IsInjective(s)
  BY <1>2 DEF SetToSeq
<1>4. IsFiniteSet(1..n) /\ Cardinality(1..n) = n
  BY <1>1, FS_Interval
<1>5. s \in Surjection(1..n, S)
  BY <1>3, <1>4, FS_Injection DEF Injection, IsInjective
<1>6. Range(s) = S
  BY <1>3, <1>5 DEF Range, Surjection
<1> QED BY <1>1, <1>3, <1>6

-----------------------------------------------------------------------------
(* What the Agent builds from the containers it has inspected *)

LEMMA Built ==
  ASSUME NEW D \in SUBSET Containers, found \in [D -> Seen],
         NEW stored \in [Targets -> StoredPolicies]
  PROVE  IsFiniteSet(Resources(stored)) /\ WellFormed(Resources(stored))
<1> USE Constants
<1> DEFINE R == Resources(stored)
           inside(p) == [c \in Classified(D, p) |-> found[c]]
           project(p) == Resource(p, Aggregate({found[c] : c \in Classified(D, p)}),
                                  stored, inside(p))
           of == [c \in D |-> IF KindOf[c] = Standalone THEN Resource(c, found[c], stored, <<>>)
                              ELSE IF KindOf[c] = Ambiguous THEN Issue(c, found[c])
                              ELSE project(KindOf[c])]
<1>1. DOMAIN found = D
  OBVIOUS
<1>2. \A r : r \in R <=>
        \/ \E c \in Classified(D, Standalone) : r = Resource(c, found[c], stored, <<>>)
        \/ \E p \in Projects : Classified(D, p) # {} /\ r = project(p)
        \/ \E c \in Classified(D, Ambiguous) : r = Issue(c, found[c])
  BY <1>1 DEF Resources
<1>3. IsFiniteSet(R)
  <2> HIDE DEF R, project
  <2>1. \A c \in D : of[c] \in R
    BY <1>2 DEF Classified
  <2>2. \A r \in R : \E c \in D : of[c] = r
    BY <1>2 DEF Classified
  <2>3. of \in Surjection(D, R)
    BY <2>1, <2>2 DEF Surjection
  <2> QED BY <2>3, FS_Surjection, FS_Subset
<1>4. ASSUME NEW p \in Projects, Classified(D, p) # {}
      PROVE  /\ project(p) \in Record /\ Composed(project(p))
             /\ project(p).target = p /\ project(p).class = "operational"
             /\ project(p).policy \in Policies
             /\ project(p).forced => project(p).policy = "protected"
  <2>1. inside(p) \in Inside /\ DOMAIN inside(p) = Classified(D, p)
    <3>1. Classified(D, p) \in SUBSET Containers /\ inside(p) \in [Classified(D, p) -> Seen]
      BY DEF Classified
    <3> HIDE DEF inside
    <3> QED BY <3>1 DEF Inside
  <2>2. {found[c] : c \in Classified(D, p)} \in SUBSET Observations
    BY DEF Classified
  <2>3. \A c \in Classified(D, p) : inside(p)[c] = found[c]
    OBVIOUS
  <2>4. {inside(p)[c] : c \in DOMAIN inside(p)} = {found[c] : c \in Classified(D, p)}
    BY <2>1, <2>3
  <2> HIDE DEF inside
  <2>5. EffectivePolicy(p, stored[p]) \in Policies
    BY DEF EffectivePolicy, Policies, Targets
  <2>6. project(p) \in Record
    BY <2>1, <2>2, <2>5, AggregateType DEF Resource, Record, Targets
  <2>7. Composed(project(p))
    BY <1>4, <2>1, <2>4 DEF Resource, Composed, Classified
  <2> QED BY <2>5, <2>6, <2>7 DEF Resource, EffectivePolicy
<1>5. ASSUME NEW c \in Classified(D, Standalone)
      PROVE  LET r == Resource(c, found[c], stored, <<>>)
             IN /\ r \in Record /\ Alone(r, Standalone)
                /\ r.target = c /\ r.class = "operational"
                /\ r.policy \in Policies /\ (r.forced => r.policy = "protected")
  <2>1. c \in Containers /\ c \in Targets /\ found[c] \in Seen /\ KindOf[c] = Standalone
    BY DEF Classified, Targets
  <2>2. EffectivePolicy(c, stored[c]) \in Policies
    BY <2>1 DEF EffectivePolicy, Policies
  <2> QED BY <2>1, <2>2, Empty DEF Resource, Record, Alone, Classified, EffectivePolicy
<1>6. ASSUME NEW c \in Classified(D, Ambiguous)
      PROVE  LET r == Issue(c, found[c])
             IN /\ r \in Record /\ Alone(r, Ambiguous)
                /\ r.target = c /\ r.class = "ambiguous"
  <2>1. c \in Containers /\ c \in Targets /\ found[c] \in Seen /\ KindOf[c] = Ambiguous
    BY DEF Classified, Targets
  <2> QED BY <2>1, Empty DEF Issue, Record, Alone, Classified
<1>7. WellFormed(R)
  <2> HIDE DEF R, project
  <2>1. R \subseteq Record
    BY <1>2, <1>4, <1>5, <1>6
  <2>2. ASSUME NEW r \in R, r.class = "operational"
        PROVE  /\ r.policy \in Policies /\ (r.forced => r.policy = "protected")
               /\ Alone(r, Standalone) \/ Composed(r)
    <3>1. CASE \E c \in Classified(D, Standalone) : r = Resource(c, found[c], stored, <<>>)
      BY <1>5, <3>1
    <3>2. CASE \E p \in Projects : Classified(D, p) # {} /\ r = project(p)
      BY <1>4, <3>2
    <3>3. CASE \E c \in Classified(D, Ambiguous) : r = Issue(c, found[c])
      BY <1>6, <2>2, <3>3
    <3> QED BY <1>2, <3>1, <3>2, <3>3
  <2>3. ASSUME NEW r \in R, r.class = "ambiguous" PROVE Alone(r, Ambiguous)
    BY <1>2, <1>4, <1>5, <1>6, <2>3
  <2>4. ASSUME NEW q \in R, NEW r \in R, q.target = r.target PROVE q = r
    <3>1. Classified(D, Standalone) \cap Classified(D, Ambiguous) = {}
      BY DEF Classified
    <3>2. Classified(D, Standalone) \cap Projects = {} /\ Classified(D, Ambiguous) \cap Projects = {}
      BY DEF Classified
    <3> QED BY <1>2, <1>4, <1>5, <1>6, <2>4, <3>1, <3>2
  <2> QED BY <2>1, <2>2, <2>3, <2>4 DEF WellFormed
<1> QED BY <1>3, <1>7

LEMMA BuiltAgrees ==
  ASSUME NEW D \in SUBSET Containers, found \in [D -> Seen], todo = {},
         NEW stored \in [Targets -> StoredPolicies], NEW S, ListedIn(S)
  PROVE  Agrees(Resources(stored), S)
<1> USE Constants
<1> DEFINE R == Resources(stored)
           inside(p) == [c \in Classified(D, p) |-> found[c]]
           project(p) == Resource(p, Aggregate({found[c] : c \in Classified(D, p)}),
                                  stored, inside(p))
<1>1. DOMAIN found = D
  OBVIOUS
<1>2. \A r : r \in R <=>
        \/ \E c \in Classified(D, Standalone) : r = Resource(c, found[c], stored, <<>>)
        \/ \E p \in Projects : Classified(D, p) # {} /\ r = project(p)
        \/ \E c \in Classified(D, Ambiguous) : r = Issue(c, found[c])
  BY <1>1 DEF Resources
<1>3. \A p : project(p).target = p /\ project(p).members = inside(p)
  BY DEF Resource
<1>4. \A c : LET r == Resource(c, found[c], stored, <<>>)
             IN r.target = c /\ r.shown = found[c] /\ DOMAIN r.members = {}
  BY Empty DEF Resource
<1>5. \A c : LET r == Issue(c, found[c])
             IN r.target = c /\ r.shown = found[c] /\ DOMAIN r.members = {}
  BY Empty DEF Issue
<1>6. ASSUME NEW c \in D
      PROVE  \/ \E r \in R : c \in DOMAIN r.members /\ r.members[c] \in S[c]
             \/ \E r \in R : r.target = c /\ r.shown \in S[c]
  <2>1. found[c] \in S[c]
    BY <1>1 DEF ListedIn
  <2>2. CASE KindOf[c] \in Projects
    <3>1. project(KindOf[c]) \in R
      BY <1>2, <2>2 DEF Classified
    <3>2. c \in DOMAIN project(KindOf[c]).members
          /\ project(KindOf[c]).members[c] = found[c]
      BY <1>3 DEF Classified
    <3> QED BY <2>1, <3>1, <3>2
  <2>3. CASE KindOf[c] = Standalone
    BY <1>2, <1>4, <2>1, <2>3 DEF Classified
  <2>4. CASE KindOf[c] = Ambiguous
    BY <1>2, <1>5, <2>1, <2>4 DEF Classified
  <2> QED BY <2>2, <2>3, <2>4
<1>7. ASSUME NEW c \in Containers \ D
      PROVE  /\ \A r \in R : r.target # c /\ c \notin DOMAIN r.members
             /\ S[c] \cap {Unborn, Gone} # {}
  <2>1. S[c] \cap {Unborn, Gone} # {}
    BY <1>1, <1>7 DEF ListedIn
  <2>2. \A p \in Projects : c # p /\ c \notin DOMAIN inside(p)
    BY <1>7 DEF Classified
  <2> HIDE DEF project, R, inside
  <2>3. ASSUME NEW r \in R PROVE r.target # c /\ c \notin DOMAIN r.members
    <3>1. CASE \E d \in Classified(D, Standalone) : r = Resource(d, found[d], stored, <<>>)
      BY <1>4, <1>7, <3>1 DEF Classified
    <3>2. CASE \E p \in Projects : Classified(D, p) # {} /\ r = project(p)
      BY <1>3, <2>2, <3>2
    <3>3. CASE \E d \in Classified(D, Ambiguous) : r = Issue(d, found[d])
      <4>1. PICK d \in Classified(D, Ambiguous) : r = Issue(d, found[d])
        BY <3>3
      <4>2. r.target = d /\ DOMAIN r.members = {}
        BY <1>5, <4>1
      <4> QED BY <1>7, <4>2 DEF Classified
    <3> QED BY <1>2, <3>1, <3>2, <3>3
  <2> QED BY <2>1, <2>3
<1> QED BY <1>6, <1>7 DEF Agrees

(* A page continues what was received before. *)
LEMMA PageContinues ==
  ASSUME NEW full \in Seq(Record), NEW part \in Seq(Record),
         Len(part) <= Len(full), part = SubSeq(full, 1, Len(part))
  PROVE  LET received == part \o Page(full, Len(part))
         IN /\ received \in Seq(Record)
            /\ Len(received) <= Len(full)
            /\ received = SubSeq(full, 1, Len(received))
            /\ Len(received) = Len(full) => received = full
<1> USE Constants
<1> DEFINE n == Len(part)
           m == Min({n + PageSize, Len(full)})
           page == SubSeq(full, n + 1, m)
           received == part \o page
<1>1. n \in Nat /\ Len(full) \in Nat
  OBVIOUS
<1>2. m \in Nat /\ n <= m /\ m <= Len(full)
  <2>1. m \in {n + PageSize, Len(full)} /\ \A x \in {n + PageSize, Len(full)} : m <= x
    <3>1. \E k \in {n + PageSize, Len(full)} : \A x \in {n + PageSize, Len(full)} : k <= x
      <4>1. CASE n + PageSize <= Len(full)
        BY <1>1, <4>1
      <4>2. CASE Len(full) <= n + PageSize
        BY <1>1, <4>2
      <4> QED BY <1>1, <4>1, <4>2
    <3> QED BY <3>1 DEF Min
  <2> HIDE DEF m
  <2> QED BY <1>1, <2>1
<1> HIDE DEF m
<1>3. page \in Seq(Record) /\ Len(page) = m - n
      /\ \A i \in 1 .. m - n : page[i] = full[n + i]
  BY <1>1, <1>2
<1>4. \A i \in 1 .. n : part[i] = full[i]
  <2>1. \A i \in 1 .. n : SubSeq(full, 1, n)[i] = full[i]
    BY <1>1
  <2> QED BY <2>1
<1> HIDE DEF page
<1>5. received \in Seq(Record) /\ Len(received) = m
  BY <1>1, <1>2, <1>3
<1>6. \A i \in 1 .. m : received[i] = full[i]
  <2>1. ASSUME NEW i \in 1 .. m PROVE received[i] = full[i]
    <3>1. CASE i <= n
      BY <1>1, <1>2, <1>3, <1>4, <3>1
    <3>2. CASE i > n
      <4>1. received[i] = page[i - n] /\ i - n \in 1 .. m - n
        BY <1>1, <1>2, <1>3, <3>2
      <4> QED BY <1>1, <1>2, <1>3, <4>1
    <3>3. i <= n \/ i > n
      BY <1>1, <1>2
    <3> HIDE DEF received, n
    <3> QED BY <3>1, <3>2, <3>3
  <2> QED BY <2>1
<1> HIDE DEF received
<1>7. SubSeq(full, 1, m) \in Seq(Record) /\ Len(SubSeq(full, 1, m)) = m
      /\ \A i \in 1 .. m : SubSeq(full, 1, m)[i] = full[i]
  BY <1>1, <1>2
<1>8. received = SubSeq(full, 1, m)
  BY <1>2, <1>5, <1>6, <1>7
<1>9. m = Len(full) => received = full
  BY <1>1, <1>5, <1>6
<1> QED BY <1>2, <1>5, <1>8, <1>9 DEF Page, m, page, received

-----------------------------------------------------------------------------
(* The invariant *)

Instants == Seen \cup {Unborn, Gone}

SnapshotInv ==
  /\ taken \in Seq(Seq(Record)) /\ Len(taken) <= MaxTaken
  /\ lister # Nobody => Len(taken) < MaxTaken
  /\ found \in [DOMAIN found -> Seen]
  /\ got \in [Syncs -> Seq(Record)]
  /\ since \in [Syncs -> [Containers -> SUBSET Instants]]
  /\ \A i \in 1 .. Len(taken) : WellFormed(Range(taken[i]))

(* What a synchronisation has received is the beginning of the snapshot it
   names, and that snapshot says of each container what it has been since. *)
Reads(s) ==
  /\ pc[s] # "idle" => \A c \in Containers : docker[c] \in since[s][c]
  /\ pc[s] \in {"paging", "apply"} =>
       /\ snap[s] \in 1 .. Len(taken)
       /\ Len(got[s]) <= Len(taken[snap[s]])
       /\ got[s] = SubSeq(taken[snap[s]], 1, Len(got[s]))
       /\ Agrees(Range(taken[snap[s]]), since[s])
  /\ pc[s] = "apply" => got[s] = taken[snap[s]]
  /\ pc[s] \notin {"paging", "apply"} => got[s] = <<>>
  /\ lister = s => pc[s] = "listing" /\ ListedIn(since[s])

ReadInv == \A s \in Syncs : Reads(s)

(* Protections and members, row by row. *)
GuardInv ==
  /\ ~refused
  /\ \A t \in Targets : targets[t] # NoRow =>
       /\ targets[t].forced => targets[t].policy = "protected"
       /\ ~targets[t].pilotable => t \in Containers /\ KindOf[t] \in Projects

(* OneSnapshot, row by row. *)
RowInv ==
  /\ \A t \in Targets : Present(targets[t]) =>
       \E r \in Source : r.class = "operational" /\ r.target = t
  /\ \A c \in Containers : Present(members[c]) =>
       \E r \in Source : r.class = "operational" /\ c \in DOMAIN r.members
  /\ \A c \in Containers : Present(issues[c]) =>
       \E r \in Source : r.class = "ambiguous" /\ r.target = c
  /\ \A r \in Source : r.class = "operational" =>
       /\ Present(targets[r.target]) /\ targets[r.target].shown = r.shown
       /\ \A c \in DOMAIN r.members :
            /\ Present(members[c])
            /\ members[c].project = r.target /\ members[c].shown = r.members[c]
  /\ \A r \in Source : r.class = "ambiguous" =>
       Present(issues[r.target]) /\ issues[r.target].shown = r.shown

SyncInv == TypeOK /\ SnapshotInv /\ ReadInv /\ GuardInv /\ RowInv

-----------------------------------------------------------------------------
(* What one transaction writes *)

(* Whom no resource shows is marked absent. *)
LEMMA AbsentMember ==
  ASSUME NEW R, NEW c \in Containers,
         \A r \in R : r.class = "operational" => c \notin DOMAIN r.members
  PROVE  NewMembers(R)[c] = MarkedAbsent(members[c])
BY DEF NewMembers

LEMMA AbsentIssue ==
  ASSUME NEW R, NEW c \in Containers,
         \A r \in R : r.class = "ambiguous" => r.target # c
  PROVE  NewIssues(R)[c] = MarkedAbsent(issues[c])
BY DEF NewIssues

LEMMA NewRows ==
  ASSUME NEW R, WellFormed(R)
  PROVE  /\ \A r \in R : r.class = "operational" =>
              /\ r.target \in Targets
              /\ NewTargets(R)[r.target] = Upserted(targets[r.target], r)
         /\ \A t \in Targets : (\A r \in R : r.class = "operational" => r.target # t) =>
              \/ NewTargets(R)[t] = MarkedAbsent(targets[t])
              \/ /\ t \in Containers /\ KindOf[t] \in Projects
                 /\ NewTargets(R)[t] = Disabled(targets[t])
         /\ \A r \in R : r.class = "operational" => \A c \in DOMAIN r.members :
              /\ c \in Containers /\ KindOf[c] \in Projects
              /\ NewMembers(R)[c] =
                   [project |-> r.target, shown |-> r.members[c], present |-> TRUE]
         /\ \A c \in Containers :
              (\A r \in R : r.class = "operational" => c \notin DOMAIN r.members) =>
              NewMembers(R)[c] = MarkedAbsent(members[c])
         /\ \A r \in R : r.class = "ambiguous" =>
              /\ r.target \in Containers
              /\ NewIssues(R)[r.target] = [shown |-> r.shown, present |-> TRUE]
         /\ \A c \in Containers :
              (\A r \in R : r.class = "ambiguous" => r.target # c) =>
              NewIssues(R)[c] = MarkedAbsent(issues[c])
         /\ \A c \in Containers :
              (\E r \in R : r.class = "operational" /\ c \in DOMAIN r.members) =>
              NewTargets(R)[c] = Disabled(targets[c])
<1> USE Constants
<1> DEFINE op == {r \in R : r.class = "operational"}
           in == UNION {DOMAIN r.members : r \in op}
<1>1. R \subseteq Record /\ \A q, r \in R : q.target = r.target => q = r
  BY DEF WellFormed
<1>2. ASSUME NEW r \in op
      PROVE  r.target \in Targets /\ NewTargets(R)[r.target] = Upserted(targets[r.target], r)
  <2>1. r.target \in Targets
    BY <1>1 DEF Record
  <2>2. (CHOOSE q \in op : q.target = r.target) = r
    BY <1>1
  <2> QED BY <2>1, <2>2 DEF NewTargets
<1>3. ASSUME NEW t \in Targets, \A r \in op : r.target # t
      PROVE  NewTargets(R)[t] = IF t \in in THEN Disabled(targets[t])
                                ELSE MarkedAbsent(targets[t])
  BY <1>3 DEF NewTargets
<1>4. ASSUME NEW r \in op, NEW c \in DOMAIN r.members
      PROVE  /\ c \in Containers /\ KindOf[c] = r.target /\ r.target \in Projects
             /\ \A q \in op : q.target # c
             /\ \A q \in op : c \in DOMAIN q.members => q = r
  <2>1. \A q \in op : c \in DOMAIN q.members =>
          q.target \in Projects /\ c \in Containers /\ KindOf[c] = q.target
    BY DEF WellFormed, Alone, Composed, Classified
  <2>2. ASSUME NEW q \in op, q.target = c PROVE KindOf[c] = Standalone \/ c \in Projects
    <3>1. Alone(q, Standalone) \/ Composed(q)
      BY DEF WellFormed
    <3> QED BY <2>2, <3>1 DEF Alone, Composed, Classified
  <2> QED BY <1>1, <1>4, <2>1, <2>2
<1>5. ASSUME NEW r \in op, NEW c \in DOMAIN r.members
      PROVE  /\ c \in Containers /\ KindOf[c] \in Projects
             /\ NewTargets(R)[c] = Disabled(targets[c])
             /\ NewMembers(R)[c] =
                  [project |-> r.target, shown |-> r.members[c], present |-> TRUE]
  <2>1. c \in in /\ c \in Targets
    BY <1>4, <1>5 DEF Targets
  <2>2. NewTargets(R)[c] = Disabled(targets[c])
    BY <1>3, <1>4, <1>5, <2>1
  <2>3. (CHOOSE q \in op : c \in DOMAIN q.members) = r
    BY <1>4, <1>5
  <2>4. NewMembers(R)[c] = [project |-> r.target, shown |-> r.members[c], present |-> TRUE]
    BY <1>4, <1>5, <2>3 DEF NewMembers
  <2> QED BY <1>4, <1>5, <2>2, <2>4
<1>6. ASSUME NEW t \in in PROVE t \in Containers /\ KindOf[t] \in Projects
  BY <1>4
<1>7. ASSUME NEW c \in Containers, \A r \in op : c \notin DOMAIN r.members
      PROVE  NewMembers(R)[c] = MarkedAbsent(members[c])
  BY <1>7, AbsentMember
<1>8. ASSUME NEW r \in R, r.class = "ambiguous"
      PROVE  /\ r.target \in Containers
             /\ NewIssues(R)[r.target] = [shown |-> r.shown, present |-> TRUE]
  <2>1. r.target \in Containers
    BY <1>8 DEF WellFormed, Alone, Classified
  <2>2. (CHOOSE q \in {x \in R : x.class = "ambiguous"} : q.target = r.target) = r
    BY <1>1, <1>8
  <2> QED BY <1>8, <2>1, <2>2 DEF NewIssues
<1>9. ASSUME NEW c \in Containers, \A r \in R : r.class = "ambiguous" => r.target # c
      PROVE  NewIssues(R)[c] = MarkedAbsent(issues[c])
  BY <1>9, AbsentIssue
<1> HIDE DEF in
<1>10. \A r : r \in op <=> r \in R /\ r.class = "operational"
  OBVIOUS
<1> HIDE DEF op
<1> QED BY <1>2, <1>3, <1>5, <1>6, <1>7, <1>8, <1>9, <1>10

-----------------------------------------------------------------------------
LEMMA SyncInit == Init => SyncInv
<1> SUFFICES ASSUME Init PROVE SyncInv
  OBVIOUS
<1> USE Constants DEF Init
<1>1. TypeOK
  <2>1. cache \in Seq(DOMAIN taken) /\ Len(cache) <= CacheSize
    OBVIOUS
  <2>2. DOMAIN found \subseteq Containers /\ Range(found) \subseteq Seen
    BY Empty DEF Range
  <2>3. docker \in [Containers -> Seen \cup {Unborn, Gone}] /\ configured \in Targets \cup {NoTarget}
    BY SyncAssumption DEF Targets
  <2>4. applied \in 0 .. Len(taken) /\ snap \in [Syncs -> 0 .. MaxTaken]
    OBVIOUS
  <2> QED BY <2>1, <2>2, <2>3, <2>4 DEF TypeOK
<1>2. SnapshotInv
  <2>1. found \in [DOMAIN found -> Seen]
    BY Empty
  <2>2. since \in [Syncs -> [Containers -> SUBSET Instants]] /\ got \in [Syncs -> Seq(Record)]
    OBVIOUS
  <2>3. taken \in Seq(Seq(Record)) /\ Len(taken) = 0
    OBVIOUS
  <2> QED BY <2>1, <2>2, <2>3 DEF SnapshotInv
<1>3. ReadInv
  BY DEF ReadInv, Reads
<1>4. GuardInv
  BY DEF GuardInv
<1>5. RowInv
  BY DEF RowInv, Source, Present
<1> QED BY <1>1, <1>2, <1>3, <1>4, <1>5 DEF SyncInv

-----------------------------------------------------------------------------
(* Reading *)

SyncTypes ==
  /\ pc \in [Syncs -> {"idle", "first", "listing", "paging", "apply"}]
  /\ snap \in [Syncs -> 0 .. MaxTaken]
  /\ got \in [Syncs -> Seq(Record)]
  /\ since \in [Syncs -> [Containers -> SUBSET Instants]]

(* The local variables of a synchronisation stay. *)
Stays(q) == /\ pc'[q] = pc[q] /\ snap'[q] = snap[q]
            /\ got'[q] = got[q] /\ since'[q] = since[q]

LEMMA EndsFacts ==
  ASSUME SyncTypes, NEW s \in Syncs, Ends(s)
  PROVE  /\ SyncTypes'
         /\ pc'[s] = "idle" /\ got'[s] = <<>>
         /\ \A q \in Syncs \ {s} : Stays(q)
<1> USE Constants DEF SyncTypes
<1>1. [c \in Containers |-> {}] \in [Containers -> SUBSET Instants] /\ <<>> \in Seq(Record)
  OBVIOUS
<1> QED BY <1>1 DEF Ends, Stays

LEMMA ReceiveFacts ==
  ASSUME SyncTypes, NEW s \in Syncs, NEW id \in 1 .. MaxTaken, NEW full \in Seq(Record),
         Len(got[s]) <= Len(full), got[s] = SubSeq(full, 1, Len(got[s])),
         Receive(s, id, full)
  PROVE  /\ SyncTypes'
         /\ \A q \in Syncs \ {s} : Stays(q)
         /\ \/ pc'[s] = "idle" /\ got'[s] = <<>>
            \/ /\ pc'[s] \in {"paging", "apply"} /\ snap'[s] = id /\ since'[s] = since[s]
               /\ Len(got'[s]) <= Len(full) /\ got'[s] = SubSeq(full, 1, Len(got'[s]))
               /\ pc'[s] = "apply" => got'[s] = full
<1> USE Constants
<1> DEFINE received == got[s] \o Page(full, Len(got[s]))
<1>1. got[s] \in Seq(Record)
  BY DEF SyncTypes
<1>2. /\ received \in Seq(Record)
      /\ Len(received) <= Len(full)
      /\ received = SubSeq(full, 1, Len(received))
      /\ Len(received) = Len(full) => received = full
  BY <1>1, PageContinues
<1> HIDE DEF received
<1>3. CASE Ends(s)
  BY <1>3, EndsFacts
<1>4. CASE /\ got' = [got EXCEPT ![s] = received]
           /\ snap' = [snap EXCEPT ![s] = id]
           /\ pc' = [pc EXCEPT ![s] = IF Len(received) = Len(full) THEN "apply" ELSE "paging"]
           /\ UNCHANGED since
  BY <1>2, <1>4 DEF SyncTypes, Stays
<1> QED BY <1>3, <1>4 DEF Receive, received

(* A synchronisation that does nothing loses nothing. *)
LEMMA OthersRead ==
  ASSUME SnapshotInv, NEW q \in Syncs, Reads(q), Stays(q), UNCHANGED docker,
         taken' = taken \/ \E x : taken' = Append(taken, x),
         lister' # q \/ UNCHANGED <<lister, todo, found>>
  PROVE  Reads(q)'
<1>1. ASSUME NEW i \in 1 .. Len(taken) PROVE i \in 1 .. Len(taken') /\ taken'[i] = taken[i]
  BY DEF SnapshotInv
<1>2. CASE pc[q] \in {"paging", "apply"}
  BY <1>1, <1>2 DEF Reads, Stays, ListedIn
<1>3. CASE pc[q] \notin {"paging", "apply"}
  BY <1>3 DEF Reads, Stays, ListedIn
<1> QED BY <1>2, <1>3

LEMMA AllRead ==
  ASSUME SnapshotInv, ReadInv, NEW s \in Syncs, Reads(s)', UNCHANGED docker,
         \A q \in Syncs \ {s} : Stays(q),
         taken' = taken \/ \E x : taken' = Append(taken, x),
         UNCHANGED <<lister, todo, found>> \/ lister' \in {s, Nobody, Other}
  PROVE  ReadInv'
<1>1. ASSUME NEW q \in Syncs \ {s} PROVE Reads(q)'
  <2>1. lister' # q \/ UNCHANGED <<lister, todo, found>>
    BY Constants
  <2> QED BY <2>1, OthersRead DEF ReadInv
<1> QED BY <1>1 DEF ReadInv

(* Everything a step of the synchronisations, of the Agent and of Docker does to
   the snapshots and to what is read of them. *)
Reading == SyncTypes /\ SnapshotInv /\ ReadInv

StoreTypes ==
  /\ docker \in [Containers -> Seen \cup {Unborn, Gone}]
  /\ configured \in Targets \cup {NoTarget}
  /\ cache \in Seq(DOMAIN taken) /\ Len(cache) <= CacheSize
  /\ lister \in Syncs \cup {Nobody, Other}
  /\ todo \in SUBSET Containers
  /\ DOMAIN found \subseteq Containers /\ Range(found) \subseteq Seen

TableTypes ==
  /\ targets \in [Targets -> TargetRow \cup {NoRow}]
  /\ members \in [Containers -> MemberRow \cup {NoRow}]
  /\ issues \in [Containers -> IssueRow \cup {NoRow}]
  /\ applied \in 0 .. Len(taken)

LEMMA SplitTypes ==
  ASSUME SnapshotInv
  PROVE  TypeOK <=> StoreTypes /\ TableTypes /\ SyncTypes
BY DEF SnapshotInv, TypeOK, StoreTypes, TableTypes, SyncTypes

(* A new listing. *)
LEMMA ListForFacts ==
  ASSUME StoreTypes, SnapshotInv, NEW client \in Syncs \cup {Other}, ListFor(client)
  PROVE  /\ lister = Nobody /\ lister' = client /\ UNCHANGED <<cache, taken>>
         /\ todo' \in SUBSET Containers /\ found' = <<>>
         /\ found' \in [DOMAIN found' -> Seen] /\ DOMAIN found' = {} /\ Range(found') = {}
         /\ Len(taken) < MaxTaken
         /\ \A c \in Containers \ todo' : docker[c] \in {Unborn, Gone}
<1>1. found' = <<>> /\ DOMAIN <<>> = {} /\ <<>> \in [{} -> Seen]
  BY Empty DEF ListFor
<1> QED BY <1>1, Constants DEF ListFor, StoreTypes, Range

LEMMA StepFirstPage ==
  ASSUME StoreTypes, Reading, NEW s \in Syncs, FirstPage(s)
  PROVE  StoreTypes' /\ Reading'
<1> USE Constants
<1>1. /\ lister = Nobody /\ lister' = s /\ UNCHANGED <<cache, taken, snap, got, since, docker>>
      /\ todo' \in SUBSET Containers /\ found' = <<>>
      /\ found' \in [DOMAIN found' -> Seen] /\ DOMAIN found' = {} /\ Range(found') = {}
      /\ Len(taken) < MaxTaken
      /\ \A c \in Containers \ todo' : docker[c] \in {Unborn, Gone}
      /\ pc[s] = "first" /\ pc' = [pc EXCEPT ![s] = "listing"]
      /\ UNCHANGED configured
  BY ListForFacts DEF FirstPage, Reading, agent
<1>2. StoreTypes'
  BY <1>1 DEF StoreTypes
<1>3. SyncTypes'
  BY <1>1 DEF Reading, SyncTypes
<1>4. SnapshotInv'
  BY <1>1 DEF Reading, SnapshotInv
<1>5. pc'[s] = "listing"
  BY <1>1 DEF Reading, SyncTypes
<1>6. Reads(s)'
  <2>1. \A c \in Containers : docker[c] \in since[s][c]
    BY <1>1 DEF Reading, ReadInv, Reads
  <2>2. got[s] = <<>>
    BY <1>1 DEF Reading, ReadInv, Reads
  <2>3. ListedIn(since[s])'
    BY <1>1, <2>1 DEF ListedIn
  <2> QED BY <1>1, <1>5, <2>1, <2>2, <2>3 DEF Reads
<1>7. \A q \in Syncs \ {s} : Stays(q)
  BY <1>1 DEF Stays, Reading, SyncTypes
<1>8. ReadInv'
  BY <1>1, <1>6, <1>7, AllRead DEF Reading
<1> QED BY <1>2, <1>3, <1>4, <1>8 DEF Reading

LEMMA StepInspect ==
  ASSUME StoreTypes, Reading, Inspect
  PROVE  StoreTypes' /\ Reading'
<1> USE Constants
<1>1. PICK c \in todo :
        /\ todo' = todo \ {c}
        /\ found' = IF docker[c] \in Seen
                    THEN [x \in DOMAIN found \cup {c} |-> IF x = c THEN docker[c] ELSE found[x]]
                    ELSE found
  BY DEF Inspect
<1>2. UNCHANGED <<docker, configured, cache, taken, lister, pc, snap, got, since>>
  BY DEF Inspect, agent, syncs
<1>3. c \in Containers /\ docker[c] \in Seen \cup {Unborn, Gone}
  BY DEF StoreTypes
<1>4. /\ DOMAIN found' \subseteq Containers /\ found' \in [DOMAIN found' -> Seen]
      /\ DOMAIN found \subseteq DOMAIN found'
  <2>1. DOMAIN found \subseteq Containers /\ found \in [DOMAIN found -> Seen]
    BY DEF StoreTypes, Reading, SnapshotInv
  <2>2. CASE docker[c] \in Seen
    BY <1>1, <1>3, <2>1, <2>2
  <2>3. CASE docker[c] \notin Seen
    BY <1>1, <2>1, <2>3
  <2> QED BY <2>2, <2>3
<1>5. StoreTypes'
  <2>1. Range(found') \subseteq Seen
    BY <1>4 DEF Range
  <2> QED BY <1>1, <1>2, <1>4, <2>1 DEF StoreTypes
<1>6. SyncTypes' /\ SnapshotInv'
  BY <1>2, <1>4 DEF Reading, SyncTypes, SnapshotInv
<1>7. ASSUME NEW q \in Syncs PROVE Reads(q)'
  <2>1. CASE lister # q
    <3>1. Stays(q) /\ Reads(q)
      BY <1>2 DEF Stays, Reading, ReadInv
    <3> QED BY <1>2, <2>1, <3>1, OthersRead DEF Reading
  <2>2. CASE lister = q
    <3>1. Reads(q) /\ ListedIn(since[q]) /\ pc[q] = "listing"
      BY <2>2 DEF Reading, ReadInv, Reads
    <3>2. docker[c] \in since[q][c]
      BY <1>3, <3>1 DEF Reads
    <3>3. ListedIn(since[q])'
      <4>1. CASE docker[c] \in Seen
        BY <1>1, <1>2, <3>1, <3>2, <4>1 DEF ListedIn
      <4>2. CASE docker[c] \notin Seen
        BY <1>1, <1>2, <1>3, <3>1, <3>2, <4>2 DEF ListedIn
      <4> QED BY <4>1, <4>2
    <3> QED BY <1>2, <3>1, <3>3 DEF Reads
  <2> QED BY <2>1, <2>2
<1> QED BY <1>5, <1>6, <1>7 DEF Reading, ReadInv

(* The snapshot of a listing is taken. *)
LEMMA StepTake ==
  ASSUME StoreTypes, Reading, Take
  PROVE  StoreTypes' /\ Reading'
<1> USE Constants
<1>1. PICK stored \in [Targets -> StoredPolicies] :
        LET resources == SetToSeq(Resources(stored))
            id == Len(taken) + 1
        IN /\ taken' = Append(taken, resources)
           /\ cache' = Evict(Append(cache, id))
           /\ IF lister \in Syncs THEN Receive(lister, id, resources) ELSE UNCHANGED syncs
  BY DEF Take
<1> DEFINE full == SetToSeq(Resources(stored))
<1>2. /\ UNCHANGED <<docker, configured>> /\ lister # Nobody /\ todo = {}
      /\ lister' = Nobody /\ todo' = {} /\ found' = <<>>
  BY DEF Take, Unlock, agent
<1>3. DOMAIN found \in SUBSET Containers /\ found \in [DOMAIN found -> Seen]
  BY DEF StoreTypes, Reading, SnapshotInv
<1>4. IsFiniteSet(Resources(stored)) /\ WellFormed(Resources(stored))
  BY <1>3, Built
<1>5. full \in Seq(Record) /\ Range(full) = Resources(stored)
  <2>1. full \in Seq(Resources(stored)) /\ Range(full) = Resources(stored)
    BY <1>4, Listing
  <2>2. Resources(stored) \subseteq Record
    BY <1>4 DEF WellFormed
  <2> HIDE DEF full
  <2> QED BY <2>1, <2>2
<1> HIDE DEF full
<1>6. taken' = Append(taken, full) /\ cache' = Evict(Append(cache, Len(taken) + 1))
  BY <1>1 DEF full
<1>7. IF lister \in Syncs THEN Receive(lister, Len(taken) + 1, full) ELSE UNCHANGED syncs
  BY <1>1 DEF full
<1>8. /\ taken \in Seq(Seq(Record)) /\ Len(taken) \in Nat /\ Len(taken) < MaxTaken
      /\ taken' \in Seq(Seq(Record)) /\ Len(taken') = Len(taken) + 1
      /\ taken'[Len(taken) + 1] = full
      /\ \A i \in 1 .. Len(taken) : taken'[i] = taken[i]
      /\ DOMAIN taken = 1 .. Len(taken) /\ DOMAIN taken' = 1 .. Len(taken) + 1
  BY <1>2, <1>5, <1>6 DEF Reading, SnapshotInv
<1>9. StoreTypes'
  <2>1. cache' \in Seq(DOMAIN taken') /\ Len(cache') <= CacheSize
    <3>1. cache \in Seq(1 .. Len(taken)) /\ Len(cache) <= CacheSize
      BY <1>8 DEF StoreTypes
    <3>2. Append(cache, Len(taken) + 1) \in Seq(1 .. Len(taken) + 1)
          /\ Len(Append(cache, Len(taken) + 1)) = Len(cache) + 1
      BY <1>8, <3>1
    <3>3. ASSUME NEW x \in Seq(1 .. Len(taken) + 1), Len(x) <= CacheSize + 1
          PROVE  Evict(x) \in Seq(1 .. Len(taken) + 1) /\ Len(Evict(x)) <= CacheSize
      <4>1. CASE Len(x) > CacheSize
        <5>1. Len(x) # 0
          BY <4>1
        <5>2. Tail(x) \in Seq(1 .. Len(taken) + 1) /\ Len(Tail(x)) = Len(x) - 1
          BY <5>1
        <5> QED BY <3>3, <4>1, <5>2 DEF Evict
      <4>2. CASE ~ (Len(x) > CacheSize)
        BY <3>3, <4>2 DEF Evict
      <4> QED BY <4>1, <4>2
    <3>4. Len(Append(cache, Len(taken) + 1)) <= CacheSize + 1
      BY <3>1, <3>2
    <3> QED BY <1>6, <1>8, <3>2, <3>3, <3>4
  <2>2. DOMAIN found' \subseteq Containers /\ Range(found') \subseteq Seen
    BY <1>2, Empty DEF Range
  <2> QED BY <1>2, <2>1, <2>2 DEF StoreTypes
<1>10. SyncTypes'
       /\ IF lister \in Syncs
          THEN /\ \A q \in Syncs \ {lister} : Stays(q)
               /\ \/ pc'[lister] = "idle" /\ got'[lister] = <<>>
                  \/ /\ pc'[lister] \in {"paging", "apply"} /\ snap'[lister] = Len(taken) + 1
                     /\ since'[lister] = since[lister]
                     /\ Len(got'[lister]) <= Len(full)
                     /\ got'[lister] = SubSeq(full, 1, Len(got'[lister]))
                     /\ pc'[lister] = "apply" => got'[lister] = full
          ELSE \A q \in Syncs : Stays(q)
  <2>1. CASE lister \in Syncs
    <3>1. got[lister] = <<>>
      BY <2>1 DEF Reading, ReadInv, Reads
    <3>2. Len(got[lister]) <= Len(full) /\ got[lister] = SubSeq(full, 1, Len(got[lister]))
      BY <1>5, <3>1
    <3>3. Len(taken) + 1 \in 1 .. MaxTaken
      BY <1>8
    <3>4. Receive(lister, Len(taken) + 1, full)
      BY <1>7, <2>1
    <3> QED BY <1>5, <2>1, <3>2, <3>3, <3>4, ReceiveFacts DEF Reading
  <2>2. CASE lister \notin Syncs
    BY <1>7, <2>2 DEF syncs, Stays, Reading, SyncTypes
  <2> QED BY <2>1, <2>2
<1>11. SnapshotInv'
  <2>1. \A i \in 1 .. Len(taken') : WellFormed(Range(taken'[i]))
    <3>1. ASSUME NEW i \in 1 .. Len(taken') PROVE WellFormed(Range(taken'[i]))
      <4>1. CASE i = Len(taken) + 1
        BY <1>4, <1>5, <1>8, <4>1
      <4>2. CASE i # Len(taken) + 1
        <5>1. i \in 1 .. Len(taken)
          BY <1>8, <3>1, <4>2
        <5> QED BY <1>8, <5>1 DEF Reading, SnapshotInv
      <4> QED BY <4>1, <4>2
    <3> QED BY <3>1
  <2>2. found' \in [DOMAIN found' -> Seen]
    BY <1>2, Empty
  <2> QED BY <1>2, <1>8, <1>10, <2>1, <2>2 DEF SnapshotInv, SyncTypes
<1>12. ReadInv'
  <2>1. CASE lister \notin Syncs
    <3>1. ASSUME NEW q \in Syncs PROVE Reads(q)'
      BY <1>2, <1>6, <1>10, <2>1, OthersRead DEF Reading, ReadInv
    <3> QED BY <3>1 DEF ReadInv
  <2>2. CASE lister \in Syncs
    <3>1. Agrees(Range(full), since[lister])
      BY <1>2, <1>3, <1>5, <2>2, BuiltAgrees DEF Reading, ReadInv, Reads
    <3>2. \A c \in Containers : docker[c] \in since[lister][c]
      BY <2>2 DEF Reading, ReadInv, Reads
    <3>3. ASSUME NEW s \in Syncs, s = lister PROVE Reads(s)'
      <4>1. CASE pc'[s] = "idle" /\ got'[s] = <<>>
        BY <1>2, <4>1 DEF Reads
      <4>2. CASE /\ pc'[s] \in {"paging", "apply"} /\ snap'[s] = Len(taken) + 1
                 /\ since'[s] = since[s]
                 /\ Len(got'[s]) <= Len(full)
                 /\ got'[s] = SubSeq(full, 1, Len(got'[s]))
                 /\ pc'[s] = "apply" => got'[s] = full
        BY <1>2, <1>8, <3>1, <3>2, <3>3, <4>2 DEF Reads
      <4> QED BY <1>10, <3>3, <4>1, <4>2
    <3> QED BY <1>2, <1>6, <1>10, <2>2, <3>3, AllRead DEF Reading
  <2> QED BY <2>1, <2>2
<1> QED BY <1>9, <1>10, <1>11, <1>12 DEF Reading

(* The holder of the lock gives up: the synchronisation it works for ends. *)
LEMMA StepUnlock ==
  ASSUME StoreTypes, Reading, UNCHANGED <<docker, taken>>,
         configured' \in Targets \cup {NoTarget}, cache' \in {<<>>, cache}, Unlock,
         IF lister \in Syncs THEN Ends(lister) ELSE UNCHANGED syncs
  PROVE  StoreTypes' /\ Reading'
<1> USE Constants
<1>1. /\ lister' = Nobody /\ todo' = {} /\ found' = <<>>
      /\ found' \in [DOMAIN found' -> Seen] /\ DOMAIN found' = {} /\ Range(found') = {}
  BY Empty DEF Unlock, Range
<1>2. StoreTypes'
  <2>1. cache' \in Seq(DOMAIN taken') /\ Len(cache') <= CacheSize
    <3>1. CASE cache' = <<>>
      BY <3>1
    <3>2. CASE cache' = cache
      BY <3>2 DEF StoreTypes
    <3> QED BY <3>1, <3>2
  <2> QED BY <1>1, <2>1 DEF StoreTypes
<1>3. /\ SyncTypes'
      /\ IF lister \in Syncs
         THEN /\ pc'[lister] = "idle" /\ got'[lister] = <<>>
              /\ \A q \in Syncs \ {lister} : Stays(q)
         ELSE \A q \in Syncs : Stays(q)
  BY EndsFacts DEF Reading, SyncTypes, syncs, Stays
<1>4. SnapshotInv'
  BY <1>1, <1>3 DEF Reading, SnapshotInv, SyncTypes
<1>5. ASSUME NEW q \in Syncs PROVE Reads(q)'
  <2>1. CASE q = lister
    BY <1>1, <1>3, <2>1 DEF Reads
  <2>2. CASE q # lister
    BY <1>1, <1>3, <2>2, OthersRead DEF Reading, ReadInv
  <2> QED BY <2>1, <2>2
<1> QED BY <1>2, <1>3, <1>4, <1>5 DEF Reading, ReadInv

LEMMA StepOtherClient ==
  ASSUME StoreTypes, Reading, OtherClient
  PROVE  StoreTypes' /\ Reading'
<1> USE Constants
<1>1. /\ lister' = Other /\ UNCHANGED <<cache, taken, docker, configured, pc, snap, got, since>>
      /\ todo' \in SUBSET Containers
      /\ found' \in [DOMAIN found' -> Seen] /\ DOMAIN found' = {} /\ Range(found') = {}
      /\ Len(taken) < MaxTaken
  BY ListForFacts DEF OtherClient, Reading, agent, syncs
<1>2. StoreTypes'
  BY <1>1 DEF StoreTypes
<1>3. SyncTypes' /\ SnapshotInv'
  BY <1>1 DEF Reading, SyncTypes, SnapshotInv
<1>4. ASSUME NEW q \in Syncs PROVE Reads(q)'
  BY <1>1, OthersRead DEF Reading, ReadInv, Stays
<1> QED BY <1>2, <1>3, <1>4 DEF Reading, ReadInv

LEMMA StepBegin ==
  ASSUME StoreTypes, Reading, NEW s \in Syncs, Begin(s)
  PROVE  StoreTypes' /\ Reading'
<1> USE Constants
<1>1. /\ UNCHANGED <<docker, configured, cache, taken, lister, todo, found, snap, got>>
      /\ pc[s] = "idle" /\ pc' = [pc EXCEPT ![s] = "first"]
      /\ since' = [since EXCEPT ![s] = [c \in Containers |-> {docker[c]}]]
  BY DEF Begin, agent, snapshots
<1>2. StoreTypes'
  BY <1>1 DEF StoreTypes
<1>3. SyncTypes'
  <2>1. [c \in Containers |-> {docker[c]}] \in [Containers -> SUBSET Instants]
    BY DEF StoreTypes, Instants
  <2> QED BY <1>1, <2>1 DEF Reading, SyncTypes
<1>4. SnapshotInv'
  BY <1>1, <1>3 DEF Reading, SnapshotInv, SyncTypes
<1>5. Reads(s)'
  <2>1. pc'[s] = "first" /\ since'[s] = [c \in Containers |-> {docker[c]}]
    BY <1>1 DEF Reading, SyncTypes
  <2>2. got[s] = <<>> /\ lister # s
    BY <1>1 DEF Reading, ReadInv, Reads
  <2> QED BY <1>1, <2>1, <2>2 DEF Reads
<1>6. \A q \in Syncs \ {s} : Stays(q)
  BY <1>1 DEF Stays, Reading, SyncTypes
<1>7. ReadInv'
  BY <1>1, <1>5, <1>6, AllRead DEF Reading
<1> QED BY <1>2, <1>3, <1>4, <1>7 DEF Reading

LEMMA StepNextPage ==
  ASSUME StoreTypes, Reading, NEW s \in Syncs, NextPage(s)
  PROVE  StoreTypes' /\ Reading'
<1> USE Constants
<1>1. /\ UNCHANGED <<docker, configured, cache, taken, lister, todo, found>>
      /\ pc[s] = "paging" /\ lister = Nobody
  BY DEF NextPage, agent, snapshots
<1>2. StoreTypes'
  BY <1>1 DEF StoreTypes
<1>3. /\ snap[s] \in 1 .. Len(taken) /\ snap[s] \in 1 .. MaxTaken
      /\ taken[snap[s]] \in Seq(Record)
      /\ Len(got[s]) <= Len(taken[snap[s]])
      /\ got[s] = SubSeq(taken[snap[s]], 1, Len(got[s]))
      /\ Agrees(Range(taken[snap[s]]), since[s])
      /\ \A c \in Containers : docker[c] \in since[s][c]
  <2>1. Reads(s) /\ taken \in Seq(Seq(Record)) /\ Len(taken) <= MaxTaken
    BY DEF Reading, ReadInv, SnapshotInv
  <2>2. snap[s] \in 1 .. Len(taken)
    BY <1>1, <2>1 DEF Reads
  <2>3. taken[snap[s]] \in Seq(Record) /\ snap[s] \in 1 .. MaxTaken
    BY <2>1, <2>2
  <2> QED BY <1>1, <2>1, <2>2, <2>3 DEF Reads
<1>4. /\ SyncTypes'
      /\ \A q \in Syncs \ {s} : Stays(q)
      /\ \/ pc'[s] = "idle" /\ got'[s] = <<>>
         \/ /\ pc'[s] \in {"paging", "apply"} /\ snap'[s] = snap[s] /\ since'[s] = since[s]
            /\ Len(got'[s]) <= Len(taken[snap[s]])
            /\ got'[s] = SubSeq(taken[snap[s]], 1, Len(got'[s]))
            /\ pc'[s] = "apply" => got'[s] = taken[snap[s]]
  <2>1. CASE Receive(s, snap[s], taken[snap[s]])
    BY <1>3, <2>1, ReceiveFacts DEF Reading
  <2>2. CASE Ends(s)
    BY <2>2, EndsFacts DEF Reading
  <2> QED BY <2>1, <2>2 DEF NextPage, Expired
<1>5. SnapshotInv'
  BY <1>1, <1>4 DEF Reading, SnapshotInv, SyncTypes
<1>6. Reads(s)'
  <2>1. CASE pc'[s] = "idle" /\ got'[s] = <<>>
    BY <1>1, <2>1 DEF Reads
  <2>2. CASE pc'[s] # "idle"
    BY <1>1, <1>3, <1>4, <2>2 DEF Reads
  <2> QED BY <1>4, <2>1, <2>2
<1>7. ReadInv'
  BY <1>1, <1>4, <1>6, AllRead DEF Reading
<1> QED BY <1>2, <1>4, <1>5, <1>7 DEF Reading

(* A synchronisation that ends, with or without its transaction. *)
LEMMA StepEnds ==
  ASSUME StoreTypes, Reading, NEW s \in Syncs, Ends(s), lister # s \/ lister' = Other,
         UNCHANGED <<docker, configured, cache, taken, todo, found>>,
         lister' = IF lister = s THEN Other ELSE lister
  PROVE  StoreTypes' /\ Reading'
<1> USE Constants
<1>1. SyncTypes' /\ pc'[s] = "idle" /\ got'[s] = <<>> /\ \A q \in Syncs \ {s} : Stays(q)
  BY EndsFacts DEF Reading
<1>2. StoreTypes'
  BY DEF StoreTypes
<1>3. SnapshotInv'
  BY <1>1 DEF Reading, SnapshotInv, SyncTypes
<1>4. Reads(s)'
  BY <1>1 DEF Reads
<1>5. ReadInv'
  BY <1>1, <1>4, AllRead DEF Reading
<1> QED BY <1>1, <1>2, <1>3, <1>5 DEF Reading

LEMMA AgreesMore ==
  ASSUME NEW R, NEW S, NEW T, \A c \in Containers : S[c] \subseteq T[c], Agrees(R, S)
  PROVE  Agrees(R, T)
BY DEF Agrees

LEMMA StepChange ==
  ASSUME StoreTypes, Reading, NEW c \in Containers, NEW new \in Seen \cup {Gone}, Change(c, new)
  PROVE  StoreTypes' /\ Reading'
<1> USE Constants
<1>1. /\ docker' = [docker EXCEPT ![c] = new]
      /\ since' = [s \in Syncs |->
           IF pc[s] = "idle" THEN since[s] ELSE [since[s] EXCEPT ![c] = @ \cup {new}]]
      /\ UNCHANGED <<configured, cache, taken, lister, todo, found, pc, snap, got>>
  BY DEF Change, agent, snapshots
<1>2. StoreTypes'
  BY <1>1 DEF StoreTypes
<1>3. SyncTypes'
  <2>1. ASSUME NEW s \in Syncs PROVE since'[s] \in [Containers -> SUBSET Instants]
    BY <1>1 DEF Reading, SyncTypes, Instants
  <2>2. since' \in [Syncs -> [Containers -> SUBSET Instants]]
    BY <1>1, <2>1
  <2> QED BY <1>1, <2>2 DEF Reading, SyncTypes
<1>4. SnapshotInv'
  BY <1>1, <1>3 DEF Reading, SnapshotInv, SyncTypes
<1>5. ASSUME NEW q \in Syncs PROVE Reads(q)'
  <2>1. Reads(q)
    BY DEF Reading, ReadInv
  <2>2. \A d \in Containers : since[q][d] \subseteq since'[q][d]
    BY <1>1 DEF Reading, SyncTypes
  <2>3. pc[q] # "idle" => \A d \in Containers : docker'[d] \in since'[q][d]
    BY <1>1, <2>1 DEF Reads, Reading, SyncTypes, StoreTypes
  <2>4. pc[q] \in {"paging", "apply"} => Agrees(Range(taken[snap[q]]), since'[q])
    BY <2>1, <2>2, AgreesMore DEF Reads
  <2>5. lister = q => ListedIn(since[q])'
    BY <1>1, <2>1, <2>2 DEF Reads, ListedIn, StoreTypes
  <2> QED BY <1>1, <2>1, <2>3, <2>4, <2>5 DEF Reads
<1> QED BY <1>2, <1>3, <1>4, <1>5 DEF Reading, ReadInv

LEMMA ReadingStep ==
  ASSUME StoreTypes, Reading, [Next]_vars
  PROVE  StoreTypes' /\ Reading'
<1> USE Constants
<1>1. ASSUME UNCHANGED <<docker, configured, cache, taken, lister, todo, found, pc, snap, got, since>>
      PROVE  StoreTypes' /\ Reading'
  <2>1. StoreTypes' /\ SyncTypes' /\ SnapshotInv'
    BY <1>1 DEF StoreTypes, Reading, SyncTypes, SnapshotInv
  <2>2. ASSUME NEW q \in Syncs PROVE Reads(q)'
    BY <1>1, OthersRead DEF Reading, ReadInv, Stays
  <2> QED BY <2>1, <2>2 DEF Reading, ReadInv
<1>2. CASE UNCHANGED vars
  BY <1>1, <1>2 DEF vars, agent, snapshots, syncs
<1>3. ASSUME NEW s \in Syncs, Begin(s) \/ FirstPage(s) \/ NextPage(s)
      PROVE  StoreTypes' /\ Reading'
  BY <1>3, StepBegin, StepFirstPage, StepNextPage
<1>4. ASSUME NEW s \in Syncs, Apply(s) PROVE StoreTypes' /\ Reading'
  <2>1. lister # s
    BY <1>4 DEF Apply, Reading, ReadInv, Reads
  <2> QED BY <1>4, <2>1, StepEnds DEF Apply, agent, snapshots
<1>5. ASSUME NEW s \in Syncs, Fails(s) PROVE StoreTypes' /\ Reading'
  BY <1>5, StepEnds DEF Fails, agent
<1>6. CASE Inspect \/ Take \/ OtherClient
  BY <1>6, StepInspect, StepTake, StepOtherClient
<1>7. CASE ListFails
  BY <1>7, StepUnlock DEF ListFails, agent, StoreTypes
<1>8. CASE Restart
  <2>1. configured' \in Targets \cup {NoTarget}
    BY <1>8, SyncAssumption DEF Restart, Targets
  <2> QED BY <1>8, <2>1, StepUnlock DEF Restart
<1>9. ASSUME NEW c \in Containers, NEW new \in Seen \cup {Gone}, Change(c, new)
      PROVE  StoreTypes' /\ Reading'
  BY <1>9, StepChange
<1>10. ASSUME NEW t \in Targets,
              CreateTarget(t) \/ \E policy \in Policies : UpdatePolicy(t, policy)
       PROVE  StoreTypes' /\ Reading'
  BY <1>1, <1>10 DEF CreateTarget, UpdatePolicy, Write, agent, snapshots, syncs
<1> QED BY <1>2, <1>3, <1>4, <1>5, <1>6, <1>7, <1>8, <1>9, <1>10 DEF Next, SyncStep, AgentStep

-----------------------------------------------------------------------------
(* Writing *)

(* A row that a resource is written into. *)
LEMMA UpsertedRow ==
  ASSUME NEW old \in TargetRow \cup {NoRow}, NEW r \in Record,
         r.policy \in Policies, r.forced => r.policy = "protected",
         old # NoRow /\ old.forced => old.policy = "protected"
  PROVE  /\ Upserted(old, r) \in TargetRow /\ Upserted(old, r) # NoRow
         /\ Upserted(old, r).present /\ Upserted(old, r).shown = r.shown
         /\ Upserted(old, r).pilotable
         /\ Upserted(old, r).forced => Upserted(old, r).policy = "protected"
         /\ old # NoRow /\ old.forced => Upserted(old, r).forced
         /\ ~Forbidden(old, Upserted(old, r))
<1>1. Upserted(old, r) \in TargetRow
  <2>1. old # NoRow => old.forced \in BOOLEAN
    BY DEF TargetRow
  <2> QED BY <2>1 DEF Upserted, TargetRow, Record, Policies
<1> QED BY <1>1, RowAssumption DEF Upserted, Forbidden

(* A row that is marked absent or taken away from the administrator. *)
LEMMA AbsentRow ==
  ASSUME NEW old \in TargetRow \cup {NoRow}, NEW new \in {Disabled(old), MarkedAbsent(old)}
  PROVE  /\ new \in TargetRow \cup {NoRow} /\ (new = NoRow <=> old = NoRow)
         /\ ~Present(new)
         /\ old # NoRow => new.forced = old.forced /\ new.policy = old.policy
         /\ old # NoRow => (~old.pilotable => ~new.pilotable)
         /\ old # NoRow /\ new = Disabled(old) => ~new.pilotable
<1>1. CASE old = NoRow
  BY <1>1 DEF Disabled, MarkedAbsent, Present
<1>2. CASE old \in TargetRow
  <2>1. old # NoRow
    BY <1>2, RowAssumption
  <2>2. [old EXCEPT !.present = FALSE] \in TargetRow
        /\ [old EXCEPT !.present = FALSE, !.pilotable = FALSE] \in TargetRow
    BY <1>2 DEF TargetRow
  <2>3. ~Disabled(old).pilotable
    BY <1>2, <2>1 DEF Disabled, TargetRow
  <2>4. CASE new = MarkedAbsent(old)
    BY <1>2, <2>1, <2>2, <2>3, <2>4, RowAssumption DEF MarkedAbsent, Present, TargetRow
  <2>5. CASE new = Disabled(old)
    BY <1>2, <2>1, <2>2, <2>5, RowAssumption DEF Disabled, Present, TargetRow
  <2> QED BY <2>4, <2>5
<1> QED BY <1>1, <1>2

(* The rows of targets after a transaction. *)
LEMMA WrittenTargets ==
  ASSUME TableTypes, GuardInv, NEW R, WellFormed(R), NEW t \in Targets
  PROVE  /\ NewTargets(R)[t] \in TargetRow \cup {NoRow}
         /\ ~Forbidden(targets[t], NewTargets(R)[t])
         /\ Present(NewTargets(R)[t]) => \E r \in R : r.class = "operational" /\ r.target = t
         /\ NewTargets(R)[t] # NoRow =>
              /\ NewTargets(R)[t].forced => NewTargets(R)[t].policy = "protected"
              /\ ~NewTargets(R)[t].pilotable => t \in Containers /\ KindOf[t] \in Projects
         /\ targets[t] # NoRow =>
              /\ NewTargets(R)[t] # NoRow
              /\ targets[t].forced => NewTargets(R)[t].forced
              /\ ~targets[t].pilotable => ~NewTargets(R)[t].pilotable
<1> USE Constants
<1> DEFINE new == NewTargets(R)[t]
           old == targets[t]
<1>1. old \in TargetRow \cup {NoRow}
  BY DEF TableTypes
<1>2. old # NoRow => /\ old.forced => old.policy = "protected"
                     /\ ~old.pilotable => t \in Containers /\ KindOf[t] \in Projects
  BY DEF GuardInv
<1>3. ASSUME NEW r \in R, r.class = "operational", r.target = t
      PROVE  new = Upserted(old, r) /\ ~(t \in Containers /\ KindOf[t] \in Projects)
             /\ r \in Record /\ r.policy \in Policies /\ (r.forced => r.policy = "protected")
  <2>1. new = Upserted(old, r)
    BY <1>3, NewRows, SMTT(30)
  <2>2. Alone(r, Standalone) \/ Composed(r)
    BY <1>3 DEF WellFormed
  <2>3. ~(t \in Containers /\ KindOf[t] \in Projects)
    BY <1>3, <2>2 DEF Alone, Composed, Classified
  <2> QED BY <1>3, <2>1, <2>3 DEF WellFormed
<1>4. CASE \E r \in R : r.class = "operational" /\ r.target = t
  <2>1. PICK r \in R : r.class = "operational" /\ r.target = t
    BY <1>4
  <2>2. /\ new = Upserted(old, r) /\ ~(t \in Containers /\ KindOf[t] \in Projects)
        /\ r \in Record /\ r.policy \in Policies /\ (r.forced => r.policy = "protected")
    BY <1>3, <2>1
  <2> HIDE DEF new, old
  <2>3. /\ new \in TargetRow /\ new # NoRow /\ new.pilotable
        /\ new.forced => new.policy = "protected"
        /\ old # NoRow /\ old.forced => new.forced
        /\ ~Forbidden(old, new)
    BY <1>1, <1>2, <2>2, UpsertedRow
  <2>4. old # NoRow => old.pilotable
    BY <1>2, <2>2
  <2>5. /\ new \in TargetRow \cup {NoRow}
        /\ ~Forbidden(old, new)
        /\ new # NoRow => /\ new.forced => new.policy = "protected"
                          /\ ~new.pilotable => t \in Containers /\ KindOf[t] \in Projects
        /\ old # NoRow => /\ new # NoRow
                          /\ old.forced => new.forced
                          /\ ~old.pilotable => ~new.pilotable
    BY <2>3, <2>4
  <2> QED BY <1>4, <2>5 DEF new, old
<1>5. CASE ~\E r \in R : r.class = "operational" /\ r.target = t
  <2>1. \/ new = MarkedAbsent(old)
        \/ t \in Containers /\ KindOf[t] \in Projects /\ new = Disabled(old)
    BY <1>5, NewRows, SMTT(30)
  <2> HIDE DEF new, old
  <2>2. /\ new \in TargetRow \cup {NoRow} /\ (new = NoRow <=> old = NoRow) /\ ~Present(new)
        /\ old # NoRow => new.forced = old.forced /\ new.policy = old.policy
        /\ old # NoRow => (~old.pilotable => ~new.pilotable)
    BY <1>1, <2>1, AbsentRow
  <2>3. CASE new = MarkedAbsent(old)
    <3>1. old # NoRow => new.pilotable = old.pilotable
      <4>1. CASE old \in TargetRow
        BY <2>3, <4>1 DEF MarkedAbsent, TargetRow
      <4> QED BY <1>1, <4>1
    <3>2. ~Forbidden(old, new)
      BY <1>2, <2>2 DEF Forbidden
    <3>3. new # NoRow => /\ new.forced => new.policy = "protected"
                         /\ ~new.pilotable => t \in Containers /\ KindOf[t] \in Projects
      BY <1>2, <2>2, <3>1
    <3> QED BY <2>2, <3>2, <3>3 DEF new, old
  <2>4. CASE t \in Containers /\ KindOf[t] \in Projects /\ new = Disabled(old)
    <3>1. ~Forbidden(old, new)
      BY <1>2, <2>2 DEF Forbidden
    <3>2. new # NoRow => /\ new.forced => new.policy = "protected"
                         /\ ~new.pilotable => t \in Containers /\ KindOf[t] \in Projects
      BY <1>2, <2>2, <2>4
    <3> QED BY <2>2, <3>1, <3>2 DEF new, old
  <2> QED BY <2>1, <2>3, <2>4
<1> QED BY <1>4, <1>5

(* The tables after a transaction show the resources R it received. *)
LEMMA WrittenRows ==
  ASSUME TableTypes, GuardInv, NEW R, WellFormed(R), Source' = R,
         targets' = NewTargets(R), members' = NewMembers(R), issues' = NewIssues(R)
  PROVE  /\ members' \in [Containers -> MemberRow \cup {NoRow}]
         /\ issues' \in [Containers -> IssueRow \cup {NoRow}]
         /\ RowInv'
         /\ \A c \in Containers : Present(members'[c]) /\ targets'[c] # NoRow
                                   => ~targets'[c].pilotable
<1> USE Constants
<1>1. ASSUME NEW r \in R, r.class = "operational", NEW c \in DOMAIN r.members
      PROVE  /\ c \in Containers
             /\ members'[c] = [project |-> r.target, shown |-> r.members[c], present |-> TRUE]
             /\ members'[c] \in MemberRow /\ Present(members'[c])
  <2>1. /\ c \in Containers
        /\ members'[c] = [project |-> r.target, shown |-> r.members[c], present |-> TRUE]
    BY <1>1, NewRows, SMTT(30)
  <2>2. r.target \in Projects /\ r.members[c] \in Seen
    <3>1. r \in Record /\ (Alone(r, Standalone) \/ Composed(r))
      BY <1>1 DEF WellFormed
    <3>2. r.members \in Inside
      BY <3>1 DEF Record
    <3> QED BY <1>1, <3>1, <3>2 DEF Alone, Composed, Inside
  <2>3. members'[c] \in MemberRow
    BY <2>1, <2>2 DEF MemberRow
  <2>4. members'[c] # NoRow
    BY <2>3, RowAssumption
  <2>5. members'[c].present
    BY <2>1
  <2> QED BY <2>1, <2>3, <2>4, <2>5 DEF Present
<1>2. ASSUME NEW c \in Containers, \A r \in R : r.class = "operational" => c \notin DOMAIN r.members
      PROVE  members'[c] \in MemberRow \cup {NoRow} /\ ~Present(members'[c])
  <2>1. members'[c] = MarkedAbsent(members[c])
    BY <1>2, AbsentMember
  <2> QED BY <2>1 DEF MarkedAbsent, TableTypes, MemberRow, Present
<1>3. ASSUME NEW r \in R, r.class = "ambiguous"
      PROVE  /\ r.target \in Containers
             /\ issues'[r.target] = [shown |-> r.shown, present |-> TRUE]
             /\ issues'[r.target] \in IssueRow /\ Present(issues'[r.target])
  <2>1. /\ r.target \in Containers
        /\ issues'[r.target] = [shown |-> r.shown, present |-> TRUE]
    BY <1>3, NewRows, SMTT(30)
  <2>2. r.shown \in Seen
    BY <1>3 DEF WellFormed, Alone
  <2>3. issues'[r.target] \in IssueRow
    BY <2>1, <2>2 DEF IssueRow
  <2>4. issues'[r.target] # NoRow
    BY <2>3, RowAssumption
  <2>5. issues'[r.target].present
    BY <2>1
  <2> QED BY <2>1, <2>3, <2>4, <2>5 DEF Present
<1>4. ASSUME NEW c \in Containers, \A r \in R : r.class = "ambiguous" => r.target # c
      PROVE  issues'[c] \in IssueRow \cup {NoRow} /\ ~Present(issues'[c])
  <2>1. issues'[c] = MarkedAbsent(issues[c])
    BY <1>4, AbsentIssue
  <2> QED BY <2>1 DEF MarkedAbsent, TableTypes, IssueRow, Present
<1>5. ASSUME NEW r \in R, r.class = "operational"
      PROVE  Present(targets'[r.target]) /\ targets'[r.target].shown = r.shown
  <2>1. r \in Record /\ r.policy \in Policies /\ (r.forced => r.policy = "protected")
    BY <1>5 DEF WellFormed
  <2>2. r.target \in Targets /\ targets'[r.target] = Upserted(targets[r.target], r)
    BY <1>5, NewRows, SMTT(30)
  <2>3. targets[r.target] \in TargetRow \cup {NoRow}
    BY <2>2 DEF TableTypes
  <2>4. targets[r.target] # NoRow /\ targets[r.target].forced
          => targets[r.target].policy = "protected"
    BY <2>2 DEF GuardInv
  <2> QED BY <2>1, <2>2, <2>3, <2>4, UpsertedRow DEF Present
<1>6. members' \in [Containers -> MemberRow \cup {NoRow}]
  <2>1. ASSUME NEW c \in Containers PROVE members'[c] \in MemberRow \cup {NoRow}
    BY <1>1, <1>2
  <2> QED BY <2>1 DEF NewMembers
<1>7. issues' \in [Containers -> IssueRow \cup {NoRow}]
  <2>1. ASSUME NEW c \in Containers PROVE issues'[c] \in IssueRow \cup {NoRow}
    BY <1>3, <1>4
  <2> QED BY <2>1 DEF NewIssues
<1>8. \A t \in Targets : Present(targets'[t]) =>
        \E r \in R : r.class = "operational" /\ r.target = t
  BY WrittenTargets
<1>9. RowInv'
  <2>1. \A c \in Containers : Present(members'[c]) =>
          \E r \in R : r.class = "operational" /\ c \in DOMAIN r.members
    BY <1>2
  <2>2. \A c \in Containers : Present(issues'[c]) =>
          \E r \in R : r.class = "ambiguous" /\ r.target = c
    BY <1>4
  <2>3. \A r \in R : r.class = "operational" =>
          /\ Present(targets'[r.target]) /\ targets'[r.target].shown = r.shown
          /\ \A c \in DOMAIN r.members :
               /\ Present(members'[c])
               /\ members'[c].project = r.target /\ members'[c].shown = r.members[c]
    <3>1. ASSUME NEW r \in R, r.class = "operational", NEW c \in DOMAIN r.members
          PROVE  /\ Present(members'[c])
                 /\ members'[c].project = r.target /\ members'[c].shown = r.members[c]
      <4>1. /\ members'[c] = [project |-> r.target, shown |-> r.members[c], present |-> TRUE]
            /\ Present(members'[c])
        BY <1>1, <3>1
      <4> QED BY <4>1
    <3> QED BY <1>5, <3>1
  <2>4. \A r \in R : r.class = "ambiguous" =>
          Present(issues'[r.target]) /\ issues'[r.target].shown = r.shown
    <3>1. ASSUME NEW r \in R, r.class = "ambiguous"
          PROVE  Present(issues'[r.target]) /\ issues'[r.target].shown = r.shown
      <4>1. /\ issues'[r.target] = [shown |-> r.shown, present |-> TRUE]
            /\ Present(issues'[r.target])
        BY <1>3, <3>1
      <4> QED BY <4>1
    <3> QED BY <3>1
  <2> QED BY <1>8, <2>1, <2>2, <2>3, <2>4 DEF RowInv, Present
<1>10. \A c \in Containers :
         (\E r \in R : r.class = "operational" /\ c \in DOMAIN r.members) =>
         targets'[c] = Disabled(targets[c])
  BY NewRows
<1>11. ASSUME NEW c \in Containers, Present(members'[c]), targets'[c] # NoRow
       PROVE  ~targets'[c].pilotable
  <2>1. PICK r \in R : r.class = "operational" /\ c \in DOMAIN r.members
    BY <1>2, <1>11
  <2>2. targets'[c] = Disabled(targets[c])
    BY <1>10, <2>1
  <2>3. targets[c] \in TargetRow \cup {NoRow}
    BY DEF TableTypes, Targets
  <2>4. targets[c] # NoRow
    BY <1>11, <2>2 DEF Disabled
  <2> QED BY <2>2, <2>3, <2>4, AbsentRow
<1> QED BY <1>6, <1>7, <1>9, <1>11

(* Guards of the rows of targets, and the rows that a step makes stronger only. *)
Stronger ==
  \A t \in Targets : targets[t] # NoRow =>
    /\ targets'[t] # NoRow
    /\ targets[t].forced => targets'[t].forced
    /\ ~targets[t].pilotable => ~targets'[t].pilotable

Writing == TableTypes /\ GuardInv /\ RowInv

LEMMA StepApply ==
  ASSUME Reading, Writing, NEW s \in Syncs, Apply(s)
  PROVE  /\ Writing' /\ Stronger
         /\ applied' = snap[s]
         /\ \A c \in Containers : Present(members'[c]) /\ targets'[c] # NoRow
                                     => ~targets'[c].pilotable
<1> USE Constants
<1> DEFINE R == Range(got[s])
<1>1. /\ pc[s] = "apply" /\ UNCHANGED taken
      /\ snap[s] \in 1 .. Len(taken) /\ got[s] = taken[snap[s]]
  BY DEF Apply, snapshots, Reading, ReadInv, Reads
<1>2. WellFormed(R)
  BY <1>1 DEF Reading, SnapshotInv
<1>3. \A t \in Targets : ~Forbidden(targets[t], NewTargets(R)[t])
  BY <1>2, WrittenTargets DEF Writing
<1>4. /\ targets' = NewTargets(R) /\ members' = NewMembers(R) /\ issues' = NewIssues(R)
      /\ applied' = snap[s] /\ UNCHANGED refused
  BY <1>3 DEF Apply, Replace
<1> HIDE DEF R
<1>5. Source' = R
  BY <1>1, <1>4 DEF Source, R
<1>6. /\ members' \in [Containers -> MemberRow \cup {NoRow}]
      /\ issues' \in [Containers -> IssueRow \cup {NoRow}]
      /\ RowInv'
      /\ \A c \in Containers : Present(members'[c]) /\ targets'[c] # NoRow
                                => ~targets'[c].pilotable
  BY <1>2, <1>4, <1>5, WrittenRows DEF Writing
<1>7. ASSUME NEW t \in Targets
      PROVE  /\ targets'[t] \in TargetRow \cup {NoRow}
             /\ targets'[t] # NoRow =>
                  /\ targets'[t].forced => targets'[t].policy = "protected"
                  /\ ~targets'[t].pilotable => t \in Containers /\ KindOf[t] \in Projects
             /\ targets[t] # NoRow =>
                  /\ targets'[t] # NoRow
                  /\ targets[t].forced => targets'[t].forced
                  /\ ~targets[t].pilotable => ~targets'[t].pilotable
  BY <1>2, <1>4, WrittenTargets DEF Writing
<1>8. TableTypes'
  <2>1. targets' \in [Targets -> TargetRow \cup {NoRow}]
    BY <1>4, <1>7 DEF NewTargets
  <2>2. applied' \in 0 .. Len(taken')
    BY <1>1, <1>4
  <2> QED BY <1>6, <2>1, <2>2 DEF TableTypes
<1>9. GuardInv'
  BY <1>4, <1>7 DEF GuardInv, Writing
<1>10. Stronger
  BY <1>7 DEF Stronger
<1> QED BY <1>4, <1>6, <1>8, <1>9, <1>10 DEF Writing

(* The other writes to targets change neither what is shown nor what is present. *)
LEMMA StepWrite ==
  ASSUME Reading, Writing, NEW t \in Targets,
         CreateTarget(t) \/ \E policy \in Policies : UpdatePolicy(t, policy)
  PROVE  Writing' /\ Stronger /\ UNCHANGED applied
<1>1. UNCHANGED <<taken, members, issues, applied, refused>>
  BY DEF CreateTarget, UpdatePolicy, Write, snapshots
<1>2. targets \in [Targets -> TargetRow \cup {NoRow}]
  BY DEF Writing, TableTypes
<1>3. PICK row : /\ targets' = [targets EXCEPT ![t] = row] /\ row \in TargetRow
                 /\ row.forced => row.policy = "protected"
                 /\ ~row.pilotable => targets[t] # NoRow /\ ~targets[t].pilotable
                 /\ targets[t] = NoRow => ~row.present
                 /\ targets[t] # NoRow =>
                      /\ row.present = targets[t].present /\ row.shown = targets[t].shown
                      /\ row.forced = targets[t].forced
                      /\ row.pilotable = targets[t].pilotable
  <2>1. CASE CreateTarget(t)
    <3>1. NewTarget \in TargetRow
      BY DEF NewTarget, TargetRow, Policies
    <3>2. /\ targets' = [targets EXCEPT ![t] = NewTarget] /\ targets[t] = NoRow
          /\ ~NewTarget.forced /\ NewTarget.pilotable /\ ~NewTarget.present
      BY <2>1 DEF CreateTarget, Write, NewTarget
    <3> QED BY <3>1, <3>2
  <2>2. CASE \E policy \in Policies : UpdatePolicy(t, policy)
    <3>1. PICK policy \in Policies : UpdatePolicy(t, policy)
      BY <2>2
    <3> DEFINE row == [targets[t] EXCEPT !.policy = policy]
    <3>2. /\ targets' = [targets EXCEPT ![t] = row] /\ targets[t] # NoRow
          /\ ~targets[t].forced \/ policy = "protected"
      BY <3>1 DEF UpdatePolicy, Write
    <3>3. targets[t] \in TargetRow
      BY <1>2, <3>2
    <3>4. /\ row \in TargetRow /\ row.policy = policy
          /\ row.present = targets[t].present /\ row.shown = targets[t].shown
          /\ row.forced = targets[t].forced /\ row.pilotable = targets[t].pilotable
      BY <3>3 DEF TargetRow
    <3> HIDE DEF row
    <3> QED BY <3>2, <3>4
  <2> QED BY <2>1, <2>2
<1>4. row # NoRow
  BY <1>3, RowAssumption
<1>5. targets'[t] = row /\ \A u \in Targets \ {t} : targets'[u] = targets[u]
  BY <1>2, <1>3
<1>6. TableTypes'
  <2>1. targets' \in [Targets -> TargetRow \cup {NoRow}]
    BY <1>2, <1>3
  <2> QED BY <1>1, <2>1 DEF Writing, TableTypes
<1>7. GuardInv'
  <2>1. ASSUME NEW u \in Targets, targets'[u] # NoRow
        PROVE  /\ targets'[u].forced => targets'[u].policy = "protected"
               /\ ~targets'[u].pilotable => u \in Containers /\ KindOf[u] \in Projects
    <3>1. CASE u = t
      BY <1>3, <1>5, <3>1 DEF Writing, GuardInv
    <3>2. CASE u # t
      BY <1>5, <2>1, <3>2 DEF Writing, GuardInv
    <3> QED BY <3>1, <3>2
  <2> QED BY <1>1, <2>1 DEF Writing, GuardInv
<1>8. Stronger
  BY <1>3, <1>4, <1>5 DEF Stronger
<1>9. Source' = Source
  BY <1>1 DEF Source
<1>10. ASSUME NEW u \in Targets
       PROVE  /\ Present(targets'[u]) <=> Present(targets[u])
              /\ Present(targets[u]) => targets'[u].shown = targets[u].shown
  BY <1>3, <1>4, <1>5 DEF Present
<1>11. RowInv'
  <2>1. ASSUME NEW r \in Source, r.class = "operational" PROVE r.target \in Targets
    <3>1. applied \in 0 .. Len(taken)
      BY DEF Writing, TableTypes
    <3>2. WellFormed(Source)
      BY <2>1, <3>1 DEF Source, Reading, SnapshotInv
    <3> QED BY <2>1, <3>2 DEF WellFormed, Record
  <2>2. \A u \in Targets : Present(targets'[u]) =>
          \E r \in Source : r.class = "operational" /\ r.target = u
    BY <1>10 DEF Writing, RowInv
  <2>3. \A r \in Source : r.class = "operational" =>
          /\ Present(targets'[r.target]) /\ targets'[r.target].shown = r.shown
    BY <1>10, <2>1 DEF Writing, RowInv
  <2> QED BY <1>1, <1>9, <2>2, <2>3 DEF Writing, RowInv, Present
<1> QED BY <1>1, <1>6, <1>7, <1>8, <1>11 DEF Writing

(* A step that leaves the rows alone, and may add a snapshot. *)
LEMMA RowsStay ==
  ASSUME Reading, Writing, UNCHANGED rows,
         taken' = taken \/ \E x : taken' = Append(taken, x)
  PROVE  Writing' /\ Stronger /\ UNCHANGED applied
<1>1. UNCHANGED <<targets, members, issues, applied, refused>>
  BY DEF rows
<1>2. applied \in 0 .. Len(taken) /\ taken \in Seq(Seq(Record))
  BY DEF Writing, TableTypes, Reading, SnapshotInv
<1>3. applied \in 0 .. Len(taken') /\ (applied # 0 => taken'[applied] = taken[applied])
  BY <1>2
<1>4. Source' = Source
  BY <1>1, <1>3 DEF Source
<1> QED BY <1>1, <1>3, <1>4 DEF Writing, TableTypes, GuardInv, RowInv, Present, Stronger

LEMMA WritingStep ==
  ASSUME Reading, Writing, [Next]_vars
  PROVE  /\ Writing' /\ Stronger
         /\ UNCHANGED applied \/ \E s \in Syncs : Apply(s)
<1>1. ASSUME NEW s \in Syncs, Apply(s) PROVE Writing' /\ Stronger
  BY <1>1, StepApply
<1>2. ASSUME NEW t \in Targets,
             CreateTarget(t) \/ \E policy \in Policies : UpdatePolicy(t, policy)
      PROVE  Writing' /\ Stronger /\ UNCHANGED applied
  BY <1>2, StepWrite
<1>3. ASSUME NEW s \in Syncs, Begin(s) \/ FirstPage(s) \/ NextPage(s) \/ Fails(s)
      PROVE  Writing' /\ Stronger /\ UNCHANGED applied
  BY <1>3, RowsStay DEF Begin, FirstPage, NextPage, Fails, ListFor, snapshots
<1>4. CASE AgentStep
  BY <1>4, RowsStay DEF AgentStep, Inspect, Take, ListFails, OtherClient, Restart, ListFor
<1>5. ASSUME NEW c \in Containers, NEW new \in Seen \cup {Gone}, Change(c, new)
      PROVE  Writing' /\ Stronger /\ UNCHANGED applied
  BY <1>5, RowsStay DEF Change, snapshots
<1>6. CASE UNCHANGED vars
  BY <1>6, RowsStay DEF vars, snapshots
<1> QED BY <1>1, <1>2, <1>3, <1>4, <1>5, <1>6 DEF Next, SyncStep

LEMMA SyncStepInv == SyncInv /\ [Next]_vars => SyncInv'
<1> SUFFICES ASSUME SyncInv, [Next]_vars PROVE SyncInv'
  OBVIOUS
<1>1. StoreTypes /\ Reading /\ Writing
  BY SplitTypes DEF SyncInv, Reading, Writing
<1>2. StoreTypes' /\ Reading'
  BY <1>1, ReadingStep
<1>3. Writing'
  BY <1>1, WritingStep
<1>4. TypeOK'
  BY <1>2, <1>3 DEF Reading, Writing, SnapshotInv, TypeOK, StoreTypes, TableTypes, SyncTypes
<1> QED BY <1>2, <1>3, <1>4 DEF SyncInv, Reading, Writing

(* The invariant of the synchronisations: what each has received is the
   beginning of one snapshot of the Agent, and the tables are, row by row, the
   last snapshot applied, in every reachable state (_fetch_complete_inventory,
   synchronize_inventory_rows). *)
THEOREM SyncInvariant == Spec => []SyncInv
<1>1. Init => SyncInv
  BY SyncInit
<1>2. SyncInv /\ [Next]_vars => SyncInv'
  BY SyncStepInv
<1> QED BY <1>1, <1>2, PTL DEF Spec

(* TypeOK: the Agent, the synchronisations and the rows are always as the code
   declares them. *)
THEOREM TypeCorrect == Spec => []TypeOK
<1>1. SyncInv => TypeOK
  BY DEF SyncInv
<1> QED BY <1>1, SyncInvariant, PTL

LEMMA SnapshotShown == SyncInv => OneSnapshot
<1> SUFFICES ASSUME SyncInv PROVE OneSnapshot
  OBVIOUS
<1> USE Constants
<1>1. RowInv /\ applied \in 0 .. Len(taken)
  BY DEF SyncInv, TypeOK
<1>2. WellFormed(Source)
  BY <1>1 DEF Source, SyncInv, SnapshotInv, WellFormed
<1>3. \A r \in Source : r.class = "operational" => r.target \in Targets
  BY <1>2 DEF WellFormed, Record
<1>4. \A r \in Source : r.class = "ambiguous" => r.target \in Containers
  BY <1>2 DEF WellFormed, Alone, Classified
<1>5. ASSUME NEW t \in Targets, NEW r \in Source, r.class = "operational", r.target = t
      PROVE  Present(targets[t]) /\ targets[t].shown = r.shown
  BY <1>1, <1>5 DEF RowInv
<1>6. {<<t, targets[t].shown>> : t \in {u \in Targets : Present(targets[u])}}
        = {<<r.target, r.shown>> : r \in {q \in Source : q.class = "operational"}}
  <2>1. ASSUME NEW t \in Targets, Present(targets[t])
        PROVE  \E r \in {q \in Source : q.class = "operational"} :
                 <<t, targets[t].shown>> = <<r.target, r.shown>>
    <3>1. PICK r \in Source : r.class = "operational" /\ r.target = t
      BY <1>1, <2>1 DEF RowInv
    <3> QED BY <1>5, <3>1
  <2>2. ASSUME NEW r \in Source, r.class = "operational"
        PROVE  \E t \in {u \in Targets : Present(targets[u])} :
                 <<r.target, r.shown>> = <<t, targets[t].shown>>
    BY <1>3, <1>5, <2>2
  <2> QED BY <2>1, <2>2
<1>7. {<<c, issues[c].shown>> : c \in {d \in Containers : Present(issues[d])}}
        = {<<r.target, r.shown>> : r \in {q \in Source : q.class = "ambiguous"}}
  <2>1. ASSUME NEW c \in Containers, NEW r \in Source, r.class = "ambiguous", r.target = c
        PROVE  Present(issues[c]) /\ issues[c].shown = r.shown
    BY <1>1, <2>1 DEF RowInv
  <2>2. ASSUME NEW c \in Containers, Present(issues[c])
        PROVE  \E r \in {q \in Source : q.class = "ambiguous"} :
                 <<c, issues[c].shown>> = <<r.target, r.shown>>
    <3>1. PICK r \in Source : r.class = "ambiguous" /\ r.target = c
      BY <1>1, <2>2 DEF RowInv
    <3> QED BY <2>1, <3>1
  <2>3. ASSUME NEW r \in Source, r.class = "ambiguous"
        PROVE  \E c \in {d \in Containers : Present(issues[d])} :
                 <<r.target, r.shown>> = <<c, issues[c].shown>>
    BY <1>4, <2>1, <2>3
  <2> QED BY <2>2, <2>3
<1> DEFINE of(p) == {d \in Containers : Present(members[d]) /\ members[d].project = p}
           shown(p) == {members[c].shown : c \in of(p)}
<1>8. ASSUME NEW r \in Source, r.class = "operational", NEW c \in DOMAIN r.members
      PROVE  /\ c \in Containers /\ Present(members[c])
             /\ members[c].project = r.target /\ members[c].shown = r.members[c]
  <2>1. c \in Containers
    BY <1>2, <1>8 DEF WellFormed, Alone, Composed, Classified
  <2> QED BY <1>1, <1>8, <2>1 DEF RowInv
<1>9. ASSUME NEW p \in Projects, NEW c \in of(p)
      PROVE  \E r \in Source : /\ r.class = "operational" /\ r.target = p
                               /\ c \in DOMAIN r.members /\ members[c].shown = r.members[c]
  <2>1. PICK r \in Source : r.class = "operational" /\ c \in DOMAIN r.members
    BY <1>1, <1>9 DEF RowInv
  <2> QED BY <1>8, <2>1
<1>10. ASSUME NEW p \in Projects, Present(targets[p])
       PROVE  targets[p].shown = Aggregate(shown(p))
  <2>1. p \in Targets
    BY DEF Targets
  <2>2. PICK r \in Source : r.class = "operational" /\ r.target = p
    BY <1>1, <1>10, <2>1 DEF RowInv
  <2>3. /\ targets[p].shown = r.shown
        /\ r.shown = Aggregate({r.members[c] : c \in DOMAIN r.members})
    <3>1. Alone(r, Standalone) \/ Composed(r)
      BY <1>2, <2>2 DEF WellFormed
    <3> QED BY <1>5, <2>1, <2>2, <3>1 DEF Alone, Composed, Classified
  <2>4. \A c \in DOMAIN r.members : c \in of(p) /\ members[c].shown = r.members[c]
    BY <1>8, <2>2
  <2>5. ASSUME NEW c \in of(p)
        PROVE  c \in DOMAIN r.members /\ members[c].shown = r.members[c]
    <3>1. PICK q \in Source : /\ q.class = "operational" /\ q.target = p
                             /\ c \in DOMAIN q.members /\ members[c].shown = q.members[c]
      BY <1>9
    <3>2. q = r
      BY <1>2, <2>2, <3>1 DEF WellFormed
    <3> QED BY <3>1, <3>2
  <2> HIDE DEF of
  <2>6. {r.members[c] : c \in DOMAIN r.members} = shown(p)
    BY <2>4, <2>5
  <2> QED BY <2>3, <2>6
<1>11. ASSUME NEW p \in Projects, ~Present(targets[p]) PROVE shown(p) = {}
  <2>1. p \in Targets
    BY DEF Targets
  <2>2. of(p) = {}
    BY <1>5, <1>9, <1>11, <2>1
  <2> HIDE DEF of
  <2> QED BY <2>2
<1> QED BY <1>6, <1>7, <1>10, <1>11 DEF OneSnapshot

(* OneSnapshot: the rows marked present are the resources of one whole snapshot
   of the Agent, whatever was evicted, lost, restarted or overlapping before
   (_fetch_complete_inventory, synchronize_inventory_rows). *)
THEOREM WholeSnapshot == Spec => []OneSnapshot
BY SnapshotShown, SyncInvariant, PTL

(* What exists, or is gone, is shown as it is. *)
LEMMA VisibleSeen == \A x \in Seen \cup {Gone} : Visible(x) = x
BY Constants DEF Visible

(* Rows that show a snapshot show of every container what the snapshot says. *)
LEMMA ShownAgrees ==
  ASSUME RowInv, WellFormed(Source), NEW S, Agrees(Source, S), NEW c \in Containers
  PROVE  /\ ShownOf(c) \in Seen \cup {Gone}
         /\ ShownOf(c) \in {Visible(x) : x \in S[c]}
<1> USE Constants
<1>1. Present(members[c]) => KindOf[c] \in Projects
  <2>1. ASSUME NEW r \in Source, r.class = "operational", c \in DOMAIN r.members
        PROVE  KindOf[c] \in Projects
    <3>1. Alone(r, Standalone) \/ Composed(r)
      BY <2>1 DEF WellFormed
    <3> QED BY <2>1, <3>1 DEF Alone, Composed, Classified
  <2> QED BY <2>1 DEF RowInv
<1>2. Present(issues[c]) => KindOf[c] = Ambiguous
  BY DEF RowInv, WellFormed, Alone, Classified
<1>3. CASE \E r \in Source : c \in DOMAIN r.members /\ r.members[c] \in S[c]
  <2>1. PICK r \in Source : c \in DOMAIN r.members /\ r.members[c] \in S[c]
    BY <1>3
  <2>2. r.class = "operational"
    BY <2>1 DEF WellFormed, Alone, Record
  <2>3. Present(members[c]) /\ members[c].shown = r.members[c]
    BY <2>1, <2>2 DEF RowInv
  <2>4. r.members[c] \in Seen
    BY <2>1 DEF WellFormed, Record, Inside
  <2> QED BY <2>1, <2>3, <2>4, VisibleSeen DEF ShownOf
<1>4. CASE \E r \in Source : r.target = c /\ r.shown \in S[c]
  <2>1. PICK r \in Source : r.target = c /\ r.shown \in S[c]
    BY <1>4
  <2>2. CASE r.class = "operational"
    <3>1. Alone(r, Standalone)
      <4>1. Alone(r, Standalone) \/ Composed(r)
        BY <2>2 DEF WellFormed
      <4> QED BY <2>1, <4>1 DEF Composed
    <3>2. KindOf[c] = Standalone /\ r.shown \in Seen
      BY <2>1, <3>1 DEF Alone, Classified
    <3>3. Present(targets[c]) /\ targets[c].shown = r.shown
      BY <2>1, <2>2 DEF RowInv
    <3> QED BY <1>1, <1>2, <2>1, <3>2, <3>3, VisibleSeen DEF ShownOf
  <2>3. CASE r.class = "ambiguous"
    <3>1. KindOf[c] = Ambiguous /\ r.shown \in Seen
      BY <2>1, <2>3 DEF WellFormed, Alone, Classified
    <3>2. Present(issues[c]) /\ issues[c].shown = r.shown
      BY <2>1, <2>3 DEF RowInv
    <3> QED BY <1>1, <2>1, <3>1, <3>2, VisibleSeen DEF ShownOf
  <2>4. r.class \in {"operational", "ambiguous"}
    BY DEF WellFormed, Record
  <2> QED BY <2>2, <2>3, <2>4
<1>5. CASE /\ \A r \in Source : r.target # c /\ c \notin DOMAIN r.members
           /\ S[c] \cap {Unborn, Gone} # {}
  <2>1. ~Present(members[c]) /\ ~Present(issues[c]) /\ ~Present(targets[c])
    BY <1>5 DEF RowInv, Targets
  <2>2. ShownOf(c) = Gone
    BY <2>1 DEF ShownOf
  <2>3. Visible(Unborn) = Gone /\ Visible(Gone) = Gone
    BY DEF Visible
  <2> QED BY <1>5, <2>2, <2>3
<1> QED BY <1>3, <1>4, <1>5 DEF Agrees

(* Every observation the snapshot applied agrees with agrees with the rows. *)
RowsAgree ==
  \A S \in [Containers -> SUBSET Instants] :
    Agrees(Source, S) => \A c \in Containers :
                           /\ ShownOf(c) \in Seen \cup {Gone}
                           /\ ShownOf(c) \in {Visible(x) : x \in S[c]}

LEMMA RowsOfSource == SyncInv => RowsAgree
<1> SUFFICES ASSUME SyncInv PROVE RowsAgree
  OBVIOUS
<1>1. RowInv /\ applied \in 0 .. Len(taken)
  BY DEF SyncInv, TypeOK
<1>2. WellFormed(Source)
  BY <1>1 DEF Source, SyncInv, SnapshotInv, WellFormed
<1> QED BY <1>1, <1>2, ShownAgrees DEF RowsAgree

(* The transaction of a synchronisation is never refused, and shows of every
   container something it has been since the synchronisation began. *)
LEMMA ApplyShows ==
  ASSUME SyncInv, RowsAgree', NEW s \in Syncs, Apply(s), NEW c \in Containers
  PROVE  /\ ShownOf(c)' \in Seen \cup {Gone}
         /\ ShownOf(c)' \in {Visible(x) : x \in since[s][c]}
<1>1. Reading /\ Writing
  BY SplitTypes DEF SyncInv, Reading, Writing
<1>2. applied' = snap[s]
  BY <1>1, StepApply
<1>3. UNCHANGED taken
  BY DEF Apply, snapshots
<1>4. Reads(s) /\ since[s] \in [Containers -> SUBSET Instants]
  BY <1>1 DEF Reading, ReadInv, SnapshotInv
<1>5. snap[s] # 0 /\ Agrees(Range(taken[snap[s]]), since[s])
  <2>1. pc[s] = "apply"
    BY DEF Apply
  <2> QED BY <1>1, <1>4, <2>1 DEF Reads, Reading, SnapshotInv
<1>6. Agrees(Source', since[s])
  <2>1. Source' = Range(taken[snap[s]])
    BY <1>2, <1>3, <1>5 DEF Source
  <2> QED BY <1>5, <2>1
<1> QED BY <1>4, <1>6 DEF RowsAgree, Agrees

(* Fresh: a synchronisation shows of every container something it has been since
   the synchronisation began (_fetch_complete_inventory, list_resources). *)
THEOREM FreshRows == Spec => Fresh
<1> DEFINE A == \A s \in Syncs :
                  pc[s] = "apply" /\ applied' = snap[s] /\ applied' # applied
                    => \A c \in Containers :
                         ShownOf(c)' \in {Visible(x) : x \in since[s][c]}
<1>1. RowsAgree' /\ SyncInv /\ [Next]_vars => [A]_vars
  <2> SUFFICES ASSUME RowsAgree', SyncInv, Next, NEW s \in Syncs,
                      pc[s] = "apply", applied' = snap[s], applied' # applied,
                      NEW c \in Containers
               PROVE  ShownOf(c)' \in {Visible(x) : x \in since[s][c]}
    OBVIOUS
  <2>1. Reading /\ Writing
    BY SplitTypes DEF SyncInv, Reading, Writing
  <2>2. PICK q \in Syncs : Apply(q)
    BY <2>1, WritingStep
  <2>3. UNCHANGED taken
    BY <2>2 DEF Apply, snapshots
  <2>4. Reads(s) /\ since[s] \in [Containers -> SUBSET Instants]
    BY <2>1 DEF Reading, ReadInv, SnapshotInv
  <2>5. snap[s] # 0 /\ Agrees(Range(taken[snap[s]]), since[s])
    BY <2>4 DEF Reads
  <2>6. Source' = Range(taken[snap[s]])
    BY <2>3, <2>5 DEF Source
  <2>7. Agrees(Source', since[s])
    BY <2>5, <2>6
  <2> QED BY <2>4, <2>7 DEF RowsAgree, Agrees
<1> HIDE DEF A
<1>2. Spec => [][A]_vars
  BY <1>1, SyncInvariant, RowsOfSource, PTL DEF Spec
<1> QED BY <1>2 DEF Fresh, A

(* ProtectionStays: a forced protection holds for ever in the Controller, and no
   synchronisation is refused by the trigger that guards it (_upsert_resource,
   enforce_target_protection). *)
THEOREM ProtectionHolds == Spec => ProtectionStays
<1> DEFINE I == /\ ~refused
                /\ \A t \in Targets : targets[t] # NoRow /\ targets[t].forced
                                          => targets[t].policy = "protected"
           A == \A t \in Targets : targets[t] # NoRow /\ targets[t].forced
                                       => targets[t]'.forced
<1>1. SyncInv => I
  BY DEF SyncInv, GuardInv
<1>2. SyncInv /\ [Next]_vars => [A]_vars
  <2> SUFFICES ASSUME SyncInv, [Next]_vars PROVE A
    OBVIOUS
  <2>1. Reading /\ Writing
    BY SplitTypes DEF SyncInv, Reading, Writing
  <2> QED BY <2>1, WritingStep DEF Stronger
<1> HIDE DEF I, A
<1>3. Spec => []I /\ [][A]_vars
  BY <1>1, <1>2, SyncInvariant, PTL DEF Spec
<1> QED BY <1>3 DEF ProtectionStays, I, A

(* MembersNotPilotable: a target row of a container that is shown as a member is
   not pilotable, and never becomes so again (_disable_legacy_member_targets). *)
THEOREM MembersStay == Spec => MembersNotPilotable
<1> DEFINE A == /\ applied' # applied =>
                     \A c \in Containers : Present(members[c]') /\ targets[c]' # NoRow
                                              => ~targets[c]'.pilotable
                /\ \A t \in Targets : targets[t] # NoRow /\ ~targets[t].pilotable
                                           => ~targets[t]'.pilotable
<1>1. SyncInv /\ [Next]_vars => [A]_vars
  <2> SUFFICES ASSUME SyncInv, [Next]_vars PROVE A
    OBVIOUS
  <2>1. Reading /\ Writing
    BY SplitTypes DEF SyncInv, Reading, Writing
  <2>2. Stronger /\ (UNCHANGED applied \/ \E s \in Syncs : Apply(s))
    BY <2>1, WritingStep
  <2>3. ASSUME applied' # applied, NEW c \in Containers, Present(members[c]'), targets[c]' # NoRow
        PROVE  ~targets[c]'.pilotable
    BY <2>1, <2>2, <2>3, StepApply DEF Present
  <2> QED BY <2>2, <2>3 DEF Stronger
<1> HIDE DEF A
<1>2. Spec => [][A]_vars
  BY <1>1, SyncInvariant, PTL DEF Spec
<1> QED BY <1>2 DEF MembersNotPilotable, A

-----------------------------------------------------------------------------
(* Every step is a step of the copy, or none *)

LEMMA CopyInit == Init => Copy!Init
<1> SUFFICES ASSUME Init PROVE Copy!Init
  OBVIOUS
<1> USE Constants
<1>1. ASSUME NEW c \in Containers PROVE truth[c] \in Seen \cup {Gone}
  BY SyncAssumption DEF Init, truth, Visible
<1>2. truth \in Copy!Shows
  BY <1>1 DEF truth, Copy!Shows
<1>3. \A c \in Containers : ShownOf(c) = Gone
  BY DEF Init, ShownOf, Present, Targets
<1>4. copy = [c \in Containers |-> Gone] /\ guarded = {} /\ reading = {}
  BY <1>3 DEF Init, copy, guarded, reading
<1>5. watched = [s \in Syncs |-> Copy!Unwatched]
  BY DEF Init, watched, Copy!Unwatched
<1> QED BY <1>2, <1>4, <1>5 DEF Copy!Init

(* What leaves the rows, Docker and the synchronisations alone is no step. *)
LEMMA RowsShow ==
  ASSUME UNCHANGED <<targets, members, issues>>
  PROVE  UNCHANGED <<copy, guarded>>
BY DEF copy, guarded, ShownOf, Present

LEMMA NoStep ==
  ASSUME UNCHANGED <<docker, targets, members, issues, since>>,
         \A s \in Syncs : pc'[s] = "idle" <=> pc[s] = "idle"
  PROVE  UNCHANGED Copy!vars
<1>1. UNCHANGED <<truth, watched, reading>>
  BY DEF truth, watched, reading
<1> QED BY <1>1, RowsShow DEF Copy!vars

LEMMA EndLeaves ==
  ASSUME SyncTypes, NEW s \in Syncs, pc[s] # "idle", Ends(s)
  PROVE  Copy!Leave(s)
<1>1. s \in reading /\ reading' = reading \ {s}
  BY DEF Ends, SyncTypes, reading
<1>2. \A q \in Syncs : since'[q] = IF q = s THEN [c \in Containers |-> {}] ELSE since[q]
  BY DEF Ends, SyncTypes
<1>3. watched' = [watched EXCEPT ![s] = Copy!Unwatched]
  <2> DEFINE Of(S) == [c \in Containers |-> {Visible(x) : x \in S[c]}]
  <2>1. watched = [q \in Syncs |-> Of(since[q])] /\ watched' = [q \in Syncs |-> Of(since'[q])]
    BY DEF watched
  <2>2. Of(since'[s]) = Copy!Unwatched
    <3>1. since'[s] = [c \in Containers |-> {}]
      BY <1>2
    <3>2. \A c \in Containers : {Visible(x) : x \in since'[s][c]} = {}
      BY <3>1
    <3> QED BY <3>2 DEF Copy!Unwatched
  <2>3. \A q \in Syncs \ {s} : Of(since'[q]) = Of(since[q])
    BY <1>2
  <2> HIDE DEF Of
  <2> QED BY <2>1, <2>2, <2>3
<1> QED BY <1>1, <1>3 DEF Copy!Leave

LEMMA EndGivesUp ==
  ASSUME SyncTypes, NEW s \in Syncs, pc[s] # "idle", Ends(s),
         UNCHANGED <<docker, targets, members, issues>>
  PROVE  Copy!GiveUp(s)
<1>1. UNCHANGED truth
  BY DEF truth
<1> QED BY <1>1, EndLeaves, RowsShow DEF Copy!GiveUp

LEMMA ReceiveMaps ==
  ASSUME SyncTypes, NEW s \in Syncs, pc[s] # "idle", NEW id, NEW resources,
         Receive(s, id, resources),
         UNCHANGED <<docker, targets, members, issues>>
  PROVE  Copy!GiveUp(s) \/ UNCHANGED Copy!vars
<1>1. CASE Ends(s)
  BY <1>1, EndGivesUp
<1>2. CASE UNCHANGED since /\ \E place \in {"paging", "apply"} :
             pc' = [pc EXCEPT ![s] = place]
  BY <1>2, NoStep DEF SyncTypes
<1> QED BY <1>1, <1>2 DEF Receive

LEMMA BeginMaps ==
  ASSUME SyncTypes, NEW s \in Syncs, Begin(s)
  PROVE  Copy!Begin(s)
<1>1. s \notin reading /\ reading' = reading \cup {s}
  BY DEF Begin, SyncTypes, reading
<1>2. \A q \in Syncs :
        since'[q] = IF q = s THEN [c \in Containers |-> {docker[c]}] ELSE since[q]
  BY DEF Begin, SyncTypes
<1>3. \A c \in Containers : {Visible(x) : x \in {docker[c]}} = {Visible(docker[c])}
  OBVIOUS
<1>4. watched' = [watched EXCEPT ![s] = [c \in Containers |-> {truth[c]}]]
  <2> DEFINE Of(S) == [c \in Containers |-> {Visible(x) : x \in S[c]}]
  <2>1. watched = [q \in Syncs |-> Of(since[q])] /\ watched' = [q \in Syncs |-> Of(since'[q])]
    BY DEF watched
  <2>2. Of(since'[s]) = [c \in Containers |-> {truth[c]}]
    <3>1. since'[s] = [c \in Containers |-> {docker[c]}]
      BY <1>2
    <3>2. \A c \in Containers : {Visible(x) : x \in since'[s][c]} = {truth[c]}
      BY <1>3, <3>1 DEF truth
    <3> QED BY <3>2
  <2>3. \A q \in Syncs \ {s} : Of(since'[q]) = Of(since[q])
    BY <1>2
  <2> HIDE DEF Of
  <2> QED BY <2>1, <2>2, <2>3
<1>5. UNCHANGED <<truth, copy, guarded>>
  BY RowsShow DEF Begin, rows, truth
<1> QED BY <1>1, <1>4, <1>5 DEF Copy!Begin

LEMMA ChangeMaps ==
  ASSUME SyncTypes, StoreTypes, NEW c \in Containers, NEW new \in Seen \cup {Gone},
         Change(c, new)
  PROVE  Copy!Change(c)
<1> USE Constants
<1>1. docker' = [docker EXCEPT ![c] = new] /\ new # docker[c] /\ docker[c] # Gone
      /\ (docker[c] \in Seen \/ new # Gone)
  BY DEF Change
<1>2. docker[c] \in Seen \cup {Unborn, Gone}
  BY DEF StoreTypes
<1>3. Visible(new) = new /\ truth[c] # new
  BY <1>1, <1>2, VisibleSeen DEF truth, Visible
<1>4. truth' = [truth EXCEPT ![c] = new] /\ truth'[c] = new
  BY <1>1, <1>3 DEF truth, StoreTypes
<1>5. reading' = reading /\ UNCHANGED <<copy, guarded>>
  BY RowsShow DEF Change, rows, reading
<1>6. ASSUME NEW q \in Syncs
      PROVE  watched'[q] = IF q \in reading THEN [watched[q] EXCEPT ![c] = @ \cup {new}]
                                            ELSE watched[q]
  <2>1. CASE pc[q] = "idle"
    <3>1. since'[q] = since[q]
      BY <2>1 DEF Change
    <3> QED BY <2>1, <3>1 DEF watched, reading
  <2>2. CASE pc[q] # "idle"
    <3>1. since'[q] = [since[q] EXCEPT ![c] = @ \cup {new}]
      BY <2>2 DEF Change
    <3>2. \A d \in Containers :
            since'[q][d] = IF d = c THEN since[q][c] \cup {new} ELSE since[q][d]
      BY <3>1 DEF SyncTypes
    <3>3. {Visible(x) : x \in since[q][c] \cup {new}}
            = {Visible(x) : x \in since[q][c]} \cup {new}
      BY <1>3
    <3>4. \A d \in Containers : watched'[q][d] =
            IF d = c THEN watched[q][c] \cup {new} ELSE watched[q][d]
      BY <3>2, <3>3 DEF watched
    <3> QED BY <2>2, <3>4 DEF watched, reading
  <2> QED BY <2>1, <2>2
<1>7. watched' = [q \in Syncs |->
                    IF q \in reading THEN [watched[q] EXCEPT ![c] = @ \cup {new}]
                                     ELSE watched[q]]
  BY <1>6 DEF watched
<1> QED BY <1>3, <1>4, <1>5, <1>7 DEF Copy!Change

(* The transaction: never refused, it writes all that was read, or nothing. *)
LEMMA ApplyMaps ==
  ASSUME SyncInv, RowsAgree', NEW s \in Syncs, Apply(s)
  PROVE  Copy!Write(s)
<1>1. Reading /\ Writing
  BY SplitTypes DEF SyncInv, Reading, Writing
<1>2. Copy!Leave(s)
  BY <1>1, EndLeaves DEF Apply, Reading
<1>3. copy' \in Copy!Shows /\ \A c \in Containers : copy'[c] \in watched[s][c]
  BY ApplyShows DEF copy, watched, Copy!Shows
<1>4. guarded' \in SUBSET Targets /\ guarded \subseteq guarded'
  BY <1>1, StepApply DEF Stronger, guarded
<1>5. UNCHANGED truth
  BY DEF Apply, truth
<1> QED BY <1>2, <1>3, <1>4, <1>5 DEF Copy!Write

(* What an administrator writes shows nothing and protects nothing more. *)
LEMMA WriteMaps ==
  ASSUME SyncInv, NEW t \in Targets,
         CreateTarget(t) \/ \E policy \in Policies : UpdatePolicy(t, policy)
  PROVE  UNCHANGED Copy!vars
<1>1. UNCHANGED <<docker, members, issues, since, pc>>
  BY DEF CreateTarget, UpdatePolicy, Write, syncs
<1>2. targets \in [Targets -> TargetRow \cup {NoRow}]
  BY DEF SyncInv, TypeOK
<1>3. ASSUME NEW u \in Targets
      PROVE  /\ Present(targets'[u]) <=> Present(targets[u])
             /\ Present(targets[u]) => targets'[u].shown = targets[u].shown
             /\ targets'[u] # NoRow /\ targets'[u].forced
                  <=> targets[u] # NoRow /\ targets[u].forced
  <2>1. CASE CreateTarget(t)
    <3>1. targets' = [targets EXCEPT ![t] = NewTarget] /\ targets[t] = NoRow
      BY <2>1 DEF CreateTarget, Write
    <3> QED BY <1>2, <3>1 DEF NewTarget, Present
  <2>2. ASSUME NEW policy \in Policies, UpdatePolicy(t, policy)
        PROVE  /\ Present(targets'[u]) <=> Present(targets[u])
               /\ Present(targets[u]) => targets'[u].shown = targets[u].shown
               /\ targets'[u] # NoRow /\ targets'[u].forced
                    <=> targets[u] # NoRow /\ targets[u].forced
    <3>1. /\ targets' = [targets EXCEPT ![t] = [targets[t] EXCEPT !.policy = policy]]
          /\ targets[t] # NoRow
      BY <2>2 DEF UpdatePolicy, Write
    <3>2. targets[t] \in TargetRow
      BY <1>2, <3>1
    <3> DEFINE row == [targets[t] EXCEPT !.policy = policy]
    <3>3. /\ row \in TargetRow /\ row.present = targets[t].present
          /\ row.shown = targets[t].shown /\ row.forced = targets[t].forced
      BY <3>2 DEF TargetRow
    <3>4. row # NoRow
      BY <3>3, RowAssumption
    <3>5. targets'[t] = row /\ (u # t => targets'[u] = targets[u])
      BY <1>2, <3>1
    <3> HIDE DEF row
    <3> QED BY <3>1, <3>3, <3>4, <3>5 DEF Present
  <2> QED BY <2>1, <2>2
<1>4. \A c \in Containers : ShownOf(c)' = ShownOf(c)
  BY <1>1, <1>3 DEF ShownOf, Targets, Present
<1>5. UNCHANGED <<truth, reading, watched, copy, guarded>>
  BY <1>1, <1>3, <1>4 DEF truth, reading, watched, copy, guarded
<1> QED BY <1>5 DEF Copy!vars

LEMMA CopyStep ==
  ASSUME SyncInv, RowsAgree', [Next]_vars
  PROVE  [Copy!Next]_(Copy!vars)
<1>0. SyncTypes /\ StoreTypes /\ ReadInv
  BY SplitTypes DEF SyncInv
<1>1. ASSUME NEW s \in Syncs, Begin(s) PROVE Copy!Next
  BY <1>0, <1>1, BeginMaps DEF Copy!Next
<1>2. ASSUME NEW s \in Syncs, FirstPage(s) PROVE UNCHANGED Copy!vars
  BY <1>0, <1>2, NoStep DEF FirstPage, rows, SyncTypes
<1>3. ASSUME NEW s \in Syncs, NextPage(s) PROVE [Copy!Next]_(Copy!vars)
  <2>1. pc[s] # "idle" /\ UNCHANGED <<docker, targets, members, issues>>
    BY <1>3 DEF NextPage, rows
  <2>2. Ends(s) \/ Receive(s, snap[s], taken[snap[s]])
    BY <1>3 DEF NextPage, Expired
  <2> QED BY <1>0, <2>1, <2>2, EndGivesUp, ReceiveMaps DEF Copy!Next
<1>4. ASSUME NEW s \in Syncs, Apply(s) PROVE Copy!Next
  BY <1>4, ApplyMaps DEF Copy!Next
<1>5. ASSUME NEW s \in Syncs, Fails(s) PROVE Copy!Next
  BY <1>0, <1>5, EndGivesUp DEF Fails, rows, Copy!Next
<1>6. CASE Inspect \/ OtherClient
  BY <1>6, NoStep DEF Inspect, OtherClient, rows, syncs
<1>7. CASE Take \/ ListFails \/ Restart
  <2>1. UNCHANGED <<docker, targets, members, issues>>
    BY <1>7 DEF Take, ListFails, Restart, rows
  <2>2. CASE lister \in Syncs
    <3>1. pc[lister] # "idle"
      BY <1>0, <2>2 DEF ReadInv, Reads
    <3>2. Ends(lister) \/ \E id, resources : Receive(lister, id, resources)
      BY <1>7, <2>2 DEF Take, ListFails, Restart
    <3> QED BY <1>0, <2>1, <2>2, <3>1, <3>2, EndGivesUp, ReceiveMaps DEF Copy!Next
  <2>3. CASE lister \notin Syncs
    <3>1. UNCHANGED syncs
      BY <1>7, <2>3 DEF Take, ListFails, Restart
    <3> QED BY <2>1, <3>1, NoStep DEF syncs
  <2> QED BY <2>2, <2>3
<1>8. ASSUME NEW c \in Containers, NEW new \in Seen \cup {Gone}, Change(c, new)
      PROVE  Copy!Next
  BY <1>0, <1>8, ChangeMaps DEF Copy!Next
<1>9. ASSUME NEW t \in Targets,
             CreateTarget(t) \/ \E policy \in Policies : UpdatePolicy(t, policy)
      PROVE  UNCHANGED Copy!vars
  BY <1>9, WriteMaps
<1>10. CASE UNCHANGED vars
  BY <1>10, NoStep DEF vars, rows, syncs
<1> QED
  BY <1>1, <1>2, <1>3, <1>4, <1>5, <1>6, <1>7, <1>8, <1>9, <1>10
     DEF Next, SyncStep, AgentStep

(* Seen from the tables, listings, snapshots, pages, restarts and transactions are
   one copy that is written in one step by whoever has read it whole. *)
THEOREM SyncImplementsCopy == Spec => CopySpec
<1>1. SyncInv /\ RowsAgree' /\ [Next]_vars => [Copy!Next]_(Copy!vars)
  BY CopyStep
<1> QED
  BY <1>1, CopyInit, SyncInvariant, RowsOfSource, PTL DEF Spec, CopySpec, Copy!Spec

-----------------------------------------------------------------------------
(* What a Compose project is said to be in: the rules of ComposeState overlap,
   and only their order makes the answer mean something. *)

(* A container whose state and health are both known. *)
Clear(m) == m.state \notin Unclear /\ m.health # "unknown"

(* A clear container is stopped or active. *)
LEMMA ClearIsStoppedOrActive ==
  ASSUME NEW m \in Observations, Clear(m)
  PROVE  m.state \in Stopped \/ m.state \in {"running", "restarting", "paused"}
  BY DEF Observations, ContainerStates, Clear, Unclear, Stopped

(* A project is said to run only if it has a container and each of them runs and
   is neither starting nor unhealthy (aggregate_compose_state). *)
THEOREM RunningMeansAllRun ==
  ASSUME NEW M \in SUBSET Observations, AggregateState(M) = "running"
  PROVE  /\ M # {}
         /\ \A m \in M : /\ m.state = "running"
                         /\ m.health \in {"none", "healthy"}
<1>1. /\ StatesOf(M) = {"running"}
      /\ HealthsOf(M) \cap {"unknown", "unhealthy", "starting"} = {}
  BY DEF AggregateState
<1>2. M # {}
  BY <1>1 DEF StatesOf
<1>3. ASSUME NEW m \in M PROVE m.state = "running" /\ m.health \in {"none", "healthy"}
  <2>1. m.state \in StatesOf(M) /\ m.health \in HealthsOf(M)
    BY DEF StatesOf, HealthsOf
  <2>2. m.health \in Healths
    BY DEF Observations
  <2> QED BY <1>1, <2>1, <2>2 DEF Healths
<1> QED BY <1>2, <1>3

(* A project is said to be stopped only if none of its containers is active. *)
THEOREM StoppedMeansNoneActive ==
  ASSUME NEW M \in SUBSET Observations, AggregateState(M) = "stopped"
  PROVE  \A m \in M : m.state \notin Active
<1>1. StatesOf(M) \subseteq Stopped
  BY DEF AggregateState
<1>2. \A m \in M : m.state \in StatesOf(M)
  BY DEF StatesOf
<1> QED BY <1>1, <1>2 DEF Stopped, Active

(* The answer "unknown" is given exactly when there is no container, or one of
   them is unclear: the last line of aggregate_compose_state is never reached. *)
THEOREM UnknownMeansUnclear ==
  ASSUME NEW M \in SUBSET Observations
  PROVE  AggregateState(M) = "unknown"
           <=> M = {} \/ \E m \in M : ~Clear(m)
<1> DEFINE states == StatesOf(M)
           healths == HealthsOf(M)
<1>1. \A m \in M : m.state \in states /\ m.health \in healths
  BY DEF StatesOf, HealthsOf
<1>2. \A x \in states : \E m \in M : m.state = x
  BY DEF StatesOf
<1>3. \A x \in healths : \E m \in M : m.health = x
  BY DEF HealthsOf
<1>4. (states = {}) <=> (M = {})
  BY <1>1, <1>2
<1>5. (states \cap Unclear # {} \/ "unknown" \in healths) <=> \E m \in M : ~Clear(m)
  BY <1>1, <1>2, <1>3 DEF Clear
<1>6. CASE M = {} \/ \E m \in M : ~Clear(m)
  BY <1>4, <1>5, <1>6 DEF AggregateState
<1>7. CASE M # {} /\ \A m \in M : Clear(m)
  <2>1. \A x \in states : x \in Stopped \/ x \in {"running", "restarting", "paused"}
    BY <1>2, <1>7, ClearIsStoppedOrActive
  <2> HIDE DEF states, healths
  <2>2. CASE states \subseteq Stopped
    BY <1>4, <1>5, <1>7, <2>2 DEF AggregateState, states, healths
  <2>3. CASE ~(states \subseteq Stopped) /\ states \cap Stopped # {}
    <3>1. states \cap Active # {}
      BY <2>1, <2>3 DEF Active
    <3> QED BY <1>4, <1>5, <1>7, <2>3, <3>1 DEF AggregateState, states, healths
  <2>4. CASE states \cap Stopped = {}
    <3>1. states # {} /\ ("paused" \in states \/ "restarting" \in states \/ states = {"running"})
      BY <1>4, <1>7, <2>1, <2>4
    <3>2. ~(states \subseteq Stopped)
      BY <2>4, <3>1
    <3> QED BY <1>4, <1>5, <1>7, <2>4, <3>1, <3>2 DEF AggregateState, states, healths
  <2> QED BY <2>2, <2>3, <2>4
<1> QED BY <1>6, <1>7

(* A project shown as running or as stopped is one on which a start, or a stop,
   has nothing left to do (aggregate_compose_state, _desired_state_observed). *)
THEOREM ShownIsObserved ==
  ASSUME NEW M \in SUBSET Observations
  PROVE  /\ AggregateState(M) = "running" => DesiredStateObserved(M, "start")
         /\ AggregateState(M) = "stopped" => DesiredStateObserved(M, "stop")
<1>1. ASSUME AggregateState(M) = "running" PROVE DesiredStateObserved(M, "start")
  <2>1. M # {} /\ \A m \in M : m.state = "running"
    BY <1>1, RunningMeansAllRun
  <2> QED BY <2>1 DEF DesiredStateObserved, Goal, StatesOf
<1>2. ASSUME AggregateState(M) = "stopped" PROVE DesiredStateObserved(M, "stop")
  <2>1. StatesOf(M) # {} /\ StatesOf(M) \subseteq Stopped
    BY <1>2 DEF AggregateState
  <2>2. M # {}
    BY <2>1 DEF StatesOf
  <2> QED BY <2>1, <2>2 DEF DesiredStateObserved, Goal
<1> QED BY <1>1, <1>2

(* No containers satisfy both actions: of a start and a stop that follow each
   other on unchanged containers, one is sent (_desired_state_observed). *)
THEOREM GoalsExclude ==
  ASSUME NEW M \in SUBSET Observations
  PROVE  ~(DesiredStateObserved(M, "start") /\ DesiredStateObserved(M, "stop"))
<1>1. M # {} => StatesOf(M) # {}
  BY DEF StatesOf
<1> QED BY <1>1 DEF DesiredStateObserved, Goal, Stopped

(* The action looks at states only, the project's state also at health. When every
   health is known, a project that a stop left as asked is shown stopped; one that
   a start left as asked is shown running, or starting, or degraded, as its health
   checks say: an action may succeed on a project that is shown degraded. *)
THEOREM ObservedIsShown ==
  ASSUME NEW M \in SUBSET Observations, "unknown" \notin HealthsOf(M)
  PROVE  /\ DesiredStateObserved(M, "stop") => AggregateState(M) = "stopped"
         /\ DesiredStateObserved(M, "start") =>
              AggregateState(M) =
                IF "unhealthy" \in HealthsOf(M) THEN "degraded"
                ELSE IF "starting" \in HealthsOf(M) THEN "starting" ELSE "running"
<1>1. M # {} => StatesOf(M) # {}
  BY DEF StatesOf
<1>2. ASSUME DesiredStateObserved(M, "stop") PROVE AggregateState(M) = "stopped"
  <2>1. StatesOf(M) # {} /\ StatesOf(M) \subseteq Stopped
    BY <1>1, <1>2 DEF DesiredStateObserved, Goal
  <2>2. StatesOf(M) \cap Unclear = {}
    BY <2>1 DEF Stopped, Unclear
  <2> QED BY <2>1, <2>2 DEF AggregateState
<1>3. ASSUME DesiredStateObserved(M, "start")
      PROVE  AggregateState(M) =
               IF "unhealthy" \in HealthsOf(M) THEN "degraded"
               ELSE IF "starting" \in HealthsOf(M) THEN "starting" ELSE "running"
  <2>1. StatesOf(M) = {"running"}
    BY <1>1, <1>3 DEF DesiredStateObserved, Goal
  <2> QED BY <2>1 DEF AggregateState, Unclear, Stopped
<1> QED BY <1>2, <1>3
=============================================================================
