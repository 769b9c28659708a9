----------------------------- MODULE MCJobQueue -----------------------------
(* Small instances of JobQueue for TLC. *)
EXTENDS JobQueue, TLC

CONSTANTS s1, s2, s3, t1, t2, c1

SameConnection == [t \in Targets |-> c1]

(* Three services to start, one of them on a target, another of them free to
   be bound to a second target behind the same Agent at any time, and neither
   synchronisation nor cancellation: each quota can be the one that binds. *)
QuotaInit ==
  /\ Init
  /\ svc = [s \in Services |-> "off"]
  /\ bound = [s \in Services |-> IF s = s1 THEN t1 ELSE NoTarget]

(* One start per service, and no request gives up: a request without a job
   does not count against a quota. *)
OneStartEach ==
  /\ \A r \in Requests : ask[r].action = "start"
  /\ \A q, r \in Requests :
       ask[q].service = ask[r].service => q = r \/ "idle" \in {pc[q], pc[r]}
  /\ \A r \in Requests : pc[r] = "done" => status[r] # "none"

QuotaNext ==
  /\ Next
  /\ OneStartEach'
  /\ UNCHANGED pilotable
  /\ \A a \in Admins : admin'[a].op # "cancel"
  /\ \A s \in Services : bound'[s] # bound[s] => s = s2

QuotaSpec == QuotaInit /\ [][QuotaNext]_vars

(* Every service can be started first, and stopped only then. *)
LifeInit == Init /\ svc = [s \in Services |-> "off"]

LifeSpec == LifeInit /\ [][Next]_vars /\ Fairness

(* No property of the run of the quotas names an instance. *)
Symmetry == Permutations(Instances)
=============================================================================
