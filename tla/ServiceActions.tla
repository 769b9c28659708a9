--------------------------- MODULE ServiceActions ---------------------------
(* The two actions of a service and the statuses they lead it through, shared
   by the detailed and the abstract specification of the job queue. *)

Actions       == {"start", "stop"}
ServiceStatus == {"off", "on", "starting", "stopping", "error", "unknown"}
Outcomes      == {"succeeded", "failed", "indeterminate"}

(* request_service_start, request_service_stop: the status an action needs. *)
Required(a) == IF a = "start" THEN "off" ELSE "on"

(* _record_job_started: what the service shows meanwhile. *)
Transitional(a) == IF a = "start" THEN "starting" ELSE "stopping"

(* _final_service_status *)
Final(a, o) ==
  CASE o = "succeeded"     -> IF a = "start" THEN "on" ELSE "off"
    [] o = "indeterminate" -> "unknown"
    [] OTHER               -> "error"
=============================================================================
