---------------------------- MODULE ReportsStore ----------------------------
(***************************************************************************)
(* reports-svc as the orchestrator uses it (services/reports/app/db.py and *)
(* main.py): the SQLite tables incidents and analysis_jobs, and the HTTP   *)
(* requests on their way to it.  A request stays on the wire until the     *)
(* service has committed it or it is lost, whatever its sender does in the *)
(* meantime: a client-side timeout does not recall it.                     *)
(***************************************************************************)
EXTENDS Naturals

CONSTANT Jobs

VARIABLES wire,      \* requests not yet handled
          row,       \* analysis_jobs.status by job; "none": no row
          linked,    \* jobs whose analysis_jobs.incident_id is not NULL
          report     \* jobs whose incident report is stored

reportsVars == <<wire, row, linked, report>>

(* POST /jobs with a status, or POST /reports. *)
SnapshotKinds == {"queued", "done", "failed"}
Requests == [job : Jobs, kind : SnapshotKinds \cup {"report"}]
Request(j, k) == [job |-> j, kind |-> k]

ReportsTypeOK ==
    /\ wire \subseteq Requests
    /\ row \in [Jobs -> SnapshotKinds \cup {"none"}]
    /\ linked \subseteq Jobs
    /\ report \subseteq Jobs

ReportsInit ==
    /\ wire = {}
    /\ row = [j \in Jobs |-> "none"]
    /\ linked = {}
    /\ report = {}

Send(j, k) == wire' = wire \cup {Request(j, k)}

(* Mutant: INSERT OR IGNORE, which keeps the first status. *)
UpsertKeepingStatus(m) ==
    /\ m.kind \in SnapshotKinds
    /\ row' = [row EXCEPT ![m.job] = IF @ = "none" THEN m.kind ELSE @]
    /\ linked' = IF m.kind = "done" THEN linked \cup {m.job} ELSE linked
    /\ UNCHANGED report

(* Mutant: incident_id = excluded.incident_id, without COALESCE, and a     *)
(* "done" snapshot that carries none.                                      *)
UpsertLosingLink(m) ==
    /\ m.kind \in SnapshotKinds
    /\ row' = [row EXCEPT ![m.job] = m.kind]
    /\ linked' = linked \ {m.job}
    /\ UNCHANGED report

(* upsert_job: the status is overwritten, incident_id is kept (COALESCE);  *)
(* only a "done" snapshot carries an incident_id, whose foreign key must   *)
(* exist.                                                                  *)
UpsertJob(m) ==
    /\ m.kind \in SnapshotKinds
    /\ m.kind = "done" => m.job \in report
    /\ row' = [row EXCEPT ![m.job] = m.kind]
    /\ linked' = IF m.kind = "done" THEN linked \cup {m.job} ELSE linked
    /\ UNCHANGED report

(* save_report: insert the incident and link the job's row, if it exists,  *)
(* in one transaction.                                                     *)
SaveReport(m) ==
    /\ m.kind = "report"
    /\ report' = report \cup {m.job}
    /\ linked' = IF row[m.job] = "none" THEN linked ELSE linked \cup {m.job}
    /\ UNCHANGED row

Serve(m) ==
    /\ m \in wire
    /\ UpsertJob(m) \/ SaveReport(m)
    /\ wire' = wire \ {m}

(* The connection breaks, or the write is refused (for instance because    *)
(* incidents already has the incident_id the provider chose).              *)
Lose(m) ==
    /\ m \in wire
    /\ wire' = wire \ {m}
    /\ UNCHANGED <<row, linked, report>>
=============================================================================
