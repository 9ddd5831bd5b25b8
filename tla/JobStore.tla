------------------------------ MODULE JobStore ------------------------------
(***************************************************************************)
(* The Redis job store of orchestrator-svc (services/orchestrator/app/     *)
(* store.py).  The operators below are the server side of one Redis        *)
(* command each; the handlers that issue them, and what can happen between *)
(* two commands, are in module Orchestrator.                               *)
(*                                                                         *)
(* A job hash is its status field and the set of the other fields that     *)
(* matter here: the creation fields (written together, abbreviated by      *)
(* "job_id"), "incident_id" and "error".                                   *)
(***************************************************************************)
EXTENDS Naturals, Sequences, FiniteSets

CONSTANTS Jobs,       \* job ids; a smaller number is an earlier created_at
          Streams     \* connections of GET /jobs/{id}/stream

ASSUME JobsAssumption == Jobs \subseteq Nat /\ Jobs # {}

VARIABLES status,     \* status field of job:{id}; "absent": no such key
          fields,     \* the other fields of the hash
          expiring,   \* jobs whose key has a TTL
          queue,      \* ids in the list job:queue
          inbox,      \* pub/sub messages buffered for each stream
          spc,        \* where the stream's generator is
          sjob        \* the job a stream watches

storeVars == <<status, fields, expiring, queue>>
pubsubVars == <<inbox, spc, sjob>>

Stages == {"collecting", "processing", "llm_call", "persisting"}
Terminal == {"done", "failed"}
Events == Stages \cup Terminal
Statuses == Events \cup {"queued", "absent"}
Fields == {"job_id", "incident_id", "error"}
StreamStates == {"idle", "opened", "subscribed", "live", "closed"}

StoreTypeOK ==
    /\ status \in [Jobs -> Statuses]
    /\ fields \in [Jobs -> SUBSET Fields]
    /\ expiring \subseteq Jobs
    /\ queue \subseteq Jobs
    /\ inbox \in [Streams -> Seq(Events)]
    /\ spc \in [Streams -> StreamStates]
    /\ sjob \in [Streams -> Jobs]

AnyJob == CHOOSE j \in Jobs : TRUE

StoreInit ==
    /\ status = [j \in Jobs |-> "absent"]
    /\ fields = [j \in Jobs |-> {}]
    /\ expiring = {}
    /\ queue = {}
    /\ inbox = [s \in Streams |-> <<>>]
    /\ spc = [s \in Streams |-> "idle"]
    /\ sjob = [s \in Streams |-> AnyJob]

-----------------------------------------------------------------------------
(* Commands.  HSET creates a missing key, so a status write to a key that  *)
(* was evicted leaves a hash without creation fields and without a TTL.    *)

HsetCreate(j) ==
    /\ status' = [status EXCEPT ![j] = "queued"]
    /\ fields' = [fields EXCEPT ![j] = @ \cup {"job_id"}]

SetExpiry(j) ==
    expiring' = IF status[j] = "absent" THEN expiring ELSE expiring \cup {j}

Lpush(j) == queue' = queue \cup {j}

FieldsWith(st) ==
    CASE st = "done" -> {"incident_id"}
      [] st = "failed" -> {"error"}
      [] OTHER -> {}

HsetStatus(j, st) ==
    /\ status' = [status EXCEPT ![j] = st]
    /\ fields' = [fields EXCEPT ![j] = @ \cup FieldsWith(st)]

Subscribed(s, j) == sjob[s] = j /\ spc[s] \in {"subscribed", "live"}

Publish(j, e) ==
    inbox' = [s \in Streams |->
                 IF Subscribed(s, j) THEN Append(inbox[s], e) ELSE inbox[s]]

(* Expiry of the 24 h TTL, or eviction under allkeys-lru. *)
RemoveKey(j) ==
    /\ status' = [status EXCEPT ![j] = "absent"]
    /\ fields' = [fields EXCEPT ![j] = {}]
    /\ expiring' = expiring \ {j}

-----------------------------------------------------------------------------
(* Reads.  A hash without its creation fields exists but cannot be turned  *)
(* into a JobState: get and list raise KeyError.                           *)

Stored(j) == status[j] # "absent"
Readable(j) == Stored(j) /\ "job_id" \in fields[j]
Listable == \A j \in Jobs : Stored(j) => Readable(j)

(* The first page of list(limit): the newest stored jobs. *)
Newest(limit) ==
    {j \in Jobs : /\ Stored(j)
                  /\ Cardinality({i \in Jobs : Stored(i) /\ i > j}) < limit}
=============================================================================
