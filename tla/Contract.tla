------------------------------ MODULE Contract ------------------------------
(***************************************************************************)
(* The callbacks to Mission Control and the JSON schema each has to fit, or *)
(* it is not sent.                                                          *)
(*                                                                          *)
(* A JSON object is a function from the properties it has to the JSON types *)
(* of their values.  A property whose value is `undefined` is one it has:   *)
(* it is looked up with `key in record`.                                    *)
(***************************************************************************)

\* How a worker may end: the statuses of a WorkerResult.
Outcomes == {"normal", "error", "cancelled", "timeout", "blocked"}

-----------------------------------------------------------------------------
(* The schema *)

Texts    == {"string", "null"}
Counts   == {"integer", "null"}
Objects  == {"object", "null"}

UsageKeys == {"input_tokens", "output_tokens", "total_tokens"}

\* executionCallbackPayloadSchemaJson: for an object the properties it must have,
\* whether it may have others than those listed, and the types of those.
PayloadSchema ==
    [required |-> {"status"}, closed |-> TRUE,
     types |-> [key \in {"status", "external_run_id", "workspace_path", "branch_name", "pr_url",
                         "summary", "error_message", "issue_identifier", "completion_kind",
                         "duration_ms", "result_payload"} |->
                   CASE key = "status"         -> {"string"}
                     [] key = "duration_ms"    -> Counts
                     [] key = "result_payload" -> Objects
                     [] OTHER                  -> Texts]]

ResultSchema ==
    [required |-> {}, closed |-> FALSE,
     types |-> [key \in {"issue_identifier", "completion_kind", "failure_reason", "block_reason",
                         "cancel_reason", "stall_reason", "last_event", "last_message",
                         "session_id", "turn_count", "duration_ms", "usage"} |->
                   CASE key \in {"turn_count", "duration_ms"} -> Counts
                     [] key = "usage"                         -> Objects
                     [] OTHER                                 -> Texts]]

UsageSchema ==
    [required |-> {}, closed |-> TRUE, types |-> [key \in UsageKeys |-> Counts]]

Statuses == {"queued", "dispatching", "running", "succeeded", "failed", "cancelled", "blocked"}

\* validateObject, and validateNode for each property.
Fits(object, schema) ==
    /\ schema.required \subseteq DOMAIN object
    /\ schema.closed => DOMAIN object \subseteq DOMAIN schema.types
    /\ \A key \in DOMAIN object \cap DOMAIN schema.types : object[key] \in schema.types[key]

-----------------------------------------------------------------------------
(* The payloads *)

\* The object with these properties, some of them undefined.  A text the entry has
\* not recorded yet is null; `blank` tells whether that is so.
JsonObject(keys, undefined, blank) ==
    [key \in keys |->
        CASE key \in undefined -> "undefined"
          [] key \in UsageKeys \cup {"turn_count", "duration_ms"} -> "integer"
          [] key \in {"result_payload", "usage"} -> "object"
          [] blank /\ key \in {"last_event", "last_message", "session_id"} -> "null"
          [] OTHER -> "string"]

CommonKeys == {"status", "external_run_id", "workspace_path", "branch_name", "summary",
               "issue_identifier", "duration_ms", "result_payload"}

\* missionControlResultPayload.
EntryKeys == {"issue_identifier", "last_event", "last_message", "session_id", "turn_count",
              "duration_ms"}

ReasonKeys == {"failure_reason", "block_reason", "cancel_reason", "stall_reason"}

\* The reasons that do not apply to an outcome are there, as undefined.
NoReason(outcome) ==
    {key \in ReasonKeys :
        CASE key = "failure_reason" -> outcome \notin {"error", "timeout"}
          [] key = "block_reason"   -> outcome # "blocked"
          [] key = "cancel_reason"  -> outcome # "cancelled"
          [] key = "stall_reason"   -> outcome # "timeout"}

Status(outcome) == CASE outcome = "normal"                  -> "succeeded"
                     [] outcome \in {"cancelled", "blocked"} -> outcome
                     [] outcome \in {"error", "timeout"}     -> "failed"

FinalPayload(outcome) ==
    IF outcome = "normal"
    THEN JsonObject(CommonKeys \cup {"completion_kind"}, {}, FALSE)
    ELSE JsonObject(CommonKeys \cup {"completion_kind", "error_message"},
                    IF outcome \in {"error", "timeout"} THEN {} ELSE {"error_message"}, FALSE)

FinalResult(outcome, blank) ==
    IF outcome = "normal"
    THEN JsonObject(EntryKeys \cup {"completion_kind", "usage"}, {}, blank)
    ELSE JsonObject(EntryKeys \cup ReasonKeys \cup {"completion_kind", "usage"},
                    NoReason(outcome), blank)

\* sendMissionControlCallback sends a payload that fits its schema and drops any
\* other.  These outcomes are reported, whatever the entry has recorded.
Reported ==
    {outcome \in Outcomes :
        /\ Status(outcome) \in Statuses
        /\ Fits(FinalPayload(outcome), PayloadSchema)
        /\ \A blank \in BOOLEAN : Fits(FinalResult(outcome, blank), ResultSchema)
        /\ Fits(JsonObject(UsageKeys, {}, FALSE), UsageSchema)}

\* So are the events of a worker under way, with and without token counts.
RunningReported ==
    /\ "running" \in Statuses
    /\ Fits(JsonObject(CommonKeys, {}, FALSE), PayloadSchema)
    /\ \A blank \in BOOLEAN :
          /\ Fits(JsonObject(EntryKeys, {}, blank), ResultSchema)
          /\ Fits(JsonObject(EntryKeys \cup {"usage"}, {}, blank), ResultSchema)
    /\ Fits(JsonObject(UsageKeys, {}, FALSE), UsageSchema)
=============================================================================
