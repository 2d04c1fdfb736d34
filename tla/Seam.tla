-------------------------------- MODULE Seam --------------------------------
(***************************************************************************)
(* What the daemon makes of an answer: from the gateway's command, through *)
(* the normalised response and the adapter's DeliveryResult, to the branch *)
(* of the seam and the reason that is written for the attempt.  All of it  *)
(* is a pure function of the answer.  The kinds by which Adapter and       *)
(* Dispatch tell answers apart are defined here as well.                   *)
(*                                                                         *)
(* Of a reference it is told apart whether it is there at all, whether it  *)
(* is hollow (a literal such as "none", or a prefix such as "att-" that is *)
(* made here) or can be verified with the transport.                       *)
(***************************************************************************)
EXTENDS Integers

-----------------------------------------------------------------------------
(* The gateway's command                                                    *)

\* A key of the JSON object: not there, no text or blank; a hollow reference; a
\* real one.  The keys are looked up in this order.
Lookups == 1..4   \* messageId, id, receipt, ref
Found == {"nothing", "hollow", "real"}

\* Words of an error message that are looked for, by what they stand for.
Hints == {"transient", "blocked", "suppressed", "permanent"}

\* The command fails to run or to end in time, ends with a status, prints no JSON
\* object, or prints one.
Replies ==
  {[is |-> "hangs"], [is |-> "noise"]}
    \cup [is : {"failed"}, hints : SUBSET Hints]
    \cup [is : {"object"}, keys : [Lookups -> Found]]

\* The adapter's send function, whatever it is: a normalised response.
Classes == {"success", "transient", "permanent", "blocked", "suppressed", "unknown"}
Strengths == {"accepted", "confirmed", "none"}
Codes == {"text", "empty", "null", "not text"}
Refs == {"real", "hollow", "null", "not text"}
Responses == [class : Classes \cup {"other"}, code : Codes, ref : Refs,
              strength : Strengths \cup {"other"}]

FirstFound(keys, i) == keys[i] # "nothing" /\ \A j \in Lookups : j < i => keys[j] = "nothing"

\* _normalize_gateway_send_response: the first key decides, also if what it has is
\* hollow and another has a real reference.
Normalised(keys) ==
  LET real == \E i \in Lookups : FirstFound(keys, i) /\ keys[i] = "real" IN
  [class |-> "success", code |-> "text", ref |-> IF real THEN "real" ELSE "null",
   strength |-> IF real THEN "confirmed" ELSE "accepted"]

\* _gateway_failure_response: the hints in this order; without one, transient.
FailureClass(hints) ==
  CASE "transient" \in hints -> "transient"
    [] "transient" \notin hints /\ "blocked" \in hints -> "blocked"
    [] hints \cap {"transient", "blocked"} = {} /\ "suppressed" \in hints -> "suppressed"
    [] hints = {"permanent"} -> "permanent"
    [] OTHER -> "transient"
Failure(hints) ==
  [class |-> FailureClass(hints), code |-> "text", ref |-> "null", strength |-> "none"]

\* _send: the response to a reply that gives one.
Responds(reply) == reply.is \in {"failed", "object"}
Response(reply) ==
  IF reply.is = "failed" THEN Failure(reply.hints) ELSE Normalised(reply.keys)

-----------------------------------------------------------------------------
(* The adapter                                                              *)

StatusOfClass(class) ==
  CASE class = "success" -> "DELIVERED"
    [] class = "permanent" -> "FAILED_PERMANENT"
    [] class = "blocked" -> "BLOCKED"
    [] class = "suppressed" -> "SUPPRESSED"
    [] OTHER -> "FAILED_TRANSIENT"

ReasonOfClass(class) ==
  CASE class = "success" -> "DELIVERED_SUCCESS"
    [] class = "permanent" -> "FAILED_PROVIDER_PERMANENT"
    [] class = "blocked" -> "FAILED_CONFIG_INVALID_TARGET"
    [] class = "suppressed" -> "SUPPRESSED_QUIET_HOURS"
    [] OTHER -> "FAILED_PROVIDER_TRANSIENT"

\* _derive_confidence; none for what is not delivered.
Confidence(r) ==
  CASE r.class = "success" /\ r.strength = "confirmed" -> "provider_confirmed"
    [] r.class = "success" /\ r.strength = "accepted" -> "provider_accepted"
    [] OTHER -> "none"

\* _map_provider_response, _validate_result: AdapterContractError for what is no
\* text and for a success without a strength, KeyError for an unknown strength.
MapRaises(r) ==
  \/ r.code = "not text" \/ r.ref = "not text" \/ r.strength = "other"
  \/ r.class = "success" /\ r.strength = "none"

Mapped(r) ==
  [status |-> StatusOfClass(r.class), reason |-> ReasonOfClass(r.class), code |-> r.code,
   ref |-> r.ref, confidence |-> Confidence(r),
   acceptOnly |-> Confidence(r) = "provider_accepted"]

\* _blocked_result
Blocking(reason) ==
  [status |-> "BLOCKED", reason |-> reason, code |-> "null", ref |-> "null",
   confidence |-> "none", acceptOnly |-> FALSE]

\* What a call of the adapter comes to: a result, or none with the kind of the
\* exception.
Returned(result) == [is |-> "result", result |-> result]
BoundaryError == [is |-> "boundary error"]
OtherError == [is |-> "other error"]

\* The send function answered with a response.
AnsweredWith(r) == IF MapRaises(r) THEN OtherError ELSE Returned(Mapped(r))

\* A command that prints no object is a BoundaryFailStopError, one that does not
\* end in time an exception of subprocess.
Answered(reply) ==
  CASE reply.is = "noise" -> BoundaryError
    [] reply.is = "hangs" -> OtherError
    [] OTHER -> AnsweredWith(Response(reply))

-----------------------------------------------------------------------------
(* The seam                                                                 *)

\* _delivered_evidence_ok
EvidenceOk(x) ==
  /\ x.reason = "DELIVERED_SUCCESS"
  /\ x.confidence \in {"provider_confirmed", "provider_accepted"}
  /\ x.code = "text"
  /\ x.ref = "real"

\* _is_weak_evidence_tuple_schema_valid, _is_accept_mode_candidate
WeakTuple(x) ==
  /\ x.status = "DELIVERED" /\ x.reason = "DELIVERED_SUCCESS"
  /\ x.confidence = "provider_accepted" /\ x.acceptOnly
AcceptMode(x) == WeakTuple(x) /\ x.ref # "real"

NoToken == "no token"
SeamTokens == {"DELIVERED_WITHOUT_ADAPTER_RESULT", "FALLBACK_PATH_USED_WITHOUT_FLAG",
               "DISPATCH_ADAPTER_BYPASS_DETECTED"}

\* fail_token as process_candidate sets it after the call.
TokenOf(a) ==
  CASE a.is = "result" /\ EvidenceOk(a.result) -> NoToken
    [] a.is = "boundary error" -> "BOUNDARY_RESPONSE_UNMAPPABLE"
    [] OTHER -> "DELIVERED_WITHOUT_ADAPTER_RESULT"

\* _result_to_mapping_fields, _mapping_fields_valid: every status and confidence
\* that the adapter knows is mapped; the code and the reference must be text.
MappingValid(x) == x.code # "not text" /\ x.ref # "not text"

\* A slip: what is only accepted is judged by its evidence.
BranchStrict(a) ==
  CASE a.is = "result" /\ EvidenceOk(a.result) -> "NONE"
    [] a.is # "result" -> "A"
    [] OTHER -> "B"

\* _classify_post_send_seam
Branch(a) ==
  CASE a.is = "result" /\ (AcceptMode(a.result) \/ EvidenceOk(a.result)) -> "NONE"
    [] a.is # "result" -> "A"
    [] OTHER -> IF MappingValid(a.result) /\ TokenOf(a) \notin SeamTokens THEN "C" ELSE "B"

ReasonOfBranch ==
  [A |-> "FAILED_ADAPTER_RESULT_MISSING", B |-> "FAILED_ADAPTER_RESULT_INVALID",
   C |-> "FAILED_ADAPTER_RESULT_UNMAPPABLE"]

\* adapter_result_valid of a classification.
ClassifiedValid(a) == a.is = "result" /\ Branch(a) \in {"NONE", "C"}

\* _validate_v12_weak_evidence_invariants: a tuple that contradicts itself, or a
\* weak one on a branch.
V12Violated(a) ==
  /\ a.is = "result"
  /\ \/ /\ a.result.status = "DELIVERED" /\ a.result.confidence = "provider_accepted"
        /\ ~a.result.acceptOnly
     \/ WeakTuple(a.result) /\ Branch(a) # "NONE"

\* _validate_errata_invariants
ErrataViolated(a) ==
  \/ Branch(a) = "B" /\ ClassifiedValid(a)
  \/ Branch(a) = "C" /\ ~ClassifiedValid(a)

\* The end of process_candidate: the reason for the attempt, or the RunnerExit
\* that ends the daemon.
SeamGap == "ADAPTER_ALIGNMENT_SEAM_GAP"
Verdict(a) ==
  CASE V12Violated(a) \/ (Branch(a) # "NONE" /\ ErrataViolated(a)) -> SeamGap
    [] ~V12Violated(a) /\ Branch(a) # "NONE" /\ ~ErrataViolated(a) -> ReasonOfBranch[Branch(a)]
    [] OTHER -> IF AcceptMode(a.result) THEN "ACCEPTED_UNVERIFIED" ELSE "DELIVERED_SUCCESS"

-----------------------------------------------------------------------------
(* The four kinds of answers                                                *)

\* DELIVERED with a reference that can be verified, DELIVERED as only accepted
\* without one, any other result, or an exception.
Answers == {"confirmed", "accepted", "refused", "raised"}

KindOf(a) ==
  CASE a.is # "result" -> "raised"
    [] a.is = "result" /\ AcceptMode(a.result) -> "accepted"
    [] a.is = "result" /\ EvidenceOk(a.result) -> "confirmed"
    [] OTHER -> "refused"

\* A slip: what the gateway accepted counts as delivered.
OutcomeTrusting(kind) ==
  CASE kind \in {"confirmed", "accepted"} -> "DELIVERED_SUCCESS"
    [] kind = "refused" -> "FAILED_ADAPTER_RESULT_INVALID"
    [] kind = "raised" -> "FAILED_ADAPTER_RESULT_MISSING"

\* What comes of each kind.
OutcomeOf(kind) ==
  CASE kind = "confirmed" -> "DELIVERED_SUCCESS"
    [] kind = "accepted" -> "ACCEPTED_UNVERIFIED"
    [] kind = "refused" -> "FAILED_ADAPTER_RESULT_INVALID"
    [] kind = "raised" -> "FAILED_ADAPTER_RESULT_MISSING"
=============================================================================
