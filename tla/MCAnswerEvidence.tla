-------------------------- MODULE MCAnswerEvidence --------------------------
(***************************************************************************)
(* Instances of AnswerEvidence: each setting is a part of the workflow with *)
(* the endpoints that belong to it, run from the state it starts in.       *)
(***************************************************************************)
EXTENDS AnswerEvidence

Setting(from, endpoints, n, provider, kinds) ==
  [from |-> from, calls |-> endpoints, provider |-> provider, faults |-> kinds,
   clients |-> IF n = 1 THEN {CHOOSE q \in Requests : TRUE} ELSE Requests]

IdentityCalls == {"upload", "confirm_identity", "unmatched"}
MappingCalls == {"upsert_mapping", "confirm_mapping", "finalize_mapping",
                 "create_region", "delete_region", "patch_ignored", "prepare_mapping"}
TextCalls == {"finalize_mapping", "put_transcription", "confirm_transcription",
              "finalize_transcription"}

MCSettings ==
  {Setting("upload", IdentityCalls, 1, FALSE, {}),
   Setting("upload", IdentityCalls, 1, TRUE, {}),
   Setting("upload", {"upload"}, 2, TRUE, {}),
   Setting("upload", {"upload", "confirm_identity"}, 1, TRUE,
           {"crash", "storage", "error"}),
   Setting("identity", MappingCalls \ {"patch_ignored"}, 1, TRUE, {}),
   Setting("identity", MappingCalls \ {"create_region", "delete_region"}, 1, TRUE, {}),
   Setting("identity", {"upsert_mapping", "create_region", "delete_region"}, 2,
           FALSE, {}),
   Setting("mapping", TextCalls \cup {"language", "patch_type", "upsert_mapping",
                                      "confirm_mapping", "evaluate", "get_crop"},
           1, FALSE, {}),
   Setting("mapping", TextCalls \cup {"prepare_transcription", "patch_box",
                                      "confirm_mapping"}, 1, TRUE, {}),
   Setting("mapping", TextCalls, 1, TRUE, {"error"})}
==============================================================================
