--------------------------- MODULE MCWorkflowRuns ---------------------------
(* Instances of WorkflowRuns for TLC. *)
EXTENDS WorkflowRuns

(* All settings without timeout that make a difference, where a step with a   *)
(* human before or after it pauses on errors, too; and some with a timeout.   *)
MCSettings ==
    {s \in [before : {"none", "confirm", "input"}, review : BOOLEAN, onReject : OnReject,
            onError : {"fail", "skip", "pause"}, onTimeout : {"never"}] :
        /\ s.before # "confirm" /\ ~s.review => s.onReject = "skip"
        /\ s.before = "confirm" \/ s.review => s.onError = "pause"}
    \cup [before : {"confirm"}, review : {TRUE}, onReject : {"retry"}, onError : {"pause"},
          onTimeout : {"approve", "skip", "cancel"}]
=============================================================================
