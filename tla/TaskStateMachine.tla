--------------------------- MODULE TaskStateMachine ---------------------------
(***************************************************************************)
(* The status/stage tables of domain/task_state_machine.py.  The module    *)
(* holds no state: the application services consult CanTransition before   *)
(* they write a QueryTask row (only task_service.py and                     *)
(* query_execution_service.py do; semantic_task_service.py writes the pair *)
(* it wants).                                                              *)
(***************************************************************************)

\* The lifecycle statuses of QueryTaskStatus.
Status == {"RUNNING", "WAITING_USER", "SUCCEEDED", "FAILED", "CANCELLED", "EXPIRED"}

\* The processing stages of QueryTaskStage.
Stage ==
  {"INTENT_ROUTING", "SLOT_EXTRACTION", "ENTITY_RESOLUTION", "VALIDATION",
   "CLARIFICATION", "LOGICAL_DSL", "QUERY_SPEC", "PLANNING", "EXECUTION",
   "RESULT_FORMATTING"}

\* _STATUS_TRANSITIONS: statuses with no successor are terminal.
StatusSuccessors ==
  [s \in Status |->
     CASE s = "RUNNING" ->
            {"WAITING_USER", "SUCCEEDED", "FAILED", "CANCELLED", "EXPIRED"}
       [] s = "WAITING_USER" -> {"RUNNING", "CANCELLED", "EXPIRED"}
       [] OTHER -> {}]

TerminalStatus == {"SUCCEEDED", "FAILED", "CANCELLED", "EXPIRED"}

\* _STAGE_TRANSITIONS.
StageSuccessors ==
  [s \in Stage |->
     CASE s = "INTENT_ROUTING" ->
            {"SLOT_EXTRACTION", "VALIDATION", "CLARIFICATION", "LOGICAL_DSL",
             "RESULT_FORMATTING"}
       [] s = "SLOT_EXTRACTION" ->
            {"ENTITY_RESOLUTION", "VALIDATION", "CLARIFICATION", "LOGICAL_DSL"}
       [] s = "ENTITY_RESOLUTION" -> {"VALIDATION", "CLARIFICATION"}
       [] s = "VALIDATION" -> {"CLARIFICATION", "LOGICAL_DSL"}
       [] s = "CLARIFICATION" ->
            {"SLOT_EXTRACTION", "ENTITY_RESOLUTION", "VALIDATION", "LOGICAL_DSL"}
       [] s = "LOGICAL_DSL" -> {"PLANNING", "EXECUTION"}
       [] s = "QUERY_SPEC" -> {"PLANNING"}
       [] s = "PLANNING" -> {"EXECUTION", "CLARIFICATION"}
       [] s = "EXECUTION" -> {"RESULT_FORMATTING"}
       [] s = "RESULT_FORMATTING" -> {}]

\* QueryTaskStateMachine.require_transition: keeping a status or a stage is
\* always allowed, waiting is tied to the CLARIFICATION stage on both ends.
CanTransition(status, stage, nextStatus, nextStage) ==
  /\ status \in Status /\ stage \in Stage
  /\ nextStatus = status \/ nextStatus \in StatusSuccessors[status]
  /\ nextStage = stage \/ nextStage \in StageSuccessors[stage]
  /\ nextStatus = "WAITING_USER" => nextStage = "CLARIFICATION"
  /\ (status = "WAITING_USER" /\ nextStatus = "RUNNING") => stage = "CLARIFICATION"
===============================================================================
