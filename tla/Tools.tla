-------------------------------- MODULE Tools --------------------------------
(***************************************************************************)
(* The tools of the MCP server (packages/mcp/src/tools.ts): which of them  *)
(* operate, which are decided on a version of a report, what they require. *)
(***************************************************************************)
LOCAL Reads(required) == [required |-> required, operates |-> FALSE, versioned |-> FALSE]
LOCAL Operates(required) == [required |-> required, operates |-> TRUE, versioned |-> FALSE]
LOCAL Decides(required) == [required |-> required \cup {"version"}, operates |-> TRUE, versioned |-> TRUE]

Project == {"read_credential", "list_projects", "project_status", "changes_since"}
Finding == {"list_findings", "read_finding", "read_report", "compare_windows", "verify_recovery"}
Captures == {"list_captures", "read_capture", "read_captured_requests", "list_regressions"}
Errors == {"read_history", "list_errors", "read_error"}
ErrorTriage == {"resolve_error", "ignore_error", "unignore_error", "annotate_error"}
Decisions == {"close_finding", "accept_reference", "assess_hypothesis"}
Operations == {"request_capture", "give_feedback", "annotate_finding", "record_regression",
               "silence_alerts", "lift_silence"}

\* What a tool asks for, and how its call is sent.
ReadTool(t) ==
  CASE t \in {"read_credential", "list_projects"} -> Reads({})
    [] t \in {"project_status", "list_findings", "list_errors", "list_captures", "list_regressions"} -> Reads({"project"})
    [] t \in {"read_finding", "read_report", "compare_windows"} -> Reads({"project", "finding"})
    [] t = "changes_since"   -> Reads({"project", "since"})
    [] t = "verify_recovery" -> Reads({"project", "finding", "since"})
    [] t = "read_history"    -> Reads({"project", "from", "to"})
    [] t = "read_error"      -> Reads({"project", "error"})
    [] OTHER                 -> Reads({"project", "capture"})

TriageTool(t) ==
  CASE t = "ignore_error"   -> Operates({"project", "error", "until"})
    [] t = "annotate_error" -> Operates({"project", "error", "note"})
    [] OTHER                -> Operates({"project", "error"})

FindingTool(t) ==
  CASE t = "close_finding"     -> Decides({"project", "finding", "reason", "why"})
    [] t = "accept_reference"  -> Decides({"project", "finding", "why"})
    [] t = "assess_hypothesis" -> Decides({"project", "finding", "hypothesis", "state", "why"})
    [] t = "annotate_finding"  -> Operates({"project", "finding", "note"})
    [] t = "give_feedback"     -> Operates({"project", "finding"})

ProjectTool(t) ==
  CASE t = "request_capture"   -> Operates({"project", "why"})
    [] t = "record_regression" -> Operates({"project", "note"})
    [] t = "silence_alerts"    -> Operates({"project", "scope", "until", "why"})
    [] t = "lift_silence"      -> Operates({"project", "silence"})

ToolNames == Project \cup Finding \cup Captures \cup Errors \cup ErrorTriage \cup Decisions \cup Operations

ToolNamed(t) ==
  CASE t \in Project \cup Finding \cup Captures \cup Errors -> ReadTool(t)
    [] t \in ErrorTriage -> TriageTool(t)
    [] t \in Decisions \cup {"give_feedback", "annotate_finding"} -> FindingTool(t)
    [] OTHER -> ProjectTool(t)
=============================================================================
