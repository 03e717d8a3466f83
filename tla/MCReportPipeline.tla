-------------------------- MODULE MCReportPipeline --------------------------
(* Small instances of the report pipeline; the configurations give every    *)
(* constant its value.                                                      *)
EXTENDS ReportPipeline
=============================================================================
