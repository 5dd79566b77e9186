---------------------------- MODULE MCStatsRing ----------------------------
(* Small instances of StatsRing for TLC. *)
EXTENDS StatsRing

MCSamples ==
  { [http_status |-> 200, success |-> TRUE,  error |-> "kNone"],
    [http_status |-> 503, success |-> FALSE, error |-> "kOther"] }

\* One writer goes round its ring and may drop; the other one records a single sample.
MCMaxRecords == <<4, 1>>
=============================================================================
