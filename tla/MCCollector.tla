---------------------------- MODULE MCCollector ----------------------------
(* A small instance of Collector for TLC, whose integers have 32 bits: a microsecond of *)
(* the model has two nanoseconds, and the latencies lie around the ends of the ranges.  *)
EXTENDS Collector

us(n) == n * kNsPerUs
MCLatencies == {us(0) + 1, us(1000), us(100000) - 1, us(100999), us(10000000) + 1, us(30000000)}
=============================================================================
