------------------------ MODULE MCAnalyticsReports ------------------------
(***************************************************************************)
(* A small instance of AnalyticsReports for TLC: a minute of two ticks, a  *)
(* day of four.                                                            *)
(***************************************************************************)
EXTENDS AnalyticsReports

MCVisits == {[address |-> <<"v1", 1>>, ua |-> "mobile"],
             [address |-> <<"v1", 2>>, ua |-> "mobile"],
             [address |-> <<"v2", 1>>, ua |-> "desktop"],
             [address |-> <<"v2", 1>>, ua |-> "bot"]}
MCSize == [g \in Granularities |-> IF g = "1m" THEN 2 ELSE 4]
MCMaxSpan == [g \in Granularities |-> IF g = "1m" THEN 2 ELSE 8]
MCDuration == [w \in Windows |-> IF w = "all" THEN 0 ELSE 3]

=============================================================================
