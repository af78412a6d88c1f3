------------------------------ MODULE MCTelemetry ------------------------------
(* Two streams where one failed request condemns another, one elsewhere.       *)
EXTENDS Telemetry

CONSTANTS temp, ph

TwoStreams == {temp, ph}
===============================================================================
