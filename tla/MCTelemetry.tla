----------------------------- MODULE MCTelemetry -----------------------------
(* Values for the constants of the telemetry runs. *)
EXTENDS TelemetryProperties

BothModes == {"otlp", "ws"}
DataPlane == {"otlp"}
WebSocket == {"ws"}
=============================================================================
