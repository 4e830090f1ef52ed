------------------------ MODULE MCTelemetryPipeline ------------------------
(* Small instances of TelemetryPipeline for TLC: a message of two          *)
(* properties, whose kind is that of its topic, an empty event, and one    *)
(* with a property without a name.  The time they may carry is too far     *)
(* ahead at first, then as far as may be.                                  *)
EXTENDS TelemetryPipeline

CONSTANTS temperature, mode

MCContents == {[kind |-> None, data |-> {temperature, mode}],
               [kind |-> "event", data |-> {}],
               [kind |-> "attribute_change", data |-> {mode, Blank}]}
MCTopics == {"attributes"}
MCStamps == {2}
=============================================================================
