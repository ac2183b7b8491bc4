---------------------------- MODULE MCEventStreams ---------------------------
(* Instances of EventStreams for TLC. *)
EXTENDS EventStreams

SomeFragments == (0..MaxItems) \X (0..MaxFragments)
SomeReasons == {"stop", "length", "content-filter", "tool-calls", "unknown"}
=============================================================================
