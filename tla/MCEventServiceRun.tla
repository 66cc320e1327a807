--------------------------- MODULE MCEventServiceRun ---------------------------
(* Instances of EventServiceRun for TLC. *)
EXTENDS EventServiceRun

(* A conversation asks for slots for its runs and for its creation. *)
Owners == {"run", "create"} \X Conversation
================================================================================
