------------------------------- MODULE Frames -------------------------------
(***************************************************************************)
(* protocol.ts: which frames the connector takes, and what becomes of one   *)
(* in gateway-ws-client.ts and envelope-router.ts.                          *)
(*                                                                         *)
(* A frame is [type, lacks, payload, sequence]: `lacks` are the fields that *)
(* are missing, empty or no string (all of them if the text is no JSON      *)
(* object); the payload is absent, no object, an object without what its    *)
(* type needs in it, or complete.                                           *)
(***************************************************************************)

Base == {"protocol_version", "type", "message_id", "timestamp"}
Turn == {"agent_id", "session_id", "turn_id", "request_id", "trace_id"}
Connection == {"connection_id", "agent_id"}
Session == {"agent_id", "session_id", "trace_id"}
Fields == Base \cup Turn \cup Connection \cup {"response_id", "in_reply_to"}

(* Per type, the fields its validator requires.                             *)
RequiredFields ==
    [accepted |-> Connection, replaced |-> Connection, rejected |-> {},
     ack |-> {"in_reply_to"}, heartbeat |-> Connection,
     request |-> Turn, interrupt |-> Turn,
     event |-> Turn \cup {"response_id"}, response |-> Turn \cup {"response_id"},
     session_started |-> Session, session_ended |-> Session]
Known == DOMAIN RequiredFields
Types == Known \cup {"error", "unknown"}

NeedsContents == {"accepted", "session_started"}
NeedsPayload == Known \ {"replaced", "rejected", "ack", "heartbeat"}

isEnvelope(f) ==
    /\ f.lacks \cap Base = {}
    /\ f.payload # "other" /\ f.sequence # "invalid"

(* Fault: a request may lack its trace_id.                                  *)
required_Loose(f, type) ==
    f.lacks \cap (IF type = "request" THEN Turn \ {"trace_id"} ELSE RequiredFields[type]) = {}
required(f, type) == f.lacks \cap RequiredFields[type] = {}

(* validateConnectionAccepted, ..., validateAgentRequest, ...               *)
valid(f, type) ==
    /\ isEnvelope(f) /\ f.type = type /\ required(f, type)
    /\ type \in NeedsPayload => f.payload # "none"
    /\ type \in NeedsContents => f.payload = "complete"
    /\ type = "event" => f.sequence = "positive"

-----------------------------------------------------------------------------
(* What becomes of a frame                                                  *)

Served == {"request", "interrupt", "session_started", "session_ended"}

(* EnvelopeRouter.route.                                                    *)
routed(f) ==
    CASE f.type = "ack"            -> IF required(f, "ack") THEN "acknowledged" ELSE "ignored"
      [] f.type = "accepted"       -> "ignored"
      [] f.type = "heartbeat"      -> "answered"
      [] f.type \in {"replaced", "rejected"} -> "closed"
      [] f.type \in Served         -> IF valid(f, f.type) THEN "handled" ELSE "refused"
      [] OTHER                     -> "refused"

(* The message listener: a rejection's payload is read unchecked.           *)
received(f) ==
    CASE ~isEnvelope(f)             -> "ignored"
      [] valid(f, "accepted")       -> "accepted"
      [] valid(f, "rejected")       -> IF f.payload = "none" THEN "throws" ELSE "rejected"
      [] valid(f, "replaced")       -> "closed"
      [] OTHER                      -> routed(f)

-----------------------------------------------------------------------------
(* What is sent for a frame                                                 *)

(* OutboundHandler.sendEvent for a request: its own fields are those of the *)
(* request, the others are the connector's.                                 *)
eventFor(f) == [type |-> "event", lacks |-> f.lacks \cap (Turn \ {"agent_id"}),
                payload |-> "complete", sequence |-> "positive"]

(* The router's acks, in reply to the message_id, and its answers to        *)
(* heartbeats.                                                              *)
ackFor(f) == [type |-> "ack",
              lacks |-> Connection \cup Turn \cup
                        (IF "message_id" \in f.lacks THEN {"in_reply_to"} ELSE {}),
              payload |-> "empty", sequence |-> "none"]
heartbeatResponse == [type |-> "heartbeat", lacks |-> Fields \ Base,
                      payload |-> "empty", sequence |-> "none"]
(* The transport's own heartbeats once it is accepted.                      *)
heartbeatOf(f) == [type |-> "heartbeat", lacks |-> (Fields \ (Base \cup Connection)) \cup
                                               (f.lacks \cap {"connection_id"}),
                   payload |-> "empty", sequence |-> "none"]
=============================================================================
