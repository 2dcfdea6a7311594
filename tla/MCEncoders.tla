----------------------------- MODULE MCEncoders -----------------------------
(***************************************************************************)
(* The binary formats, each with what writes it and what reads it: a       *)
(* behaviour is about the structure of MessagePack buffers, about the      *)
(* bytes of one MessagePack value, about audit contexts, about the         *)
(* security builders, or about control messages on a socket.               *)
(***************************************************************************)
EXTENDS MCMsgpack, MCBuilders, MCAudit, SocketMessage

others == <<auditVars, messageVars>>

MCInit ==
  /\ Init /\ AuditStart /\ MessageInit
  /\ \/ form \in {NoForm} \cup ToWrite \cup ToRead /\ BuildStart({"none"})
     \/ form = NoForm /\ (BuildInit \/ BuildStart({"context", "message"}))
MCNext ==
  \/ subject = "none" /\ form = NoForm /\ Next /\ UNCHANGED <<form, buildVars, others>>
  \/ subject \in {"descriptor", "token"} /\ BuildNext /\ UNCHANGED <<form, vars, others>>
  \/ subject = "context" /\ AuditNext /\ UNCHANGED <<form, vars, buildVars, messageVars>>
  \/ subject = "message" /\ MessageNext /\ UNCHANGED <<form, vars, buildVars, auditVars>>
MCSpec == MCInit /\ [][MCNext]_<<vars, form, buildVars, others>>
=============================================================================
