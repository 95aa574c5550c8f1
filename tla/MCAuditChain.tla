----------------------------- MODULE MCAuditChain -----------------------------
(***************************************************************************)
(* Small instances of AuditChain: constants of its runs.                    *)
(***************************************************************************)
EXTENDS AuditChain

CONSTANTS r1, r2, r3  \* requests, each also the payload of its audit event

===============================================================================
