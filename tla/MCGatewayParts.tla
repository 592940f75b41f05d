--------------------------- MODULE MCGatewayParts ---------------------------
(* Instance of RateLimit, StaticCap, GatewayProcess and GatewayRequest for    *)
(* TLC.  The parts share no state (a registry of buckets keyed by tenant, one *)
(* keyed by backend, the process, the locals of one handler), so a behaviour  *)
(* moves one of them and leaves the others at rest.  The two policies were    *)
(* created in the same second, so the name decides between them.  Two clients *)
(* compete for a bucket of four tokens, two are outside the metered           *)
(* population, one can never fit.                                             *)
EXTENDS RateLimit, StaticCap, GatewayProcess, GatewayRequest, TLC
CONSTANTS r1, r2, pa, pb, long, longer, short, premium, huge, b1, b2, b3

MCCreated    == pa :> 1 @@ pb :> 1
MCRank       == pa :> 1 @@ pb :> 2
MCRateLimits == {[rpm |-> 60, burst |-> 1], [rpm |-> 30, burst |-> 2]}
MCTier == [c \in {long, longer, short, huge} |-> "standard"] @@ (premium :> "premium")
MCSize == long :> 2 @@ longer :> 3 @@ short :> 1 @@ premium :> 3 @@ huge :> 5

VARIABLE part    \* what moves in this behaviour

parts == <<part, limitVars, capVars, procVars, reqVars>>

Tenant(A)  == part = "tenant" /\ A /\ UNCHANGED <<part, capVars, procVars, reqVars>>
Backend(A) == part = "backend" /\ A /\ UNCHANGED <<part, limitVars, procVars, reqVars>>
Process(A) == part = "process" /\ A /\ UNCHANGED <<part, limitVars, capVars, reqVars>>
Request(A) == part = "request" /\ A /\ UNCHANGED <<part, limitVars, capVars, procVars>>

PartsInit ==
    /\ LimitInit /\ CapInit /\ ProcInit /\ ReqInit
    /\ part \in {"tenant", "backend", "process", "request"}
    /\ part # "tenant" => policies = [p \in Policies |-> Absent]
    /\ part # "request" => mode = "off"

PartsNext == Tenant(LimitNext) \/ Backend(CapNext) \/ Process(ProcNext) \/ Request(ReqNext)

\* The fairness of CapFairSpec and of ProcFairSpec.
PartsSpec ==
    /\ PartsInit /\ [][PartsNext]_parts
    /\ WF_parts(Backend(CapTick))
    /\ \A c \in Clients :
          /\ WF_parts(Backend(Handle(c)))
          /\ WF_parts(Backend(Again(c) /\ verdict[c] = "input_rate_limit"))
    /\ WF_parts(Process(BeginShutdown)) /\ WF_parts(Process(Deadline))
    /\ WF_parts(Process(ShutdownApi)) /\ WF_parts(Process(Drained))
    /\ WF_parts(Process(StopAdmitter)) /\ WF_parts(Process(MainReturns))
=============================================================================
