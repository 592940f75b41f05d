----------------------------- MODULE WorkerLease -----------------------------
(***************************************************************************)
(* What the ownership protocol of cmd/queuelabrun promises about one       *)
(* machine: it is leased to at most one transaction, a lease an operator   *)
(* breaks bars the machine until nobody relies on it, and a machine that   *)
(* is replaced under its name starts unleased.                             *)
(***************************************************************************)
CONSTANTS Tx,    \* the transactions that may take the worker
          None   \* no holder

VARIABLES holder,  \* the transaction the machine is leased to
          barred,  \* an operator broke a lease and has not lifted the bar
          using    \* the transactions that rely on this machine being theirs

lvars == <<holder, barred, using>>

LInit == holder = None /\ barred = FALSE /\ using = {}

Take(t) == /\ holder = None /\ ~barred
           /\ holder' = t
           /\ UNCHANGED <<barred, using>>

Use(t) == /\ holder = t /\ using = {}
          /\ using' = {t}
          /\ UNCHANGED <<holder, barred>>

Stop(t) == /\ t \in using
           /\ using' = using \ {t}
           /\ UNCHANGED <<holder, barred>>

GiveBack(t) == /\ holder = t /\ t \notin using
               /\ holder' = None
               /\ UNCHANGED <<barred, using>>

(* A broken lease leaves the machine barred, not free: its holder may live. *)
Break == /\ ~barred
         /\ holder' = None /\ barred' = TRUE
         /\ UNCHANGED using

Unbar == /\ barred /\ using = {}
         /\ barred' = FALSE
         /\ UNCHANGED <<holder, using>>

Replace == holder' = None /\ barred' = FALSE /\ using' = {}

LNext == \/ \E t \in Tx : Take(t) \/ Use(t) \/ Stop(t) \/ GiveBack(t)
         \/ Break \/ Unbar \/ Replace

LSpec == LInit /\ [][LNext]_lvars
==============================================================================
