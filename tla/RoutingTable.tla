----------------------------- MODULE RoutingTable -----------------------------
(***************************************************************************)
(* What the receive controller promises the routers, without caches,       *)
(* conflicts, failures or restarts: a table of hashrings that only changes *)
(* for the better.  The user states which rings there are to be; the       *)
(* operator takes that as its plan, starts the rings of the plan, routes to*)
(* a ring once enough of its members serve, keeps routing to it as it was  *)
(* while they do not, withdraws a ring from the table only when the plan   *)
(* has dropped it, and retires a ring only when nothing routes to it.      *)
(***************************************************************************)
EXTENDS Integers, FiniteSets

CONSTANTS Rings, MaxReplicas

VARIABLES
    wanted,  \* members the user asks for, 0: no such ring
    busy,    \* the operator is carrying out a plan
    plan,    \* ... the wish it is carrying out
    table,   \* members routed to, {}: ring not routed to
    running  \* the rings with a workload behind them

promise == <<wanted, busy, plan, table, running>>

Members == 0 .. MaxReplicas - 1
Wish    == [Rings -> 0 .. MaxReplicas]

Init ==
    /\ wanted \in Wish /\ plan \in Wish
    /\ busy = FALSE
    /\ table = [h \in Rings |-> {}]
    /\ running = {}

Ask  == wanted' \in Wish /\ UNCHANGED <<busy, plan, table, running>>

Take == /\ ~busy /\ busy' = TRUE /\ plan' = wanted
        /\ UNCHANGED <<wanted, table, running>>

Rest == /\ busy /\ busy' = FALSE /\ plan' \in Wish
        /\ UNCHANGED <<wanted, table, running>>

Start == /\ busy
         /\ \E new \in SUBSET {h \in Rings : plan[h] > 0} : running' = running \cup new
         /\ UNCHANGED <<wanted, busy, plan, table>>

\* What the table may say of ring h next.  A ring enters an empty table only
\* complete; afterwards it may be one member short.
Routable(h, members) ==
    \/ plan[h] > 0 /\ members = table[h]
    \/ plan[h] > 0 /\ members # {} /\ Cardinality(members) >= plan[h]
    \/ /\ plan[h] > 0 /\ members # {} /\ Cardinality(members) = plan[h] - 1
       /\ \E g \in Rings : table[g] # {}
    \/ plan[h] = 0 /\ members = {}

Route == /\ busy
         /\ table' \in [Rings -> SUBSET Members]
         /\ \A h \in Rings : Routable(h, table'[h])
         /\ UNCHANGED <<wanted, busy, plan, running>>

Retire == /\ busy
          /\ \E old \in SUBSET {h \in Rings : plan[h] = 0 /\ table[h] = {}} :
               running' = running \ old
          /\ UNCHANGED <<wanted, busy, plan, table>>

Next == Ask \/ Take \/ Rest \/ Start \/ Route \/ Retire

Spec == Init /\ [][Next]_promise
===============================================================================
