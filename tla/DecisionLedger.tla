---------------------------- MODULE DecisionLedger ----------------------------
(***************************************************************************)
(* What the signal journal promises, without processes, transactions or    *)
(* clocks: a signal is emitted, then its decision is written to the ledger *)
(* once and never changed, and an alert refers to a decision that allows   *)
(* alerting.                                                               *)
(***************************************************************************)
CONSTANTS
    Ids,        \* signals
    AlertIds,   \* alerts
    Decisions,  \* decisions the arbiter may take
    Alertable   \* those that allow an alert

VARIABLES
    emitted,    \* signals journaled so far
    ledger,     \* <<signal, decision>> entries
    raised      \* <<alert, signal>> standing alerts

vars == <<emitted, ledger, raised>>

Decided == {e[1] : e \in ledger}

Init == emitted = {} /\ ledger = {} /\ raised = {}

Emit ==
    /\ \E id \in Ids \ emitted : emitted' = emitted \cup {id}
    /\ UNCHANGED <<ledger, raised>>

Decide ==
    /\ \E id \in emitted \ Decided, d \in Decisions : ledger' = ledger \cup {<<id, d>>}
    /\ UNCHANGED <<emitted, raised>>

Raise ==
    /\ \E a \in AlertIds \ {r[1] : r \in raised}, e \in ledger :
          /\ e[2] \in Alertable
          /\ raised' = raised \cup {<<a, e[1]>>}
    /\ UNCHANGED <<emitted, ledger>>

Dismiss ==
    /\ \E r \in raised : raised' = raised \ {r}
    /\ UNCHANGED <<emitted, ledger>>

Next == Emit \/ Decide \/ Raise \/ Dismiss

Spec == Init /\ [][Next]_vars
=============================================================================
