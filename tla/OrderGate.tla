----------------------------- MODULE OrderGate -----------------------------
(* What the risk engine and the OMS promise together, without saying how: an  *)
(* order gets the next number, its terms never change, it is decided at once, *)
(* only an accepted order can be cancelled, and an order is accepted only     *)
(* when the exposure already taken plus its own value stays within equity.    *)
EXTENDS Naturals

CONSTANTS
    Equity,     \* account equity (a natural number), the most it may ever be exposed to
    Values      \* the values (notionals, natural numbers) an order may have

VARIABLES
    issued,     \* how many orders have been numbered
    ledger,     \* order number -> side, value, status
    exposure    \* value of all the buys ever accepted

gateVars == <<issued, ledger, exposure>>

Sides == {"Buy", "Sell"}

Entry == [side: Sides, value: Values, status: {"Accepted", "Rejected", "Cancelled"}]

GateInit ==
    /\ issued = 0
    /\ ledger = [i \in {} |-> 0]
    /\ exposure = 0

Enter(entry) ==
    /\ issued' = issued + 1
    /\ ledger' = [i \in DOMAIN ledger \union {issued + 1} |->
                    IF i = issued + 1 THEN entry ELSE ledger[i]]

Accept(side, value) ==
    /\ exposure + value <= Equity
    /\ Enter([side |-> side, value |-> value, status |-> "Accepted"])
    /\ exposure' = IF side = "Buy" THEN exposure + value ELSE exposure

Refuse(side, value) ==
    /\ Enter([side |-> side, value |-> value, status |-> "Rejected"])
    /\ UNCHANGED exposure

Cancel(i) ==
    /\ ledger[i].status = "Accepted"
    /\ ledger' = [ledger EXCEPT ![i].status = "Cancelled"]
    /\ UNCHANGED <<issued, exposure>>

GateNext ==
    \/ \E side \in Sides, value \in Values : Accept(side, value) \/ Refuse(side, value)
    \/ \E i \in DOMAIN ledger : Cancel(i)

GateSpec == GateInit /\ [][GateNext]_gateVars
=============================================================================
