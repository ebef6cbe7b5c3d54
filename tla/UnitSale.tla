------------------------------ MODULE UnitSale ------------------------------
(***************************************************************************)
(* What the sales operations promise about units and consumers, without    *)
(* stages, documents or tables: a deal holds its unit and its consumer     *)
(* from the booking until it is closed or handed over, and a deal that has *)
(* been sold can only be handed over.                                      *)
(***************************************************************************)
CONSTANTS Case, Unit, Consumer, None

VARIABLE deal       \* per case: its phase, unit and consumer

Phase == { "NONE", "OPEN", "SOLD", "HANDED_OVER", "CLOSED" }
NoDeal == [phase |-> "NONE", unit |-> None, consumer |-> None]

Holding(c) == deal[c].phase \in {"OPEN", "SOLD"}
UnitFree(u, others) == \A c \in others : Holding(c) => deal[c].unit # u
ConsumerFree(k, others) == \A c \in others : Holding(c) => deal[c].consumer # k

Init == deal = [c \in Case |-> NoDeal]

Opened(u, k) == [phase |-> "OPEN", unit |-> u, consumer |-> k]

Open(c, u, k) ==
    /\ deal[c].phase = "NONE"
    /\ UnitFree(u, Case) /\ ConsumerFree(k, Case)
    /\ deal' = [deal EXCEPT ![c] = Opened(u, k)]

Close(c) ==
    /\ deal[c].phase = "OPEN"
    /\ deal' = [deal EXCEPT ![c].phase = "CLOSED"]

\* The consumer keeps the deal, on another unit and under a new case.
Move(c, n, u) ==
    /\ deal[c].phase = "OPEN" /\ deal[n].phase = "NONE"
    /\ UnitFree(u, Case)
    /\ deal' = [deal EXCEPT ![c].phase = "CLOSED", ![n] = Opened(u, deal[c].consumer)]

Sell(c) ==
    /\ deal[c].phase = "OPEN"
    /\ deal' = [deal EXCEPT ![c].phase = "SOLD"]

HandOver(c) ==
    /\ deal[c].phase = "SOLD"
    /\ deal' = [deal EXCEPT ![c].phase = "HANDED_OVER"]

Next ==
    \/ \E c \in Case, u \in Unit, k \in Consumer : Open(c, u, k)
    \/ \E c \in Case : Close(c) \/ Sell(c) \/ HandOver(c)
    \/ \E c, n \in Case, u \in Unit : Move(c, n, u)

Spec == Init /\ [][Next]_deal

\* Two deals never hold the same unit or the same consumer.
HeldOnce ==
    \A c, d \in Case : (c # d /\ Holding(c) /\ Holding(d)) =>
        deal[c].unit # deal[d].unit /\ deal[c].consumer # deal[d].consumer

=============================================================================
