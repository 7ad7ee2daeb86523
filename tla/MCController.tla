----------------------------- MODULE MCController -----------------------------
(* Small instances of ChainController: two chains and what Processor delegates. *)
EXTENDS ChainController

CONSTANTS a, b

Exchange1 == [id |-> "exchange", kind |-> "exchange", chain |-> a, peer |-> b]
Interrupt1 == [id |-> "interrupt", kind |-> "interrupt", chain |-> a, peer |-> a]
Stats1 == [id |-> "stats", kind |-> "stats", chain |-> a, peer |-> a]

\* What Processor delegates in a run.
ExchangeAndInterrupt == {{Exchange1, Interrupt1}}
ExchangeOnly == {{Exchange1}}
InterruptAndStats == {{Interrupt1, Stats1}}
Any == ExchangeAndInterrupt \cup InterruptAndStats
=============================================================================
