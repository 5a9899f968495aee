----------------------------- MODULE FreshCache -----------------------------
(***************************************************************************)
(* What a cache with times to live promises: under each key it shows what  *)
(* the source has said of that very key, not earlier than Lag before it    *)
(* was stored, and it shows it as long as the source's answer allows and    *)
(* no longer.  A client may be able to go past it, which empties the key.  *)
(***************************************************************************)
EXTENDS Integers

CONSTANTS Keys,
          TTLs,      \* the times to live that an answer of some time may have
          Lag,
          Forced,    \* whether a client can go past the cache
          NoEntry

VARIABLES now, held

vars == <<now, held>>

Init == now = 0 /\ held = [k \in Keys |-> NoEntry]

\* What was heard of k at some time within the last Lag.
Store(k) == /\ \E ago \in 0..Lag :
                   /\ ago <= now
                   /\ \E ttl \in TTLs[now - ago] :
                          held' = [held EXCEPT ![k] = [of |-> k, at |-> now - ago, until |-> now + ttl]]
            /\ UNCHANGED now

Invalidate(k) == /\ Forced
                 /\ held' = [held EXCEPT ![k] = NoEntry]
                 /\ UNCHANGED now

Tick == /\ now' = now + 1
        /\ held' = [k \in Keys |-> IF held[k] # NoEntry /\ held[k].until <= now + 1
                                     THEN NoEntry ELSE held[k]]

Next == Tick \/ \E k \in Keys : Store(k) \/ Invalidate(k)

Spec == Init /\ [][Next]_vars
=============================================================================
