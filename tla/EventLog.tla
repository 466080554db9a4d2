------------------------------ MODULE EventLog ------------------------------
(***************************************************************************)
(* What the event stream of a run promises its clients, without buffer,    *)
(* indices, queues, sentinels and the ways a client can come back.  A run   *)
(* makes events 1, 2, ... on one or more legs, and some of them are kept    *)
(* for a while.  A client is given events in the order they were made.  On  *)
(* the first leg it is given every event that is kept, and it is not        *)
(* dismissed before the run has stopped and it has them all.                *)
(***************************************************************************)
EXTENDS Naturals, Sequences

CONSTANT Clients

VARIABLES
    made,       \* how many events there are
    kept,       \* those that a client who comes back can still be given
    phase,      \* "waiting" to be begun or continued, "running", "over"
    legs,       \* how often it was begun or continued
    stream,     \* of each client: "away", "open", or "ended" by the server
    got         \* what each client was given

vars == <<made, kept, phase, legs, stream, got>>

Init ==
    /\ made = 0 /\ kept = {}
    /\ phase = "waiting" /\ legs = 0
    /\ stream = [c \in Clients |-> "away"]
    /\ got = [c \in Clients |-> <<>>]

FirstLeg == legs <= 1

Has(c, e) == \E i \in DOMAIN got[c] : got[c][i] = e

Make ==
    /\ phase = "running"
    /\ made' = made + 1
    /\ kept' \subseteq kept \cup {made + 1}
    /\ UNCHANGED <<phase, legs, stream, got>>

(* Not while the clients of the first leg still read. *)
Forget ==
    /\ FirstLeg => phase # "running"
    /\ kept' \subseteq kept
    /\ UNCHANGED <<made, phase, legs, stream, got>>

Stop ==
    /\ phase = "running" /\ phase' \in {"waiting", "over"}
    /\ UNCHANGED <<made, kept, legs, stream, got>>

(* A client begins the run, or continues it. *)
Go(c) ==
    /\ phase = "waiting" /\ phase' = "running"
    /\ legs' = legs + 1
    /\ stream[c] # "open" /\ stream' = [stream EXCEPT ![c] = "open"]
    /\ UNCHANGED <<made, kept, got>>

Return(c) ==
    /\ legs > 0
    /\ stream[c] # "open" /\ stream' = [stream EXCEPT ![c] = "open"]
    /\ UNCHANGED <<made, kept, phase, legs, got>>

Give(c, e) ==
    /\ stream[c] = "open" /\ e \in 1..made
    /\ \A i \in DOMAIN got[c] : got[c][i] < e
    /\ FirstLeg => \A k \in kept : k < e => Has(c, k)
    /\ got' = [got EXCEPT ![c] = Append(@, e)]
    /\ UNCHANGED <<made, kept, phase, legs, stream>>

Dismiss(c) ==
    /\ stream[c] = "open" /\ stream' = [stream EXCEPT ![c] = "ended"]
    /\ FirstLeg => phase # "running" /\ \A k \in kept : Has(c, k)
    /\ UNCHANGED <<made, kept, phase, legs, got>>

(* The client is gone, or was answered without a stream. *)
Leave(c) ==
    /\ stream' = [stream EXCEPT ![c] = "away"]
    /\ UNCHANGED <<made, kept, phase, legs, got>>

Next ==
    \/ Make \/ Forget \/ Stop
    \/ \E c \in Clients :
          \/ Go(c) \/ Return(c) \/ Dismiss(c) \/ Leave(c)
          \/ \E e \in 1..made : Give(c, e)

Spec == Init /\ [][Next]_vars
=============================================================================
