----------------------------- MODULE TokenQuery -----------------------------
(***************************************************************************)
(* What one token query promises, seen from its invoker: the life cycle of *)
(* a call as spec section 4.6 states it ("not yet dispatched",             *)
(* "dispatched", terminal success or failure) and the nonce discipline of  *)
(* sections 3 and 4.1.                                                     *)
(*                                                                         *)
(*  - A call fails before any exchange (missing parameter, sink that       *)
(*    cannot be opened, entropy failure, unsupported version) with the     *)
(*    fixed failure indicator -1.                                          *)
(*  - Otherwise it sends exactly one request, carrying a nonce never sent  *)
(*    before, and then returns 0, -1 or the device's nonzero status.       *)
(*  - Undefined behaviour may abort the process at any point of a call.    *)
(***************************************************************************)
EXTENDS Integers, Sequences

CONSTANTS MaxCalls, DeviceErrors

VARIABLES
    phase,   \* "idle", "pending", "sent", "done" or "aborted"
    calls,   \* calls started
    sent,    \* nonces carried by the requests sent, in order
    ret      \* value returned by the last call that returned

avars == << phase, calls, sent, ret >>

\* t is s with one nonce appended that is not 0 (no random bytes) and that
\* s does not hold.
FreshAppend(s, t) ==
    /\ Len(t) = Len(s) + 1
    /\ \A i \in 1..Len(s) : t[i] = s[i]
    /\ t[Len(t)] \in Nat \ {0}
    /\ \A i \in 1..Len(s) : s[i] # t[Len(t)]

Init ==
    /\ phase = "idle"
    /\ calls = 0
    /\ sent = << >>
    /\ ret = -1

Start ==
    /\ phase \in {"idle", "done"}
    /\ calls < MaxCalls
    /\ calls' = calls + 1
    /\ phase' = "pending"
    /\ UNCHANGED << sent, ret >>

Refuse ==
    /\ phase = "pending"
    /\ phase' = "done"
    /\ ret' = -1
    /\ UNCHANGED << calls, sent >>

Send ==
    /\ phase = "pending"
    /\ phase' = "sent"
    /\ FreshAppend(sent, sent')
    /\ UNCHANGED << calls, ret >>

Complete ==
    /\ phase = "sent"
    /\ phase' = "done"
    /\ ret' \in {0, -1} \cup DeviceErrors
    /\ UNCHANGED << calls, sent >>

Abort ==
    /\ phase \in {"pending", "sent"}
    /\ phase' = "aborted"
    /\ UNCHANGED << calls, sent, ret >>

Next == Start \/ Refuse \/ Send \/ Complete \/ Abort

Spec == Init /\ [][Next]_avars

=============================================================================
