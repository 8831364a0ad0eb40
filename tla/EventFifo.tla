----------------------------- MODULE EventFifo -----------------------------
(***************************************************************************)
(* What the event queue promises to the hooks and to the trace writer,     *)
(* without its mechanism: a bounded first-in first-out buffer that accepts *)
(* an event or loses it at once, delivers in order, loses only when the    *)
(* buffer is full or its position counter is used up, and counts what it   *)
(* lost.                                                                   *)
(***************************************************************************)
EXTENDS Naturals, Sequences

CONSTANTS Capacity, MaxCount

VARIABLES
    buffer,      \* accepted and not yet consumed, oldest first
    accepted,    \* number of events ever accepted since the last restart
    delivered,   \* events consumed, oldest first
    lost         \* events refused

fifoVars == <<buffer, accepted, delivered, lost>>

Init == buffer = << >> /\ accepted = 0 /\ delivered = << >> /\ lost = 0

Accept ==
    /\ Len(buffer) < Capacity /\ accepted < MaxCount
    /\ accepted' = accepted + 1
    /\ Len(buffer') = Len(buffer) + 1
    /\ SubSeq(buffer', 1, Len(buffer)) = buffer
    /\ UNCHANGED <<delivered, lost>>

Lose ==
    /\ Len(buffer) = Capacity \/ accepted = MaxCount
    /\ lost' = lost + 1
    /\ UNCHANGED <<buffer, accepted, delivered>>

Deliver ==
    /\ buffer # << >>
    /\ delivered' = Append(delivered, Head(buffer))
    /\ buffer' = Tail(buffer)
    /\ UNCHANGED <<accepted, lost>>

\* The owner restarts the queue between two captures.
Restart ==
    /\ buffer' = << >> /\ accepted' = 0 /\ delivered' = << >> /\ lost' = 0

Next == Accept \/ Lose \/ Deliver \/ Restart

Spec == Init /\ [][Next]_fifoVars

============================================================================
