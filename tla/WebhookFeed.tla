---------------------------- MODULE WebhookFeed ----------------------------
(***************************************************************************)
(* What the requests of one API process and its webhook worker promise     *)
(* each other (createDelivery, Enqueue and the channel of                  *)
(* internal/usecase/webhook.go).  Rows are committed with their            *)
(* transactions, one after the other; the id of a row goes into the        *)
(* channel after its commit, once at most, or never: the commit was not    *)
(* acknowledged, the channel was full, the process died, or another        *)
(* process committed the row.                                              *)
(*                                                                         *)
(* MoneyMovement implements it on the side of the requests.  Webhooks      *)
(* takes it for its environment: CommitRow, Hand, Take and Die are its     *)
(* CreateDelivery, Enqueue, TakeQueued and Crash, each with all its        *)
(* outcomes (an id that is not handed over, a full channel, a lost         *)
(* channel), seen from one process.                                        *)
(***************************************************************************)
EXTENDS Naturals, Sequences

CONSTANT Capacity   \* of the channel

VARIABLES
    rows,     \* number of deliveries committed; their ids are 1 .. rows
    handing,  \* committed and acknowledged, on the way to Enqueue
    channel

feed == <<rows, handing, channel>>

Init ==
    /\ rows = 0
    /\ handing = {}
    /\ channel = <<>>

CommitRow ==
    /\ rows' = rows + 1
    /\ handing' \in {handing, handing \cup {rows + 1}}
    /\ UNCHANGED channel

\* A full channel drops the id; the request does not wait.
Hand ==
    \E d \in handing :
        /\ handing' = handing \ {d}
        /\ channel' = IF Len(channel) < Capacity THEN Append(channel, d) ELSE channel
        /\ UNCHANGED rows

Take ==
    /\ channel # <<>>
    /\ channel' = Tail(channel)
    /\ UNCHANGED <<rows, handing>>

Die ==
    /\ handing' = {}
    /\ channel' = <<>>
    /\ UNCHANGED rows

Next == CommitRow \/ Hand \/ Take \/ Die

Spec == Init /\ [][Next]_feed
=============================================================================
