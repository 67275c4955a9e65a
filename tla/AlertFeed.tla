------------------------------ MODULE AlertFeed ------------------------------
(***************************************************************************)
(* What the live alert feed promises its subscribers: alerts are published *)
(* one at a time, and a subscriber that joins sees every alert published   *)
(* from then until it leaves, in order, none twice and none skipped.  The  *)
(* feed runs in lockstep: no alert is published while a subscriber has yet *)
(* to see the previous one.                                                *)
(***************************************************************************)
EXTENDS Naturals, Sequences

CONSTANTS Client, \* the subscriptions; one that left does not come back
          Alert   \* what is published

VARIABLES feed,  \* the alerts published so far, in order
          sub,   \* "out", "in" or "gone", for each client
          start, \* how long the feed was when the client joined
          seen   \* the alerts the client has been sent

vars == <<feed, sub, start, seen>>

Init == /\ feed = <<>>
        /\ sub = [c \in Client |-> "out"]
        /\ start = [c \in Client |-> 0]
        /\ seen = [c \in Client |-> <<>>]

UpToDate(c) == start[c] + Len(seen[c]) = Len(feed)

Join(c) == /\ sub[c] = "out"
           /\ sub' = [sub EXCEPT ![c] = "in"]
           /\ start' = [start EXCEPT ![c] = Len(feed)]
           /\ UNCHANGED <<feed, seen>>

\* A client may leave at any moment, several at once when the server dies.
Leave(S) == /\ UNCHANGED <<feed, start, seen>>
            /\ \A c \in S : sub[c] # "gone"
            /\ sub' = [c \in Client |-> IF c \in S THEN "gone" ELSE sub[c]]

Publish(a) == /\ feed' = Append(feed, a)
              /\ \A c \in Client : sub[c] = "in" => UpToDate(c)
              /\ UNCHANGED <<sub, start, seen>>

Deliver(c) == /\ sub[c] = "in" /\ ~UpToDate(c)
              /\ seen' = [seen EXCEPT ![c] =
                             Append(@, feed[start[c] + Len(@) + 1])]
              /\ UNCHANGED <<feed, sub, start>>

Next == \/ \E S \in SUBSET Client : Leave(S)
        \/ \E c \in Client : Join(c) \/ Deliver(c)
        \/ \E a \in Alert : Publish(a)

Spec == Init /\ [][Next]_vars

=============================================================================
