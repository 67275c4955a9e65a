--------------------------- MODULE ReliableHandoff ----------------------------
(***************************************************************************)
(* What an agent between a source and a topic promises: it takes lines off *)
(* the source into a durable hold, delivers what it holds at least once,   *)
(* lets go only of what it delivered, and lets the source forget only what *)
(* it holds, has delivered or refuses.  Its crashes change none of that.   *)
(***************************************************************************)
CONSTANT Line  \* everything the source may ever write

VARIABLES written,   \* the lines the source has written
          refused,   \* those of them the agent drops by design
          held,      \* the lines in the durable hold
          delivered, \* the lines delivered at least once
          forgotten  \* the lines the agent will never ask the source for again

vars == <<written, refused, held, delivered, forgotten>>

Init == /\ written = {} /\ refused = {}
        /\ held = {} /\ delivered = {} /\ forgotten = {}

Write == /\ \E new \in SUBSET (Line \ written) :
               /\ written' = written \cup new
               /\ \E bad \in SUBSET new : refused' = refused \cup bad
         /\ UNCHANGED <<held, delivered, forgotten>>

Take == /\ \E l \in written \ (forgotten \cup refused) : held' = held \cup {l}
        /\ UNCHANGED <<written, refused, delivered, forgotten>>

Deliver == /\ \E sent \in SUBSET held : delivered' = delivered \cup sent
           /\ UNCHANGED <<written, refused, held, forgotten>>

Release == /\ \E sent \in SUBSET (held \cap delivered) : held' = held \ sent
           /\ UNCHANGED <<written, refused, delivered, forgotten>>

Forget == /\ \E safe \in SUBSET (held \cup delivered \cup refused) :
               forgotten' = forgotten \cup safe
          /\ UNCHANGED <<written, refused, held, delivered>>

Next == Write \/ Take \/ Deliver \/ Release \/ Forget

Spec == Init /\ [][Next]_vars
=============================================================================
