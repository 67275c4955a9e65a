---------------------------- MODULE BatchDelivery -----------------------------
(***************************************************************************)
(* What an engine of batches promises the sinks it feeds.  Records come in *)
(* batches that share none, one batch at a time.  A batch is attempted     *)
(* until one attempt ends by itself, and is then closed for good.  An      *)
(* attempt picks what each sink is to have among the records that can be   *)
(* read, adds only that, one sink at a time, and ends by itself only when  *)
(* every sink has all of it or its failure was noticed.  An attempt that   *)
(* is cut off leaves what it wrote; the next one starts afresh.            *)
(***************************************************************************)
EXTENDS Naturals

CONSTANTS Record,   \* what the source may ever hold
          Sink,     \* the stores that the records go to
          Required, \* for each sink, what is always picked if it can be read
          Allowed   \* for each sink, what may be picked

VARIABLES gone,    \* the records that cannot be read
          open,    \* the batch in progress, {} if there is none
          closed,  \* the records of the batches that were closed
          active,  \* whether an attempt is under way
          attempt, \* the number of the last attempt
          wanted,  \* for each sink, what the attempt under way has picked
          failed,  \* for each sink, whether a failure was noticed in it
          copies   \* for each sink, the <<attempt, record>> pairs it has taken

batch == <<open, closed>>
vars  == <<gone, batch, active, attempt, wanted, failed, copies>>

Nothing == wanted = [s \in Sink |-> {}] /\ failed = [s \in Sink |-> FALSE]

Init == /\ gone \subseteq Record
        /\ open = {} /\ closed = {}
        /\ ~active /\ attempt = 0 /\ Nothing
        /\ copies = [s \in Sink |-> {}]

Lose == /\ gone \subseteq gone' /\ gone' \subseteq Record
        /\ UNCHANGED <<batch, active, attempt, wanted, failed, copies>>

Open == /\ open = {}
        /\ open' # {} /\ open' \subseteq Record \ closed
        /\ UNCHANGED <<gone, closed, active, attempt, wanted, failed, copies>>

Begin == /\ open # {} /\ ~active /\ active'
         /\ attempt' = attempt + 1
         /\ \A s \in Sink : /\ (open \ gone) \cap Required[s] \subseteq wanted'[s]
                            /\ wanted'[s] \subseteq (open \ gone) \cap Allowed[s]
         /\ UNCHANGED <<gone, batch, failed, copies>>

\* A call to sink s adds some of what is wanted, or all, and may fail.
Write(s) ==
    /\ active
    /\ copies[s] \subseteq copies'[s]
    /\ copies'[s] \ copies[s] \subseteq {attempt} \X wanted[s]
    /\ failed[s] => failed'[s]
    /\ \A t \in Sink \ {s} : copies'[t] = copies[t] /\ failed'[t] = failed[t]
    /\ UNCHANGED <<gone, batch, active, attempt, wanted>>

\* The attempt fails for all sinks, before or after it wrote to them.
GiveUp == /\ active
          /\ failed' = [s \in Sink |-> TRUE]
          /\ UNCHANGED <<gone, batch, active, attempt, wanted, copies>>

Abort == /\ active /\ ~active' /\ Nothing'
         /\ UNCHANGED <<gone, batch, attempt, copies>>

Close == /\ active /\ ~active' /\ Nothing'
         /\ \A s \in Sink : failed[s] \/ {attempt} \X wanted[s] \subseteq copies[s]
         /\ closed' = closed \cup open /\ open' = {}
         /\ UNCHANGED <<gone, attempt, copies>>

Next == Lose \/ Open \/ Begin \/ (\E s \in Sink : Write(s)) \/ GiveUp \/ Abort \/ Close

Spec == Init /\ [][Next]_vars

===============================================================================
