-------------------------- MODULE MCStreamProcessor --------------------------
(***************************************************************************)
(* Small instances of StreamProcessor.  Four records: one whose message    *)
(* does not parse, one whose timestamp does not, one without ground truth. *)
(* What a model flags depends on the rows it was fitted on, so that a      *)
(* restarted driver may score a replayed batch differently.                *)
(***************************************************************************)
EXTENDS StreamProcessor

MCComponent == {"RAS", "APP"}

MCCompOf == [o \in Offset |-> IF o = 2 THEN "APP" ELSE "RAS"]

MCLabel == [o \in Offset |-> CASE o = 1 -> "anomaly" [] o = 3 -> "none"
                               [] OTHER -> "normal"]

\* A model fitted on record 1 flags records 1 and 3, any other one 2 and 3.
MCFlags == [fitted \in SUBSET Offset |->
                IF 1 \in fitted THEN Offset \cap {1, 3} ELSE Offset \cap {2, 3}]

=============================================================================
