--------------------------- MODULE AbstractUpload ---------------------------
(***************************************************************************)
(* What the warehouse upload job promises of one upload, whatever the     *)
(* failures, retries, lost writes and restarts on the way: its stages run *)
(* in their order (1 = generate the upload schema, ..., NumStages =       *)
(* export the data), a stage only once the stage before it has completed  *)
(* since the upload schema was last generated; the upload is recorded as  *)
(* exported only by the last stage, and exported and aborted are final.   *)
(***************************************************************************)
EXTENDS Naturals

CONSTANT NumStages

VARIABLES
    done,      \* stages completed since the upload schema was last generated
    exported,  \* the upload is recorded as exported
    aborted    \* the upload is recorded as aborted

avars == <<done, exported, aborted>>

Final == exported \/ aborted

Init == done = {} /\ exported = FALSE /\ aborted = FALSE

\* Stage i completes.  Generating the schema starts the stage sequence
\* afresh; the last stage may record the upload as exported.
Perform(i) ==
    /\ ~Final
    /\ i = 1 \/ i - 1 \in done
    /\ done' = IF i = 1 THEN {1} ELSE done \cup {i}
    /\ exported' \in {exported, i = NumStages}
    /\ UNCHANGED aborted

\* The upload is given up.
Abort ==
    /\ ~Final
    /\ aborted' = TRUE
    /\ UNCHANGED <<done, exported>>

Next == (\E i \in 1..NumStages : Perform(i)) \/ Abort

Spec == Init /\ [][Next]_avars
====
