--------------------------- MODULE FeedbackLabelling ---------------------------
(***************************************************************************)
(* scripts/label_synthetic_feedback.py: sessions that ask the judge for a  *)
(* label of each pair of a dataset, in order, and keep the labels in one   *)
(* JSON file.  A session skips what has a genuine label, stops at its cap  *)
(* of calls or at a spent quota, and rewrites the whole file after every   *)
(* label.  It may be killed at any point; the file is opened, and so       *)
(* emptied, before it is written.  scripts/retry_fallback_pairs.py does    *)
(* the same to the judge's calls of an evaluation, in another file: it     *)
(* asks again for every fallback, and writes once, at the end.             *)
(***************************************************************************)
EXTENDS JudgeCall, Sequences, FiniteSets

CONSTANTS Datasets,  \* the datasets to label, each a sequence of pairs
          max_daily_calls  \* OPENROUTER_MAX_DAILY_CALLS

ASSUME LabelAssumption ==
    /\ \A d \in Datasets : Len(d) \in Nat
    /\ max_daily_calls \in Nat \ {0}

VARIABLES program,   \* "label" for the sessions, "retry" for the other script
          dataset,   \* the pairs, in order
          lstate,    \* where the session is; "idle": there is none
          records,   \* all_records_by_id, by position in the dataset
          position,  \* the pair the loop is at
          attempts,  \* calls_attempted_this_session
          saved,     \* the file
          last,      \* history: the labels the session has to keep
          answered   \* history: the labels the model itself gave

labelVars == <<program, dataset, lstate, records, position, attempts, saved, last, answered>>

LabelStates == {"idle", "choosing", "asking", "recorded", "closing", "saving", "saving_last"}
NoLabels == << >>
Completed(labels) == {p \in DOMAIN labels : ~labels[p].fallback_triggered}

\* Mutant: what has a genuine label is asked for again.
PendingAgain == {p \in position..Len(dataset) : TRUE}

\* Pairs the loop has still to come to and has no genuine label for.
Pending == {p \in position..Len(dataset) : p \notin Completed(records)}
NextPending == CHOOSE p \in Pending : \A q \in Pending : p <= q

\* There is no file yet, which a session takes for an empty one and the other
\* scripts raise for, as they do for one that does not parse.
LabelInit ==
    /\ lstate = "idle"
    /\ records = NoLabels /\ position = 1 /\ attempts = 0
    /\ saved = [readable |-> FALSE, labels |-> NoLabels]
    /\ last = NoLabels /\ answered = {}

\* The file of an evaluation, with a call for each pair, fallbacks among them.
EvaluatedCalls == {l \in [1..Len(dataset) -> [safe : BOOLEAN, fallback_triggered : BOOLEAN]] :
             \A p \in 1..Len(dataset) : l[p].fallback_triggered => ~l[p].safe}

EvaluatedInit ==
    /\ lstate = "idle"
    /\ records = NoLabels /\ position = 1 /\ attempts = 0
    /\ \E labels \in EvaluatedCalls :
          /\ saved = [readable |-> TRUE, labels |-> labels]
          /\ last = labels
          /\ answered = {<<p, labels[p].safe>> : p \in Completed(labels)}

\* What a session reads: a file that does not parse is taken for an empty one.
Loaded(file) == IF file.readable THEN file.labels ELSE NoLabels

SessionStarts ==
    /\ program = "label" /\ lstate = "idle"
    /\ lstate' = "choosing"
    /\ records' = Loaded(saved)
    /\ last' = IF saved.readable THEN saved.labels ELSE NoLabels
    /\ position' = 1 /\ attempts' = 0
    /\ UNCHANGED <<program, dataset, saved, answered, judgeVars>>

AskLabel ==
    /\ program = "label" /\ lstate = "choosing" /\ Pending # {} /\ attempts < max_daily_calls
    /\ JudgeStart
    /\ position' = NextPending
    /\ lstate' = "asking"
    /\ UNCHANGED <<program, dataset, records, attempts, saved, last, answered>>

\* What the judge has said becomes the label of the pair; a fallback is kept
\* as one.
RecordLabel ==
    /\ records' = [p \in DOMAIN records \cup {position} |->
           IF p = position
           THEN [safe |-> verdict.is_safe, fallback_triggered |-> verdict.fallback_triggered]
           ELSE records[p]]
    /\ answered' = IF verdict.fallback_triggered THEN answered
                   ELSE answered \cup {<<position, verdict.is_safe>>}

\* A spent quota stops the session and records nothing; any other fallback is
\* recorded as one and will be asked for again by the next session.
LabelReturned ==
    /\ program = "label" /\ lstate = "asking" /\ JudgeReturn
    /\ attempts' = attempts + 1
    /\ IF verdict.fallback_triggered /\ verdict.names_quota
       THEN lstate' = "closing" /\ UNCHANGED <<records, answered>>
       ELSE lstate' = "recorded" /\ RecordLabel
    /\ UNCHANGED <<program, dataset, position, saved, last>>

\* The loop is over, or the cap is reached.
SessionCloses ==
    /\ program = "label" /\ lstate = "choosing" /\ (Pending = {} \/ attempts >= max_daily_calls)
    /\ lstate' = "closing"
    /\ UNCHANGED <<program, dataset, records, position, attempts, saved, last, answered, judgeVars>>

--------------------------------------------------------------------------------
\* retry_fallback_batch: a file that is missing or does not parse raises.
RetryStarts ==
    /\ program = "retry" /\ lstate = "idle"
    /\ saved.readable /\ saved.labels # NoLabels
    /\ lstate' = "choosing"
    /\ records' = saved.labels
    /\ position' = 1
    /\ UNCHANGED <<program, dataset, attempts, saved, last, answered, judgeVars>>

AskAgain ==
    /\ program = "retry" /\ lstate = "choosing" /\ Pending # {}
    /\ JudgeStart
    /\ position' = NextPending
    /\ lstate' = "asking"
    /\ UNCHANGED <<program, dataset, records, attempts, saved, last, answered>>

\* A spent quota is a fallback like any other, and nothing is saved yet.
RetryReturned ==
    /\ program = "retry" /\ lstate = "asking" /\ JudgeReturn
    /\ RecordLabel
    /\ position' = position + 1
    /\ lstate' = "choosing"
    /\ UNCHANGED <<program, dataset, attempts, saved, last>>

RetryCloses ==
    /\ program = "retry" /\ lstate = "choosing" /\ Pending = {}
    /\ lstate' = "closing"
    /\ UNCHANGED <<program, dataset, records, position, attempts, saved, last, answered, judgeVars>>

--------------------------------------------------------------------------------
\* save_merged_telemetry: the file is emptied, then written.
SaveOpens ==
    /\ lstate \in {"recorded", "closing"}
    /\ lstate' = IF lstate = "recorded" THEN "saving" ELSE "saving_last"
    /\ saved' = [readable |-> FALSE, labels |-> NoLabels]
    /\ UNCHANGED <<program, dataset, records, position, attempts, last, answered, judgeVars>>

SessionEnds ==
    /\ lstate' = "idle"
    /\ records' = NoLabels /\ position' = 1 /\ attempts' = 0

SaveEnds ==
    /\ lstate \in {"saving", "saving_last"}
    /\ saved' = [readable |-> TRUE, labels |-> records]
    /\ last' = records
    /\ IF lstate = "saving"
       THEN lstate' = "choosing" /\ position' = position + 1 /\ UNCHANGED <<records, attempts>>
       ELSE SessionEnds
    /\ UNCHANGED <<program, dataset, answered, judgeVars>>

\* The process is killed: what is in memory is gone, the file stays as it is.
SessionCrashes ==
    /\ lstate # "idle"
    /\ SessionEnds
    /\ JudgeReset
    /\ UNCHANGED <<program, dataset, saved, last, answered, backend>>

LabelNext ==
    \/ SessionStarts \/ AskLabel \/ LabelReturned \/ SessionCloses
    \/ RetryStarts \/ AskAgain \/ RetryReturned \/ RetryCloses
    \/ SaveOpens \/ SaveEnds \/ SessionCrashes
    \/ lstate = "asking" /\ JudgeNext /\ UNCHANGED labelVars

LabelSpec ==
    /\ dataset \in Datasets /\ backend \in Backends
    /\ \/ program = "label" /\ LabelInit
       \/ program = "retry" /\ EvaluatedInit
    /\ JudgeInit
    /\ [][LabelNext]_<<labelVars, judgeVars>>

\* run_phase4_calibration.py, load_combined_data: stubs of failed calls are no
\* evidence, the judge's label is the feedback, and a file that is missing or does
\* not parse stops the calibration.
GenuineFeedback ==
    LET genuine == Completed(saved.labels)
        Position(p) == Cardinality({q \in genuine : q <= p})
        At(i) == CHOOSE p \in genuine : Position(p) = i
    IN [i \in 1..Cardinality(genuine) |-> [dataset[At(i)] EXCEPT !.safe = saved.labels[At(i)].safe]]
--------------------------------------------------------------------------------
\* Neither a session nor a retry loses a genuine label it has found in the file
\* or been given: whatever fallbacks, caps, spent quotas and retries come between, it
\* stays in memory and in each file written, so that labels are only lost by a
\* crash while the file is open; and a genuine label is the model's own answer
\* for its pair, never what a failed call falls back to.
LabelsKept ==
    /\ lstate # "idle" =>
          \A p \in Completed(last) : p \in DOMAIN records /\ records[p] = last[p]
    /\ saved.readable => saved.labels = last
    /\ \A p \in Completed(records) : <<p, records[p].safe>> \in answered
    /\ \A p \in Completed(saved.labels) : <<p, saved.labels[p].safe>> \in answered
================================================================================
