---------------------------- MODULE BatchEnrichment ----------------------------
(***************************************************************************)
(* The parallel re-enrichment of a news archive (scripts/deepinfra_runner) *)
(* with its append-only checkpoint: calls that fail for now or for good,   *)
(* the process killed at any moment, also within a write, and the next run *)
(* that goes on from the checkpoint.                                       *)
(***************************************************************************)
EXTENDS Naturals, Sequences, FiniteSets, Functions

CONSTANTS
    NewsIds,            \* ids of the input, numbers in its order
    Concurrency,        \* size of the semaphore
    MaxTries,           \* MAX_RETRIES + 1
    MaxTroubles,        \* bound: failed calls
    MaxKills            \* bound: kills

ASSUME BatchAssumption ==
    /\ NewsIds \subseteq Nat /\ {Concurrency, MaxTries} \subseteq Nat \ {0}
    /\ {MaxTroubles, MaxKills} \subseteq Nat

VARIABLES
    lines,              \* the checkpoint: records of each line, and how the line ends
    waiting, calling,   \* rows before the semaphore; attempts of those inside
    answered,           \* results not written yet
    live, completed,    \* a run is going on; the newest one came to its end
    given,              \* of the current run: given up for now
    asked,              \* history: answers paid for, per id
    troubles, kills

batchVars == <<lines, waiting, calling, answered, live, completed, given, asked, troubles, kills>>

\* A line is read if it is one whole record; a kill leaves it "cut", or "bare" if only the
\* end of the line is missing.
WholeLine(l) == Len(l.recs) = 1 /\ l.ends \in {"whole", "bare"}

\* load_processed_ids: whatever the record says of errors.
Processed == {l.recs[1].id : l \in {x \in Range(lines) : WholeLine(x)}}

Outcomes == {"ok", "terminal"}

Lines == [recs : Seq([id : NewsIds, outcome : Outcomes]), ends : {"whole", "bare", "cut"}]

BatchTypeOK ==
    /\ lines \in Seq(Lines) /\ \A k \in DOMAIN lines : lines[k].recs # <<>>
    /\ calling \in [DOMAIN calling -> 1 .. MaxTries] /\ answered \in [DOMAIN answered -> Outcomes]
    /\ asked \in [NewsIds -> Nat]
    /\ waiting \cup DOMAIN calling \cup DOMAIN answered \cup given \subseteq NewsIds
    /\ waiting \cap (DOMAIN calling \cup DOMAIN answered) = {} /\ DOMAIN calling \cap DOMAIN answered = {}
    /\ Cardinality(DOMAIN calling) <= Concurrency
    /\ completed \in BOOLEAN /\ ~(live /\ completed)
    /\ troubles \in 0 .. MaxTroubles /\ kills \in 0 .. MaxKills /\ live \in BOOLEAN
    /\ ~live => waiting \cup DOMAIN calling \cup DOMAIN answered = {}

NoneOf == [i \in {} |-> 0]

BatchInit ==
    /\ lines = <<>> /\ waiting = {} /\ calling = NoneOf /\ answered = NoneOf
    /\ live = FALSE /\ completed = FALSE
    /\ given = {} /\ asked = [i \in NewsIds |-> 0] /\ troubles = 0 /\ kills = 0

Drop(f, i) == Restrict(f, DOMAIN f \ {i})
With(f, i, x) == [j \in DOMAIN f \cup {i} |-> IF j = i THEN x ELSE f[j]]

-------------------------------------------------------------------------------

Pending == NewsIds \ Processed

\* A run reads the checkpoint and takes what is left.
StartRun ==
    /\ ~live /\ Pending # {}
    /\ live' = TRUE /\ completed' = FALSE /\ waiting' = Pending /\ given' = {}
    /\ UNCHANGED <<lines, calling, answered, asked, troubles, kills>>

SlotFree == Cardinality(DOMAIN calling) < Concurrency

\* The semaphore lets the rows in one after the other.
EnterCall ==
    /\ SlotFree
    /\ \E i \in waiting :
         /\ \A j \in waiting : i <= j
         /\ waiting' = waiting \ {i} /\ calling' = With(calling, i, 1)
    /\ UNCHANGED <<lines, answered, live, completed, given, asked, troubles, kills>>

\* An answer; a refusal, an answer that is no JSON and an unknown error are "terminal".
CallAnswered(i) ==
    /\ \E o \in Outcomes : answered' = With(answered, i, o) /\ (o = "terminal" => troubles < MaxTroubles)
                           /\ troubles' = IF o = "terminal" THEN troubles + 1 ELSE troubles
    /\ calling' = Drop(calling, i) /\ asked' = [asked EXCEPT ![i] = @ + 1]
    /\ UNCHANGED <<lines, waiting, live, completed, given, kills>>

\* The last attempt failed: no record, so that the next run tries again.
GiveUp(i) ==
    calling' = Drop(calling, i) /\ given' = given \cup {i} /\ UNCHANGED answered

\* Rate limit, timeout, no connection or a server error.
FailedForNow(i) ==
    /\ troubles < MaxTroubles /\ troubles' = troubles + 1
    /\ IF calling[i] < MaxTries
       THEN calling' = [calling EXCEPT ![i] = @ + 1] /\ UNCHANGED <<given, answered>>
       ELSE GiveUp(i)
    /\ UNCHANGED <<lines, waiting, live, completed, asked, kills>>

\* The last line has no end.
Torn == lines # <<>> /\ lines[Len(lines)].ends # "whole"

\* The file is appended to: the record lands in the last line if that has no end.
Written(rec, ends) ==
    IF Torn
    THEN [lines EXCEPT ![Len(lines)] = [recs |-> Append(@.recs, rec), ends |-> ends]]
    ELSE Append(lines, [recs |-> <<rec>>, ends |-> ends])

\* append_checkpoint; the writes do not overlap.
WriteRecord(i) ==
    /\ lines' = Written([id |-> i, outcome |-> answered[i]], "whole")
    /\ answered' = Drop(answered, i)
    /\ UNCHANGED <<waiting, calling, live, completed, given, asked, troubles, kills>>

\* gather() is done.
EndRun ==
    /\ live /\ waiting \cup DOMAIN calling \cup DOMAIN answered = {}
    /\ live' = FALSE /\ completed' = TRUE
    /\ UNCHANGED <<lines, waiting, calling, answered, given, asked, troubles, kills>>

\* The process is killed, or an exception leaves gather(); perhaps within a write.
Kill ==
    /\ live /\ kills < MaxKills /\ kills' = kills + 1 /\ live' = FALSE
    /\ waiting' = {} /\ calling' = NoneOf /\ answered' = NoneOf
    /\ \/ UNCHANGED lines
       \/ \E i \in DOMAIN answered, ends \in {"cut", "bare"} :
             lines' = Written([id |-> i, outcome |-> answered[i]], ends)
    /\ UNCHANGED <<completed, given, asked, troubles>>

BatchNext ==
    \/ StartRun \/ EnterCall \/ EndRun \/ Kill
    \/ \E i \in DOMAIN calling : CallAnswered(i) \/ FailedForNow(i)
    \/ \E i \in DOMAIN answered : WriteRecord(i)

BatchSpec == BatchInit /\ [][BatchNext]_batchVars

-------------------------------------------------------------------------------
(* Properties. *)

\* The aggregation never has to choose: one readable record of each id, although a kill
\* may leave others that cannot be read.
OneRecordPerId ==
    \A i, j \in DOMAIN lines :
        WholeLine(lines[i]) /\ WholeLine(lines[j]) /\ lines[i].recs[1].id = lines[j].recs[1].id => i = j

\* A kill costs at most the answers that were on their way, the line it cut and the record
\* written next into that line; nothing else is paid for twice.
AnswersPaidOnce ==
    LET lost == {l \in Range(lines) : ~WholeLine(l)} IN
    /\ \A i \in NewsIds : asked[i] <= 1 + 2 * kills
    /\ Cardinality(lost) <= kills /\ \A l \in lost : Len(l.recs) <= 1 + kills
    /\ kills = 0 => lost = {}

\* A run that came to its end has a readable record of every id that it did not give up
\* for now; only records that ended up in one line, the first by a kill, are lost.
OnRecord(i) ==
    \E l \in Range(lines) :
        \/ WholeLine(l) /\ l.recs[1].id = i
        \/ Len(l.recs) > 1 /\ \E k \in DOMAIN l.recs : l.recs[k].id = i

RunIsComplete == completed => \A i \in NewsIds \ given : OnRecord(i)

\* The checkpoint through kills: one record of each id, paid for once, none missing.
CheckpointIsSound == OneRecordPerId /\ AnswersPaidOnce /\ RunIsComplete

-------------------------------------------------------------------------------
(* Why they hold: the inductive invariant. *)

\* What the run has in hand.
InHand == waiting \cup DOMAIN calling \cup DOMAIN answered

\* An id that nobody has an answer of will be asked for; a torn line will take one more
\* answer with it.
ToPay(i) == (IF i \in Processed \cup DOMAIN answered THEN 0 ELSE 1) + (IF Torn THEN 1 ELSE 0)

\* The lines that a kill has been in.
Spoiled == {k \in DOMAIN lines : ~WholeLine(lines[k]) \/ lines[k].ends # "whole"}

CheckpointInv ==
    /\ BatchTypeOK /\ OneRecordPerId /\ RunIsComplete
    /\ IsFiniteSet(DOMAIN calling)
    /\ InHand \cap Processed = {}
    /\ \A i \in NewsIds : asked[i] + ToPay(i) <= 1 + 2 * kills
    /\ IsFiniteSet(Spoiled) /\ Cardinality(Spoiled) <= kills
    /\ \A k \in DOMAIN lines :
          Len(lines[k].recs) <= IF lines[k].ends = "whole" THEN kills + 1 ELSE kills
    /\ live => \A i \in NewsIds \ (given \cup InHand) : OnRecord(i)
===============================================================================
