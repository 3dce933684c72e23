------------------------------- MODULE Republish --------------------------------
(***************************************************************************)
(* Old news once more into news:raw: scripts/replay_historical_news.py     *)
(* draws a sample from the archive, scripts/replay_raw_envelopes.py takes  *)
(* all saved envelopes.  Both give every event a fresh event_id, so that   *)
(* the services take it for a new one.                                     *)
(***************************************************************************)
EXTENDS Integers, Sequences, FiniteSets, SequencesExt

CONSTANTS
    Sources,            \* files: sequences of lines [valid, at, whole]
    FromDate, ToDate,   \* --from and --to, both included
    SampleSize,         \* --count, and --limit of the other script; 0 for none
    MaxSends,           \* bound: runs over the same file
    MaxRefusals         \* bound: publishes that fail or are not answered

ASSUME RepublishAssumption ==
    /\ {FromDate, ToDate, SampleSize, MaxRefusals} \subseteq Nat /\ MaxSends \in Nat \ {0}
    /\ FromDate <= ToDate

VARIABLES
    tool,               \* "historical" or "envelopes"
    oldNews,            \* the file
    dry,                \* --dry-run
    phase,             \* of the run: "read", "publish", "over"
    readTo,             \* lines read
    inRange,            \* n_in_range
    reservoir,          \* sampled, or the list of events: line numbers
    sentTo,             \* events of the list tried so far
    nPublished,
    rawStream,          \* what arrived in news:raw: line and run
    sends, refusals

republishVars == <<tool, oldNews, dry, phase, readTo, inRange, reservoir, sentTo, nPublished,
                   rawStream, sends, refusals>>

Tools == {"historical", "envelopes"}

RepublishTypeOK ==
    /\ tool \in Tools /\ oldNews \in Sources /\ dry \in BOOLEAN
    /\ phase \in {"read", "publish", "over"}
    /\ readTo \in 0 .. Len(oldNews) /\ inRange \in 0 .. readTo
    /\ ToSet(reservoir) \subseteq 1 .. readTo
    /\ sentTo \in 0 .. Len(reservoir) /\ nPublished \in 0 .. sentTo
    /\ sends \in 1 .. MaxSends /\ refusals \in 0 .. MaxRefusals

RepublishInit ==
    /\ tool \in Tools /\ oldNews \in Sources /\ dry \in BOOLEAN
    /\ phase = "read" /\ readTo = 0 /\ inRange = 0 /\ reservoir = <<>> /\ sentTo = 0
    /\ nPublished = 0 /\ rawStream = <<>> /\ sends = 1 /\ refusals = 0

-------------------------------------------------------------------------------
(* What is published. *)

\* _record_within_range, with the end moved to the end of its day.
WithinRange(record) == FromDate <= record.at /\ record.at < ToDate + 1

\* rng.randint(0, n_in_range - 1), both ends included.
DrawnIndex(n) == 0 .. n - 1

\* One step of the reservoir: the n-th record in the range, the index that was drawn.
Reservoir(sampled, record, index) ==
    IF Len(sampled) < SampleSize THEN Append(sampled, record)
    ELSE IF index < SampleSize THEN [sampled EXCEPT ![index + 1] = record] ELSE sampled

\* _sample_records: a line of the archive.
SampleLine ==
    /\ tool = "historical" /\ phase = "read" /\ readTo < Len(oldNews)
    /\ readTo' = readTo + 1
    /\ LET record == oldNews[readTo + 1]  n == inRange + 1 IN
       IF record.valid /\ WithinRange(record)
       THEN /\ inRange' = n
            /\ IF Len(reservoir) < SampleSize THEN reservoir' = Reservoir(reservoir, readTo + 1, 0)
               ELSE \E index \in DrawnIndex(n) : reservoir' = Reservoir(reservoir, readTo + 1, index)
       ELSE UNCHANGED <<inRange, reservoir>>
    /\ UNCHANGED <<tool, oldNews, dry, phase, sentTo, nPublished, rawStream, sends, refusals>>

\* The first pass over the envelopes: those that parse and validate, up to the limit.
ParseEnvelope ==
    /\ tool = "envelopes" /\ phase = "read" /\ readTo < Len(oldNews)
    /\ SampleSize = 0 \/ Len(reservoir) < SampleSize
    /\ readTo' = readTo + 1
    /\ reservoir' = IF oldNews[readTo + 1].valid /\ oldNews[readTo + 1].whole
                    THEN Append(reservoir, readTo + 1) ELSE reservoir
    /\ UNCHANGED <<tool, oldNews, dry, phase, inRange, sentTo, nPublished, rawStream, sends, refusals>>

ReadThrough == readTo = Len(oldNews) \/ (tool = "envelopes" /\ SampleSize > 0 /\ Len(reservoir) = SampleSize)

\* _build_event leaves out what has no text or no number.  A dry run and an unreachable
\* Redis end here, as does one with nothing to do.
StartPublishing ==
    /\ phase = "read" /\ ReadThrough
    /\ reservoir' = SelectSeq(reservoir, LAMBDA l : oldNews[l].whole)
    /\ \/ phase' = "publish" /\ ~dry /\ reservoir # <<>> /\ UNCHANGED refusals
       \/ phase' = "over" /\ (dry \/ reservoir = <<>>) /\ UNCHANGED refusals
       \/ phase' = "over" /\ refusals < MaxRefusals /\ refusals' = refusals + 1
    /\ UNCHANGED <<tool, oldNews, dry, readTo, inRange, sentTo, nPublished, rawStream, sends>>

\* A publish that fails is reported, and the next event follows: it is not tried again.
\* Without the answer it may be in the stream all the same.
PublishOld ==
    /\ phase = "publish" /\ sentTo < Len(reservoir)
    /\ sentTo' = sentTo + 1
    /\ LET entry == [line |-> reservoir[sentTo + 1], send |-> sends] IN
       \/ /\ rawStream' = Append(rawStream, entry) /\ nPublished' = nPublished + 1
          /\ UNCHANGED refusals
       \/ /\ refusals < MaxRefusals /\ refusals' = refusals + 1
          /\ rawStream' \in {rawStream, Append(rawStream, entry)} /\ UNCHANGED nPublished
    /\ UNCHANGED <<tool, oldNews, dry, phase, readTo, inRange, reservoir, sends>>

EndPublishing ==
    /\ phase = "publish" /\ sentTo = Len(reservoir)
    /\ phase' = "over"
    /\ UNCHANGED <<tool, oldNews, dry, readTo, inRange, reservoir, sentTo, nPublished, rawStream,
                   sends, refusals>>

\* The script is started again, and knows nothing of the last run.
SendAgain ==
    /\ phase = "over" /\ sends < MaxSends
    /\ sends' = sends + 1 /\ phase' = "read"
    /\ readTo' = 0 /\ inRange' = 0 /\ reservoir' = <<>> /\ sentTo' = 0 /\ nPublished' = 0
    /\ UNCHANGED <<tool, oldNews, dry, rawStream, refusals>>

RepublishNext ==
    SampleLine \/ ParseEnvelope \/ StartPublishing \/ PublishOld \/ EndPublishing \/ SendAgain

RepublishSpec == RepublishInit /\ [][RepublishNext]_republishVars

-------------------------------------------------------------------------------
(* Properties. *)

\* The sample of n records, for each way the indices may be drawn.
DrawsOf(n) == {f \in [1 .. n -> 0 .. n - 1] :
                 \A i \in 1 .. n : IF i <= SampleSize THEN f[i] = 0 ELSE f[i] \in DrawnIndex(i)}

SampleOf(f) == FoldLeftDomain(LAMBDA sampled, i : Reservoir(sampled, i, f[i]), <<>>, f)

\* "samples uniformly": of all ways to draw, the same share keeps each record.
SampleIsUniform ==
    \A n \in 1 .. SampleSize + 2 :
        LET samples == [f \in DrawsOf(n) |-> ToSet(SampleOf(f))]
            keeping(i) == Cardinality({f \in DrawsOf(n) : i \in samples[f]})
        IN \A i \in 1 .. n : keeping(i) = keeping(1)

\* What is in hand is no line twice, of the range, and as many as asked for if there are
\* as many; a run puts each of them into the stream at most once and in order, and counts
\* what it was told of.  A dry run leaves the stream alone.
SampledLinesAreOwn ==
    /\ IsInjective(reservoir)
    /\ tool = "historical" =>
        /\ \A i \in DOMAIN reservoir : WithinRange(oldNews[reservoir[i]])
        /\ phase = "read" => Len(reservoir) = (IF inRange < SampleSize THEN inRange ELSE SampleSize)
    /\ dry => rawStream = <<>>
    /\ LET now == SelectSeq(rawStream, LAMBDA x : x.send = sends) IN
       /\ IsInjective([i \in DOMAIN now |-> now[i].line])
       /\ Len(now) - nPublished \in 0 .. refusals
       /\ phase = "over" => Len(reservoir) - nPublished <= refusals \/ sentTo = 0

RepublishIsFair ==
    /\ SampleIsUniform
    /\ SampledLinesAreOwn
===============================================================================
