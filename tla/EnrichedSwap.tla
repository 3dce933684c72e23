------------------------------ MODULE EnrichedSwap ------------------------------
(***************************************************************************)
(* What the replays start from: pull_enriched_from_vps.py copies the       *)
(* window of a stream through the tunnel, page by page, while the services *)
(* go on writing it and Redis trims it; swap_vps_enrichment_to_di.py puts  *)
(* the answers of another model in place of the ones that were traded on,  *)
(* matched by the hash of the text.                                        *)
(***************************************************************************)
EXTENDS Integers, Sequences, FiniteSets, FiniteSetsExt, SequencesExt

CONSTANTS
    Texts,              \* of the messages: [key, time, plain: whether both hashes of it are equal]
    Reanswered,         \* texts the other model was asked about, and whether it answered
    PageEntries,        \* count of XRANGE
    WindowFrom, WindowTo,
    MaxStreamed, KeptStreamed   \* bounds: messages in all; entries the stream keeps

ASSUME EnrichedSwapAssumption ==
    /\ Texts \subseteq [key: Nat, at: Nat, plain: BOOLEAN]
    /\ \A x, y \in Texts : x.key = y.key => x = y
    /\ DOMAIN Reanswered \subseteq Texts /\ \A x \in DOMAIN Reanswered : Reanswered[x] \in BOOLEAN
    /\ PageEntries \in Nat /\ PageEntries > 1
    /\ {WindowFrom, WindowTo, MaxStreamed, KeptStreamed} \subseteq Nat

VARIABLES
    rawEntries,         \* all that was written to news:raw; the number of an entry is its place
    enrichedEntries,    \* news:enriched: entries with number, raw event, time of the news
    pulling,            \* the pull: the last entry seen, if any, and whether it is over
    lastAtStart,        \* history: the newest entry when the pull began
    copied,             \* enriched_vps_window.jsonl
    swapped             \* enriched_vps_window_di_swapped.jsonl

swapVars == <<rawEntries, enrichedEntries, pulling, lastAtStart, copied, swapped>>

-------------------------------------------------------------------------------
\* The hash the receiver puts into an event is of the whole text in normal form, that of
\* the extraction of its first 8000 characters as they are.
ReceiverHash(x)   == [of |-> "whole", key |-> x.key]
ExtractionHash(x) == IF x.plain THEN ReceiverHash(x) ELSE [of |-> "part", key |-> x.key]

\* The other model's rows by hash.  A refusal for good is a row as well: is_enriched only
\* says that the checkpoint has a record of it.
RowOf(hash) == {x \in DOMAIN Reanswered : ExtractionHash(x) = hash}

EnrichedSwapInit ==
    /\ rawEntries = <<>> /\ enrichedEntries = <<>>
    /\ pulling = [on |-> FALSE, last |-> 0, over |-> FALSE]
    /\ lastAtStart = 0
    /\ copied = <<>> /\ swapped = <<>>

StreamLength == Len(rawEntries)

\* A message is received and enriched; Redis keeps the newest entries of each stream.
NewsStreams(x) ==
    /\ StreamLength < MaxStreamed
    /\ rawEntries' = Append(rawEntries, x)
    /\ enrichedEntries' = LET all == Append(enrichedEntries, [raw |-> StreamLength + 1, at |-> x.at])
                          IN IF Len(all) > KeptStreamed THEN Tail(all) ELSE all
    /\ UNCHANGED <<pulling, lastAtStart, copied, swapped>>

PullStarts ==
    /\ ~pulling.on /\ ~pulling.over /\ enrichedEntries # <<>>
    /\ pulling' = [pulling EXCEPT !.on = TRUE]
    /\ lastAtStart' = Last(enrichedEntries).raw
    /\ UNCHANGED <<rawEntries, enrichedEntries, copied, swapped>>

\* XRANGE from the last entry seen, that one included.
XrangePage ==
    LET from == {i \in DOMAIN enrichedEntries : enrichedEntries[i].raw >= pulling.last}
    IN IF from = {} THEN <<>>
       ELSE SubSeq(enrichedEntries, Min(from), Min({Min(from) + PageEntries - 1, Len(enrichedEntries)}))

NewOfPage == IF XrangePage # <<>> /\ Head(XrangePage).raw = pulling.last THEN Tail(XrangePage) ELSE XrangePage

\* What of the page is in the window, in the order of the page.
InWindowOfPage ==
    LET own == {e \in ToSet(NewOfPage) : WindowFrom <= e.at /\ e.at < WindowTo}
    IN CHOOSE s \in Bijection(1 .. Cardinality(own), own) : \A i, j \in DOMAIN s : i < j => s[i].raw < s[j].raw

PullPage ==
    /\ pulling.on
    /\ copied' = copied \o InWindowOfPage
    /\ LET end == NewOfPage = <<>> \/ Len(XrangePage) < PageEntries IN
         pulling' = [on |-> ~end, over |-> end,
                     last |-> IF NewOfPage = <<>> THEN pulling.last ELSE Last(NewOfPage).raw]
    /\ UNCHANGED <<rawEntries, enrichedEntries, lastAtStart, swapped>>

\* The lines one by one; the hash is looked up in what Redis has kept of news:raw.
RawNow == Max({1, StreamLength - KeptStreamed + 1}) .. StreamLength

SwappedLine(e) ==
    LET row == IF e.raw \in RawNow THEN RowOf(ReceiverHash(rawEntries[e.raw])) ELSE {}
    IN [raw |-> e.raw,
        by  |-> IF row = {} THEN "live"
                ELSE IF \A x \in row : Reanswered[x] THEN "other" ELSE "nothing",
        for |-> IF row = {} THEN rawEntries[e.raw] ELSE CHOOSE x \in row : TRUE]

SwapRuns ==
    /\ pulling.over /\ swapped = <<>> /\ copied # <<>>
    /\ swapped' = [i \in DOMAIN copied |-> SwappedLine(copied[i])]
    /\ UNCHANGED <<rawEntries, enrichedEntries, pulling, lastAtStart, copied>>

EnrichedSwapNext ==
    \/ \E x \in Texts : NewsStreams(x)
    \/ PullStarts \/ PullPage
    \/ SwapRuns

EnrichedSwapSpec == EnrichedSwapInit /\ [][EnrichedSwapNext]_swapVars

-------------------------------------------------------------------------------
EnrichedSwapTypeOK ==
    /\ ToSet(rawEntries) \subseteq Texts /\ StreamLength <= MaxStreamed
    /\ Len(enrichedEntries) <= KeptStreamed
    /\ {pulling.on, pulling.over} \subseteq BOOLEAN /\ pulling.last \in 0..MaxStreamed
    /\ \A l \in ToSet(swapped) : l.for \in Texts /\ l.by \in {"live", "other", "nothing"}

\* The copy has the entries of the window in their order and none twice, and all that were
\* there when the pull began and were not trimmed before their page was read.
CopyIsInOrder ==
    /\ \A i, j \in DOMAIN copied : i < j => copied[i].raw < copied[j].raw
    /\ pulling.over =>
         \A e \in ToSet(enrichedEntries) :
             e.raw <= lastAtStart /\ WindowFrom <= e.at /\ e.at < WindowTo => e \in ToSet(copied)

\* No message gets the answer to another text, and a message keeps its own only if it is
\* trimmed, was not asked about, or its text is not plain; one the other model refused
\* loses its answer, which nothing in the file tells from "no financial news".
SwapsAreOwn ==
    \A l \in ToSet(swapped) :
        /\ l.for = rawEntries[l.raw]
        /\ l.by = "nothing" => ~Reanswered[l.for]
        /\ l.by = "live" => \/ l.for \notin DOMAIN Reanswered
                            \/ ~l.for.plain
                            \/ l.raw + KeptStreamed <= StreamLength

ReplayInputIsSound == CopyIsInOrder /\ SwapsAreOwn
===============================================================================
