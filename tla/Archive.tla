-------------------------------- MODULE Archive --------------------------------
(***************************************************************************)
(* telegram_news.jsonl, the archive of news: scraped from Telegram channel *)
(* by channel (scrape_gap_via_receiver_session.py), one line appended per  *)
(* message, newest first, by runs that may be cut off by Telegram or       *)
(* killed, within a line too; and read by extract_gap_2026_for_reenrich.py *)
(* and replay_historical_news.py, a line at a time.                        *)
(***************************************************************************)
EXTENDS Integers, Sequences, FiniteSets, FiniteSetsExt, SequencesExt

CONSTANTS
    Posts,              \* the messages the channels have or will have
    ChannelOrder,       \* CHANNELS, in the order they are scraped
    ScrapeFrom,         \* --from
    MaxScrapes, MaxCuts \* bounds: runs; runs cut off or killed

ASSUME ArchiveAssumption ==
    /\ Posts \subseteq [channel: ToSet(ChannelOrder), msg: Nat, at: Nat, text: Nat, news: BOOLEAN]
    /\ \A p, q \in Posts : p.channel = q.channel =>
          (p.msg = q.msg => p = q) /\ (p.msg < q.msg => p.at <= q.at)
    /\ IsFiniteSet(Posts) /\ ChannelOrder \in Seq(ToSet(ChannelOrder)) /\ IsInjective(ChannelOrder)
    /\ {ScrapeFrom, MaxScrapes, MaxCuts} \subseteq Nat

VARIABLES
    posted,             \* what the channels have so far
    archived,           \* the lines of the file: the records on each, and how it ends
    scraping,           \* the run: what it has loaded, channels and messages to come
    scrapes, cuts,
    undisturbed,        \* history: how many runs in a row came to their end
    extract             \* rows of the last extraction, and for which archive

archiveVars == <<posted, archived, scraping, scrapes, cuts, undisturbed, extract>>

-------------------------------------------------------------------------------
\* A line is read if it holds one whole record: "cut" is a part of one, "bare" a whole one
\* without the end of the line.
Readable(l) == Len(l.recs) = 1 /\ l.ends \in {"whole", "bare"}
Read(lines) == {l.recs[1] : l \in {x \in ToSet(lines) : Readable(x)}}

\* Appending to a file whose last line has no end lengthens that line.
Lengthened(lines, post, ends) ==
    IF lines # <<>> /\ Last(lines).ends # "whole"
    THEN Front(lines) \o <<[recs |-> Append(Last(lines).recs, post), ends |-> ends]>>
    ELSE Append(lines, [recs |-> <<post>>, ends |-> ends])

Key(p) == <<p.channel, p.msg>>

\* iter_messages: newest first.
NewestFirst(c) ==
    LET own == {p \in posted : p.channel = c}
    IN CHOOSE s \in Bijection(1 .. Cardinality(own), own) :
          \A i, j \in DOMAIN s : i < j => s[i].msg > s[j].msg

NoScrape == [on |-> FALSE, existing |-> {}, channels |-> <<>>, feed |-> <<>>]

ArchiveInit ==
    /\ posted \in {{p \in Posts : p.at <= t} : t \in {q.at : q \in Posts}}
    /\ archived = <<>> /\ scraping = NoScrape /\ scrapes = 0 /\ cuts = 0
    /\ undisturbed = 0 /\ extract = [rows |-> {}, lines |-> 0]

\* A message appears; while a run reads a channel backwards it does not get to see it.
Post(p) ==
    /\ ~scraping.on /\ p \notin posted
    /\ \A q \in Posts \ posted : p.at <= q.at
    /\ posted' = posted \cup {p}
    /\ undisturbed' = 0
    /\ UNCHANGED <<archived, scraping, scrapes, cuts, extract>>

\* load_existing_ids, once for all channels.
ScrapeStarts ==
    /\ ~scraping.on /\ scrapes < MaxScrapes
    /\ scraping' = [on |-> TRUE, existing |-> {Key(p) : p \in Read(archived)},
                    channels |-> ChannelOrder, feed |-> <<>>]
    /\ scrapes' = scrapes + 1
    /\ UNCHANGED <<posted, archived, cuts, undisturbed, extract>>

NextChannel ==
    /\ scraping.on /\ scraping.feed = <<>> /\ scraping.channels # <<>>
    /\ scraping' = [scraping EXCEPT !.channels = Tail(@), !.feed = NewestFirst(Head(scraping.channels))]
    /\ UNCHANGED <<posted, archived, scrapes, cuts, undisturbed, extract>>

\* Mutant: the number of a message, which each channel gives anew.
WantedByNumber(p) == p.msg \notin {k[2] : k \in scraping.existing} /\ p.news

\* One message: too old ends the channel, what is there or is no news is passed over.
WantedPost(p) == Key(p) \notin scraping.existing /\ p.news

NextMessage ==
    /\ scraping.feed # <<>>
    /\ LET p == Head(scraping.feed) IN
         /\ scraping' = [scraping EXCEPT !.feed = IF p.at < ScrapeFrom THEN <<>> ELSE Tail(@)]
         /\ archived' = IF p.at >= ScrapeFrom /\ WantedPost(p) THEN Lengthened(archived, p, "whole") ELSE archived
    /\ UNCHANGED <<posted, scrapes, cuts, undisturbed, extract>>

ScrapeEnds ==
    /\ scraping.on /\ scraping.feed = <<>> /\ scraping.channels = <<>>
    /\ scraping' = NoScrape
    /\ undisturbed' = Min({2, undisturbed + 1})
    /\ UNCHANGED <<posted, archived, scrapes, cuts, extract>>

\* FloodWait or another error: the channel is left, the next one is taken.  The run does
\* end, and says nothing of it but in the log.
ChannelCutOff ==
    /\ scraping.feed # <<>> /\ cuts < MaxCuts /\ cuts' = cuts + 1
    /\ scraping' = [scraping EXCEPT !.feed = <<>>]
    /\ undisturbed' = -1
    /\ UNCHANGED <<posted, archived, scrapes, extract>>

ScrapeKilled ==
    /\ scraping.on /\ cuts < MaxCuts /\ cuts' = cuts + 1
    /\ scraping' = NoScrape /\ undisturbed' = 0
    /\ \/ UNCHANGED archived
       \/ /\ scraping.feed # <<>> /\ Head(scraping.feed).at >= ScrapeFrom /\ WantedPost(Head(scraping.feed))
          /\ \E ends \in {"cut", "bare"} : archived' = Lengthened(archived, Head(scraping.feed), ends)
    /\ UNCHANGED <<posted, scrapes, extract>>

\* extract_gap: of the lines in the window the first of each text.
Extract ==
    /\ Len(archived) > extract.lines
    /\ extract' = [rows |-> {archived[i].recs[1] :
                     i \in {k \in DOMAIN archived :
                        /\ Readable(archived[k]) /\ archived[k].recs[1].at >= ScrapeFrom
                        /\ \A j \in 1..k - 1 : ~(/\ Readable(archived[j])
                                                 /\ archived[j].recs[1].at >= ScrapeFrom
                                                 /\ archived[j].recs[1].text = archived[k].recs[1].text)}},
                   lines |-> Len(archived)]
    /\ UNCHANGED <<posted, archived, scraping, scrapes, cuts, undisturbed>>

ArchiveNext ==
    \/ \E p \in Posts : Post(p)
    \/ ScrapeStarts \/ NextChannel \/ NextMessage \/ ScrapeEnds
    \/ ChannelCutOff \/ ScrapeKilled
    \/ Extract

ArchiveSpec == ArchiveInit /\ [][ArchiveNext]_archiveVars

-------------------------------------------------------------------------------
ArchiveTypeOK ==
    /\ posted \subseteq Posts /\ undisturbed \in -1..2
    /\ \A l \in ToSet(archived) : l.recs \in Seq(Posts) /\ l.recs # <<>> /\ l.ends \in {"whole", "bare", "cut"}
    /\ scraping.on \in BOOLEAN /\ scraping.feed \in Seq(Posts)
    /\ scrapes \in 0..MaxScrapes /\ cuts \in 0..MaxCuts /\ extract.rows \subseteq Posts

Due == {p \in posted : p.news /\ p.at >= ScrapeFrom}

\* No message is twice in the archive, however often runs were cut off and repeated.
NoLineTwice ==
    \A i, j \in DOMAIN archived :
        i # j /\ Readable(archived[i]) /\ Readable(archived[j])
          => Key(archived[i].recs[1]) # Key(archived[j].recs[1])

\* After a run that was not cut off a message is missing only if it shares its line with
\* one that was being written when an earlier run was killed; a second such run has it.
NothingElseMissing ==
    ~scraping.on =>
      \A p \in Due \ Read(archived) :
        /\ undisturbed <= 1
        /\ undisturbed = 1 => \E l \in ToSet(archived) : p \in ToSet(l.recs) /\ Len(l.recs) > 1

\* What is extracted from a whole archive has every text once.
ExtractIsWhole ==
    /\ \A p, q \in extract.rows : p.text = q.text => p = q
    /\ undisturbed = 2 /\ ~scraping.on /\ extract.lines = Len(archived)
         => {p.text : p \in Due} = {p.text : p \in extract.rows}

ArchiveIsWhole == NoLineTwice /\ NothingElseMissing /\ ExtractIsWhole
===============================================================================
