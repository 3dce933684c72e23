----------------------------- MODULE Parts_proofs ------------------------------
(***************************************************************************)
(* Theorems about more parts that share no state: the archive of news      *)
(* (Archive), the copy of the stream the replays start from (EnrichedSwap),*)
(* the files of minute bars (Prices), the rules of a decision              *)
(* (TradingRules), the names of instruments (Instruments), one paper trade *)
(* (PaperTrade), what a trade costs (Costs) and how it ends (Exits).       *)
(***************************************************************************)
EXTENDS Archive, EnrichedSwap, Prices, TradingRules, Instruments, PaperTrade, Costs, Exits,
        Numbers_proofs, SequenceTheorems, TLAPS
-------------------------------------------------------------------------------
(* The archive of news. *)

\* A last line without its end, a record that shares its line, what the archive was made
\* of as the extraction sees it.
TornEnd(file) == file # <<>> /\ file[Len(file)].ends # "whole"

SharesItsLine(p, file) ==
    \E i \in DOMAIN file : Len(file[i].recs) > 1 /\ \E k \in DOMAIN file[i].recs : file[i].recs[k] = p

Extraction(file) ==
    {file[i].recs[1] :
        i \in {k \in DOMAIN file :
            /\ Readable(file[k]) /\ file[k].recs[1].at >= ScrapeFrom
            /\ \A j \in 1..k - 1 : ~(/\ Readable(file[j])
                                     /\ file[j].recs[1].at >= ScrapeFrom
                                     /\ file[j].recs[1].text = file[k].recs[1].text)}}

LineEnds == {"whole", "bare", "cut"}

ArchiveLines == {l \in [recs : Seq(Posts), ends : {"whole", "bare", "cut"}] : l.recs # <<>>}

PostKeys == {Key(p) : p \in Posts}

ScrapeRuns == [on : BOOLEAN, existing : SUBSET PostKeys, channels : Seq(ToSet(ChannelOrder)), feed : Seq(Posts)]

OncePerKey(file) ==
    \A i, j \in DOMAIN file :
        i # j /\ Readable(file[i]) /\ Readable(file[j]) => Key(file[i].recs[1]) # Key(file[j].recs[1])

\* What the run has yet to look at.
StillToCome(p) ==
    \/ \E k \in DOMAIN scraping.feed : scraping.feed[k] = p
    \/ \E k \in DOMAIN scraping.channels : scraping.channels[k] = p.channel

ArchiveBasics ==
    /\ posted \in SUBSET Posts /\ archived \in Seq(ArchiveLines)
    /\ scraping \in ScrapeRuns
    /\ undisturbed \in -1 .. 2 /\ scrapes \in 0 .. MaxScrapes /\ cuts \in 0 .. MaxCuts
    /\ extract \in [rows : SUBSET Posts, lines : Nat] /\ extract.lines <= Len(archived)
    /\ ~scraping.on => scraping = NoScrape
    /\ \A i \in DOMAIN archived : \A k \in DOMAIN archived[i].recs : archived[i].recs[k] \in Due
    /\ OncePerKey(archived)

\* The messages of a channel come newest first, and each channel once.
FeedInOrder ==
    /\ \A i, j \in DOMAIN scraping.feed : i < j =>
          /\ scraping.feed[i].channel = scraping.feed[j].channel
          /\ scraping.feed[i].msg > scraping.feed[j].msg
    /\ \A i \in DOMAIN scraping.feed : \A k \in DOMAIN scraping.channels :
          scraping.channels[k] # scraping.feed[i].channel
    /\ \A i \in DOMAIN scraping.feed : scraping.feed[i] \in posted
    /\ IsInjective(scraping.channels)

\* What a run knows of the archive: it passes over nothing that is lost, but for records
\* that it has itself run into one line; and while the last line is torn it has written nothing.
RunKnowsTheArchive ==
    scraping.on =>
        /\ \A p \in Read(archived) : Key(p) \in scraping.existing \/ ~StillToCome(p)
        /\ \A p \in Posts : Key(p) \in scraping.existing => p \in Read(archived) \/ SharesItsLine(p, archived)
        /\ TornEnd(archived) \/ undisturbed >= 1 =>
              \A p \in Posts : Key(p) \in scraping.existing => p \in Read(archived)

\* How far the archive is complete, by the runs that came to their end since the last one
\* that did not.
CompleteSoFar ==
    /\ scraping.on /\ undisturbed >= 0 =>
          /\ \A p \in Due : StillToCome(p) \/ p \in Read(archived) \/ SharesItsLine(p, archived)
          /\ TornEnd(archived) \/ undisturbed >= 1 => \A p \in Due : StillToCome(p) \/ p \in Read(archived)
    /\ undisturbed >= 1 => \A p \in Due : p \in Read(archived) \/ SharesItsLine(p, archived)
    /\ (undisturbed >= 1 /\ TornEnd(archived)) \/ undisturbed = 2 => Due \subseteq Read(archived)

\* The rows of the last extraction are those of the archive as it is, unless lines came
\* since, or a line was lengthened and lost what it had.
ExtractIsCurrent ==
    /\ \A p, q \in extract.rows : p.text = q.text => p = q
    /\ extract.lines = Len(archived) =>
          extract.rows = Extraction(archived) \/ \E p \in Due : p \notin Read(archived)

ArchiveInv ==
    ArchiveBasics /\ FeedInOrder /\ RunKnowsTheArchive /\ CompleteSoFar /\ ExtractIsCurrent

LEMMA LineParts ==
    ASSUME NEW l \in ArchiveLines
    PROVE  /\ l.recs \in Seq(Posts) /\ l.recs # <<>> /\ Len(l.recs) \in Nat /\ Len(l.recs) >= 1
           /\ 1 \in DOMAIN l.recs /\ l.recs[1] \in Posts /\ l.ends \in {"whole", "bare", "cut"}
           /\ DOMAIN l.recs = 1 .. Len(l.recs)
  <1>1. l.recs \in Seq(Posts) /\ l.recs # <<>> /\ l.ends \in {"whole", "bare", "cut"}
    BY DEF ArchiveLines
  <1>2. Len(l.recs) \in Nat /\ Len(l.recs) # 0 /\ DOMAIN l.recs = 1 .. Len(l.recs)
    BY <1>1
  <1>3. 1 \in 1 .. Len(l.recs) /\ Len(l.recs) >= 1
    BY <1>2
  <1>4. QED
    BY <1>1, <1>2, <1>3

LEMMA LineMade ==
    ASSUME NEW s \in Seq(Posts), s # <<>>, NEW e \in LineEnds
    PROVE  [recs |-> s, ends |-> e] \in ArchiveLines
  BY DEF ArchiveLines, LineEnds

LEMMA ReadIs ==
    ASSUME NEW file \in Seq(ArchiveLines), NEW p
    PROVE  p \in Read(file) <=> \E i \in DOMAIN file : Readable(file[i]) /\ file[i].recs[1] = p
  BY DEF Read, ToSet

LEMMA ReadArePosts ==
    ASSUME NEW file \in Seq(ArchiveLines) PROVE Read(file) \subseteq Posts
  <1>1. \A i \in DOMAIN file : file[i] \in ArchiveLines
    OBVIOUS
  <1>2. \A i \in DOMAIN file : file[i].recs[1] \in Posts
    BY <1>1, LineParts
  <1>3. QED
    BY <1>2, ReadIs

\* Where a record goes: to the end of a line that has none yet, or to a line of its own.
LEMMA LengthenedLast ==
    ASSUME NEW file \in Seq(ArchiveLines), NEW p \in Posts, NEW e \in LineEnds, TornEnd(file),
           NEW more, more = Lengthened(file, p, e)
    PROVE  \E n \in Nat \ {0} :
              /\ Len(file) = n /\ DOMAIN file = 1 .. n /\ file[n].ends # "whole"
              /\ more \in Seq(ArchiveLines) /\ Len(more) = n
              /\ DOMAIN more = 1 .. n
              /\ \A i \in 1 .. n - 1 : more[i] = file[i]
              /\ more[n].recs = Append(file[n].recs, p)
              /\ more[n].ends = e
  <1>a. PICK n \in Nat : Len(file) = n /\ DOMAIN file = 1 .. n
    BY LenProperties
  <1>1. file # <<>> /\ file[n].ends # "whole" /\ Last(file) = file[n]
    BY <1>a DEF TornEnd, Last
  <1>2. n # 0 /\ n \in DOMAIN file
    BY <1>a, <1>1
  <1> DEFINE new == [recs |-> Append(file[n].recs, p), ends |-> e]
  <1>3. more = Front(file) \o <<new>>
    BY <1>1 DEF Lengthened
  <1>4. file[n] \in ArchiveLines
    BY <1>2
  <1>5. file[n].recs \in Seq(Posts)
    BY <1>4, LineParts
  <1>6. Append(file[n].recs, p) \in Seq(Posts) /\ Append(file[n].recs, p) # <<>>
    <2>1. \A r \in Seq(Posts) : Append(r, p) \in Seq(Posts) /\ Append(r, p) # <<>>
      OBVIOUS
    <2>2. QED
      BY <1>5, <2>1
  <1>7. new \in ArchiveLines /\ new.recs = Append(file[n].recs, p) /\ new.ends = e
    BY <1>6, LineMade
  <1> HIDE DEF new
  <1>8. /\ Front(file) \in Seq(ArchiveLines) /\ Len(Front(file)) = n - 1
        /\ \A i \in 1 .. n - 1 : Front(file)[i] = file[i]
    BY <1>a, <1>2 DEF Front
  <1>9. PICK f \in Seq(ArchiveLines) : f = Front(file)
    BY <1>8
  <1>10. /\ f \o <<new>> \in Seq(ArchiveLines) /\ Len(f \o <<new>>) = n
         /\ \A i \in 1 .. n - 1 : (f \o <<new>>)[i] = f[i]
         /\ (f \o <<new>>)[n] = new
    BY <1>a, <1>2, <1>7, <1>8, <1>9
  <1>11. DOMAIN (f \o <<new>>) = 1 .. n
    BY <1>10
  <1>12. more \in Seq(ArchiveLines) /\ Len(more) = n /\ DOMAIN more = 1 .. n /\ more[n] = new
    BY <1>3, <1>9, <1>10, <1>11
  <1>13. \A i \in 1 .. n - 1 : more[i] = file[i]
    BY <1>3, <1>8, <1>9, <1>10
  <1>14. n \in Nat \ {0} /\ more[n].recs = Append(file[n].recs, p) /\ more[n].ends = e
    BY <1>2, <1>7, <1>12
  <1>15. QED
    BY <1>a, <1>1, <1>12, <1>13, <1>14

LEMMA LineOfItsOwn ==
    ASSUME NEW file \in Seq(ArchiveLines), NEW p \in Posts, NEW e \in LineEnds, ~TornEnd(file),
           NEW n \in Nat, n = Len(file),
           NEW more, more = Lengthened(file, p, e)
    PROVE  /\ DOMAIN file = 1 .. n
           /\ more \in Seq(ArchiveLines) /\ Len(more) = n + 1
           /\ DOMAIN more = 1 .. n + 1
           /\ \A i \in 1 .. n : more[i] = file[i]
           /\ more[n + 1].recs = <<p>>
           /\ more[n + 1].ends = e
  <1>a. DOMAIN file = 1 .. n
    OBVIOUS
  <1> DEFINE new == [recs |-> <<p>>, ends |-> e]
  <1>1. more = Append(file, new)
    BY DEF Lengthened, TornEnd, Last
  <1>2. <<p>> \in Seq(Posts) /\ <<p>> # <<>>
    OBVIOUS
  <1>3. new \in ArchiveLines /\ new.recs = <<p>> /\ new.ends = e
    BY <1>2, LineMade
  <1> HIDE DEF new
  <1>4. /\ Append(file, new) \in Seq(ArchiveLines) /\ Len(Append(file, new)) = n + 1
        /\ \A i \in 1 .. n : Append(file, new)[i] = file[i]
        /\ Append(file, new)[n + 1] = new
    BY <1>a, <1>3
  <1>5. DOMAIN Append(file, new) = 1 .. n + 1
    BY <1>a, <1>4
  <1>6. QED
    BY <1>a, <1>1, <1>3, <1>4, <1>5

\* What a file has after a record for p was written to it that ends as told.
Grown(file, p, e, more) ==
    /\ more \in Seq(ArchiveLines) /\ OncePerKey(more)
    /\ TornEnd(more) <=> e # "whole"
    /\ Len(file) \in Nat /\ Len(more) = IF TornEnd(file) THEN Len(file) ELSE Len(file) + 1
    /\ \A q : SharesItsLine(q, file) => SharesItsLine(q, more)
    /\ \A q \in Read(file) : q \in Read(more) \/ SharesItsLine(q, more)
    /\ \A i \in DOMAIN more : \A k \in DOMAIN more[i].recs :
          \/ more[i].recs[k] = p
          \/ \E j \in DOMAIN file : \E m \in DOMAIN file[j].recs : file[j].recs[m] = more[i].recs[k]
    /\ TornEnd(file) => SharesItsLine(p, more) /\ Read(more) \subseteq Read(file)
    /\ ~TornEnd(file) => /\ Read(file) \subseteq Read(more) /\ Read(more) \subseteq Read(file) \cup {p}
                         /\ e # "cut" => p \in Read(more)

\* A record for a message that no line holds by itself is written.
LEMMA LineAdded ==
    ASSUME NEW file \in Seq(ArchiveLines), NEW p \in Posts, NEW e \in LineEnds,
           OncePerKey(file), \A q \in Read(file) : Key(q) # Key(p),
           NEW more, more = Lengthened(file, p, e)
    PROVE  Grown(file, p, e, more)
  <1>1. CASE TornEnd(file)
    <2>1. PICK n \in Nat \ {0} :
             /\ Len(file) = n /\ DOMAIN file = 1 .. n /\ file[n].ends # "whole"
             /\ more \in Seq(ArchiveLines) /\ Len(more) = n
             /\ DOMAIN more = 1 .. n
             /\ \A i \in 1 .. n - 1 : more[i] = file[i]
             /\ more[n].recs = Append(file[n].recs, p)
             /\ more[n].ends = e
      BY <1>1, LengthenedLast
    <2>2. n \in 1 .. n /\ n # 0 /\ \A i \in 1 .. n : i = n \/ i \in 1 .. n - 1
      BY <2>1
    <2>3. PICK r \in Seq(Posts) : r = file[n].recs /\ Len(r) \in Nat /\ Len(r) >= 1 /\ DOMAIN r = 1 .. Len(r)
      <3>1. file[n] \in ArchiveLines
        BY <2>1, <2>2
      <3>2. QED
        BY <3>1, LineParts
    <2>4. /\ Len(Append(r, p)) = Len(r) + 1 /\ DOMAIN Append(r, p) = 1 .. Len(r) + 1
          /\ Append(r, p)[Len(r) + 1] = p /\ \A k \in 1 .. Len(r) : Append(r, p)[k] = r[k]
      BY <2>3
    <2>5. Len(more[n].recs) > 1 /\ ~Readable(more[n])
      BY <2>1, <2>3, <2>4 DEF Readable
    <2>6. \A i \in 1 .. n : Readable(more[i]) => i \in 1 .. n - 1 /\ i \in 1 .. n /\ more[i] = file[i]
      BY <2>1, <2>2, <2>5
    <2>7. OncePerKey(more)
      BY <2>1, <2>6 DEF OncePerKey
    <2>8. TornEnd(more) <=> e # "whole"
      <3>1. more # <<>>
        BY <2>1, <2>2
      <3>2. QED
        BY <2>1, <3>1 DEF TornEnd
    <2>9. ASSUME NEW k \in 1 .. Len(r) PROVE k \in DOMAIN more[n].recs /\ more[n].recs[k] = r[k]
      <3>1. k \in 1 .. Len(r) + 1
        BY <2>3
      <3>2. QED
        BY <2>1, <2>3, <2>4, <3>1
    <2>10. ASSUME NEW q, SharesItsLine(q, file) PROVE SharesItsLine(q, more)
      <3>1. PICK i \in 1 .. n : Len(file[i].recs) > 1 /\ \E k \in DOMAIN file[i].recs : file[i].recs[k] = q
        BY <2>1, <2>10 DEF SharesItsLine
      <3>2. CASE i = n
        <4>1. PICK k \in 1 .. Len(r) : r[k] = q
          BY <2>3, <3>1, <3>2
        <4>2. QED
          BY <2>1, <2>2, <2>5, <2>9, <4>1 DEF SharesItsLine
      <3>3. CASE i \in 1 .. n - 1
        BY <2>1, <3>1, <3>3 DEF SharesItsLine
      <3>4. QED
        BY <2>2, <3>2, <3>3
    <2>11. ASSUME NEW q \in Read(file) PROVE q \in Read(more) \/ SharesItsLine(q, more)
      <3>1. PICK i \in 1 .. n : Readable(file[i]) /\ file[i].recs[1] = q
        BY <2>1, ReadIs
      <3>2. CASE i = n
        <4>1. 1 \in 1 .. Len(r)
          BY <2>3
        <4>2. 1 \in DOMAIN more[n].recs /\ more[n].recs[1] = q
          BY <2>3, <2>9, <3>1, <3>2, <4>1
        <4>3. QED
          BY <2>1, <2>2, <2>5, <4>2 DEF SharesItsLine
      <3>3. CASE i \in 1 .. n - 1
        BY <2>1, <3>1, <3>3, ReadIs
      <3>4. QED
        BY <2>2, <3>2, <3>3
    <2>12. ASSUME NEW i \in DOMAIN more, NEW k \in DOMAIN more[i].recs
           PROVE  \/ more[i].recs[k] = p
                  \/ \E j \in DOMAIN file : \E m \in DOMAIN file[j].recs : file[j].recs[m] = more[i].recs[k]
      <3>1. CASE i = n
        <4>1. k \in 1 .. Len(r) + 1
          BY <2>1, <2>3, <2>4, <3>1
        <4>2. CASE k = Len(r) + 1
          BY <2>1, <2>3, <2>4, <3>1, <4>2
        <4>3. CASE k \in 1 .. Len(r)
          BY <2>1, <2>2, <2>3, <2>9, <3>1, <4>3
        <4>4. k = Len(r) + 1 \/ k \in 1 .. Len(r)
          BY <2>3, <4>1
        <4>5. QED
          BY <4>2, <4>3, <4>4
      <3>2. CASE i \in 1 .. n - 1
        BY <2>1, <3>2
      <3>3. QED
        BY <2>1, <2>2, <3>1, <3>2
    <2>13. SharesItsLine(p, more)
      <3>1. Len(r) + 1 \in 1 .. Len(r) + 1
        BY <2>3
      <3>2. QED
        BY <2>1, <2>2, <2>3, <2>4, <2>5, <3>1 DEF SharesItsLine
    <2>14. Read(more) \subseteq Read(file)
      <3> SUFFICES ASSUME NEW q \in Read(more) PROVE q \in Read(file)
        OBVIOUS
      <3>1. PICK i \in 1 .. n : Readable(more[i]) /\ more[i].recs[1] = q
        BY <2>1, ReadIs
      <3>2. QED
        BY <2>1, <2>6, <3>1, ReadIs
    <2>15. QED
      BY <1>1, <2>1, <2>7, <2>8, <2>10, <2>11, <2>12, <2>13, <2>14 DEF Grown
  <1>2. CASE ~TornEnd(file)
    <2>a. PICK n \in Nat : n = Len(file)
      OBVIOUS
    <2>1. /\ Len(file) = n /\ DOMAIN file = 1 .. n
          /\ more \in Seq(ArchiveLines) /\ Len(more) = n + 1
          /\ DOMAIN more = 1 .. n + 1
          /\ \A i \in 1 .. n : more[i] = file[i]
          /\ more[n + 1].recs = <<p>>
          /\ more[n + 1].ends = e
      BY <1>2, <2>a, LineOfItsOwn
    <2>2. /\ n + 1 \in 1 .. n + 1 /\ \A i \in 1 .. n + 1 : i = n + 1 \/ i \in 1 .. n
          /\ \A i \in 1 .. n : i \in 1 .. n + 1
      BY <2>1
    <2>3. /\ Len(more[n + 1].recs) = 1 /\ more[n + 1].recs[1] = p /\ DOMAIN more[n + 1].recs = {1}
      BY <2>1
    <2>4. \A q : q \in Read(file) <=> \E i \in 1 .. n : Readable(file[i]) /\ file[i].recs[1] = q
      BY <2>1, ReadIs
    <2>5. \A q : q \in Read(more) <=> \E i \in 1 .. n + 1 : Readable(more[i]) /\ more[i].recs[1] = q
      BY <2>1, ReadIs
    <2>6. OncePerKey(more)
      <3> SUFFICES ASSUME NEW i \in 1 .. n + 1, NEW j \in 1 .. n + 1, i # j, Readable(more[i]), Readable(more[j])
                   PROVE  Key(more[i].recs[1]) # Key(more[j].recs[1])
        BY <2>1 DEF OncePerKey
      <3>1. CASE i \in 1 .. n /\ j \in 1 .. n
        BY <2>1, <3>1 DEF OncePerKey
      <3>2. CASE i = n + 1 /\ j \in 1 .. n
        <4>1. more[j].recs[1] \in Read(file)
          BY <2>1, <2>4, <3>2
        <4>2. QED
          BY <2>3, <3>2, <4>1
      <3>3. CASE j = n + 1 /\ i \in 1 .. n
        <4>1. more[i].recs[1] \in Read(file)
          BY <2>1, <2>4, <3>3
        <4>2. QED
          BY <2>3, <3>3, <4>1
      <3>4. QED
        BY <2>2, <3>1, <3>2, <3>3
    <2>7. TornEnd(more) <=> e # "whole"
      <3>1. more # <<>>
        BY <2>1
      <3>2. QED
        BY <2>1, <3>1 DEF TornEnd
    <2>8. \A q : SharesItsLine(q, file) => SharesItsLine(q, more)
      BY <2>1, <2>2 DEF SharesItsLine
    <2>9. Read(file) \subseteq Read(more)
      BY <2>1, <2>2, <2>4, <2>5
    <2>10. Read(more) \subseteq Read(file) \cup {p}
      BY <2>1, <2>2, <2>3, <2>4, <2>5
    <2>11. e # "cut" => p \in Read(more)
      <3>1. e # "cut" => Readable(more[n + 1])
        BY <2>1, <2>3 DEF Readable, LineEnds
      <3>2. QED
        BY <2>2, <2>3, <2>5, <3>1
    <2>12. ASSUME NEW i \in DOMAIN more, NEW k \in DOMAIN more[i].recs
           PROVE  \/ more[i].recs[k] = p
                  \/ \E j \in DOMAIN file : \E m \in DOMAIN file[j].recs : file[j].recs[m] = more[i].recs[k]
      <3>1. CASE i = n + 1
        BY <2>3, <3>1
      <3>2. CASE i \in 1 .. n
        BY <2>1, <3>2
      <3>3. QED
        BY <2>1, <2>2, <3>1, <3>2
    <2>13. QED
      BY <1>2, <2>1, <2>6, <2>7, <2>8, <2>9, <2>10, <2>11, <2>12 DEF Grown
  <1>3. QED
    BY <1>1, <1>2


\* Each numbered has one message.
LEMMA KeysTell ==
    ASSUME NEW p \in Posts, NEW q \in Posts, Key(p) = Key(q) PROVE p = q
  BY ArchiveAssumption DEF Key

LEMMA PostParts ==
    ASSUME NEW p \in Posts
    PROVE  /\ p.channel \in ToSet(ChannelOrder) /\ p.msg \in Nat /\ p.at \in Nat /\ p.text \in Nat
           /\ p.news \in BOOLEAN
  BY ArchiveAssumption

LEMMA LinesAreDue ==
    ASSUME ArchiveBasics PROVE Read(archived) \subseteq Due /\ Read(archived) \subseteq Posts /\ Due \subseteq Posts
  <1>1. archived \in Seq(ArchiveLines) /\ posted \in SUBSET Posts
    BY DEF ArchiveBasics
  <1>2. \A i \in DOMAIN archived : archived[i] \in ArchiveLines
    BY <1>1
  <1>3. \A i \in DOMAIN archived : 1 \in DOMAIN archived[i].recs
    BY <1>2, LineParts
  <1>4. \A i \in DOMAIN archived : archived[i].recs[1] \in Due
    BY <1>3 DEF ArchiveBasics
  <1>5. QED
    BY <1>1, <1>4, ReadIs, ReadArePosts DEF Due

LEMMA CutCounted ==
    ASSUME ArchiveBasics, cuts < MaxCuts PROVE cuts + 1 \in 0 .. MaxCuts
  BY ArchiveAssumption DEF ArchiveBasics

\* What becomes of a run that goes on.
LEMMA ScrapeGoesOn ==
    ASSUME NEW s \in ScrapeRuns, NEW f \in Seq(Posts)
    PROVE  /\ [s EXCEPT !.feed = f] \in ScrapeRuns /\ [s EXCEPT !.feed = f].on = s.on
           /\ [s EXCEPT !.feed = f].existing = s.existing
           /\ [s EXCEPT !.feed = f].channels = s.channels /\ [s EXCEPT !.feed = f].feed = f
  BY DEF ScrapeRuns

LEMMA ArchiveStarts ==
    ASSUME ArchiveInit PROVE ArchiveInv
  <1>1. /\ posted \in SUBSET Posts /\ archived = <<>> /\ scraping = NoScrape /\ scrapes = 0 /\ cuts = 0
        /\ undisturbed = 0 /\ extract = [rows |-> {}, lines |-> 0]
    BY DEF ArchiveInit
  <1>2. archived \in Seq(ArchiveLines) /\ Len(archived) = 0 /\ DOMAIN archived = {} /\ ~TornEnd(archived)
    BY <1>1 DEF TornEnd
  <1>3. scraping.on = FALSE /\ scraping.feed = <<>> /\ scraping.channels = <<>> /\ scraping.existing = {}
    BY <1>1 DEF NoScrape
  <1>4. scraping \in ScrapeRuns
    BY <1>1 DEF NoScrape, ScrapeRuns
  <1>5. extract.rows = {} /\ extract.lines = 0 /\ extract \in [rows : SUBSET Posts, lines : Nat]
    BY <1>1
  <1>6. 0 \in 0 .. MaxScrapes /\ 0 \in 0 .. MaxCuts
    BY ArchiveAssumption
  <1>7. ArchiveBasics
    BY <1>1, <1>2, <1>4, <1>5, <1>6 DEF ArchiveBasics, OncePerKey
  <1>8. FeedInOrder
    BY <1>3 DEF FeedInOrder, IsInjective
  <1>9. RunKnowsTheArchive /\ CompleteSoFar
    BY <1>1, <1>3 DEF RunKnowsTheArchive, CompleteSoFar
  <1>10. Extraction(archived) = {}
    BY <1>2 DEF Extraction
  <1>11. QED
    BY <1>5, <1>7, <1>8, <1>9, <1>10 DEF ArchiveInv, ExtractIsCurrent

LEMMA PostKeeps ==
    ASSUME ArchiveInv, NEW p \in Posts, Post(p) PROVE ArchiveInv'
  <1>1. /\ ~scraping.on /\ posted' = posted \cup {p} /\ undisturbed' = 0 /\ archived' = archived
        /\ scraping' = scraping /\ scrapes' = scrapes /\ cuts' = cuts /\ extract' = extract
    BY DEF Post
  <1>2. ArchiveBasics /\ ExtractIsCurrent
    BY DEF ArchiveInv
  <1>3. scraping = NoScrape /\ scraping.feed = <<>> /\ scraping.channels = <<>>
    BY <1>1, <1>2 DEF ArchiveBasics, NoScrape
  <1>4. \A q \in Due : q \in Due'
    BY <1>1 DEF Due
  <1>5. ArchiveBasics'
    BY <1>1, <1>2, <1>4 DEF ArchiveBasics
  <1>6. FeedInOrder'
    BY <1>1, <1>3 DEF FeedInOrder, IsInjective
  <1>7. RunKnowsTheArchive' /\ CompleteSoFar'
    BY <1>1 DEF RunKnowsTheArchive, CompleteSoFar
  <1>8. ExtractIsCurrent'
    BY <1>1, <1>2, <1>4 DEF ExtractIsCurrent
  <1>9. QED
    BY <1>5, <1>6, <1>7, <1>8 DEF ArchiveInv

LEMMA ScrapeStartsKeeps ==
    ASSUME ArchiveInv, ScrapeStarts PROVE ArchiveInv'
  <1>1. /\ ~scraping.on /\ scrapes < MaxScrapes /\ scrapes' = scrapes + 1
        /\ scraping' = [on |-> TRUE, existing |-> {Key(p) : p \in Read(archived)},
                        channels |-> ChannelOrder, feed |-> <<>>]
        /\ posted' = posted /\ archived' = archived /\ cuts' = cuts
        /\ undisturbed' = undisturbed /\ extract' = extract
    BY DEF ScrapeStarts
  <1>2. ArchiveBasics /\ ExtractIsCurrent /\ CompleteSoFar
    BY DEF ArchiveInv
  <1>3. Read(archived) \subseteq Due /\ Read(archived) \subseteq Posts /\ Due \subseteq Posts
    BY <1>2, LinesAreDue
  <1>4. /\ scraping'.on = TRUE /\ scraping'.feed = <<>> /\ scraping'.channels = ChannelOrder
        /\ scraping'.existing = {Key(p) : p \in Read(archived)}
    BY <1>1
  <1>5. scraping' \in ScrapeRuns
    <2>1. {Key(p) : p \in Read(archived)} \in SUBSET PostKeys
      BY <1>3 DEF PostKeys
    <2>2. ChannelOrder \in Seq(ToSet(ChannelOrder)) /\ <<>> \in Seq(Posts)
      BY ArchiveAssumption
    <2>3. QED
      BY <1>1, <2>1, <2>2 DEF ScrapeRuns
  <1>6. scrapes' \in 0 .. MaxScrapes
    BY <1>1, <1>2, ArchiveAssumption DEF ArchiveBasics
  <1>7. ArchiveBasics'
    BY <1>1, <1>2, <1>4, <1>5, <1>6 DEF ArchiveBasics, Due
  <1>8. FeedInOrder'
    BY <1>4, ArchiveAssumption DEF FeedInOrder
  <1>9. \A p \in Read(archived) : Key(p) \in scraping'.existing
    BY <1>4
  <1>10. \A p \in Posts : Key(p) \in scraping'.existing => p \in Read(archived)
    BY <1>3, <1>4, KeysTell
  <1>11. RunKnowsTheArchive'
    BY <1>1, <1>9, <1>10 DEF RunKnowsTheArchive
  <1>12. Due' = Due
    BY <1>1 DEF Due
  <1>13. \A p \in Due : StillToCome(p)'
    BY <1>3, <1>4, PostParts DEF StillToCome, ToSet
  <1>14. CompleteSoFar'
    BY <1>1, <1>2, <1>12, <1>13 DEF CompleteSoFar
  <1>15. ExtractIsCurrent'
    BY <1>1, <1>2, <1>12 DEF ExtractIsCurrent
  <1>16. QED
    BY <1>7, <1>8, <1>11, <1>14, <1>15 DEF ArchiveInv

LEMMA ScrapeEndsKeeps ==
    ASSUME ArchiveInv, ScrapeEnds PROVE ArchiveInv'
  <1>1. /\ scraping.on /\ scraping.feed = <<>> /\ scraping.channels = <<>> /\ scraping' = NoScrape
        /\ undisturbed' = Min({2, undisturbed + 1}) /\ scrapes' = scrapes
        /\ posted' = posted /\ archived' = archived /\ cuts' = cuts /\ extract' = extract
    BY DEF ScrapeEnds
  <1>2. ArchiveBasics /\ ExtractIsCurrent /\ CompleteSoFar
    BY DEF ArchiveInv
  <1>3. PICK u \in -1 .. 2 : u = undisturbed
    BY <1>2 DEF ArchiveBasics
  <1>4. undisturbed' = IF u = 2 THEN 2 ELSE u + 1
    <2>1. {2, u + 1} \in SUBSET Nat /\ {2, u + 1} # {}
      OBVIOUS
    <2>2. Min({2, u + 1}) \in {2, u + 1} /\ \A y \in {2, u + 1} : Min({2, u + 1}) <= y
      BY <2>1, MinOf
    <2>3. Min({2, u + 1}) = IF u = 2 THEN 2 ELSE u + 1
      BY <2>2
    <2>4. QED
      BY <1>1, <1>3, <2>3
  <1>5. scraping'.on = FALSE /\ scraping'.feed = <<>> /\ scraping'.channels = <<>> /\ scraping'.existing = {}
    BY <1>1 DEF NoScrape
  <1>6. scraping' \in ScrapeRuns
    BY <1>1 DEF NoScrape, ScrapeRuns
  <1>7. undisturbed' \in -1 .. 2
    BY <1>4
  <1>8. ArchiveBasics'
    BY <1>1, <1>2, <1>5, <1>6, <1>7 DEF ArchiveBasics, Due, NoScrape
  <1>9. FeedInOrder'
    BY <1>5 DEF FeedInOrder, IsInjective
  <1>10. RunKnowsTheArchive'
    BY <1>5 DEF RunKnowsTheArchive
  <1>11. \A p : ~StillToCome(p)
    BY <1>1 DEF StillToCome
  <1>12. Due' = Due
    BY <1>1 DEF Due
  <1>13. CompleteSoFar'
    <2>1. undisturbed' >= 1 => u >= 0
      BY <1>4
    <2>2. undisturbed' = 2 => u >= 1
      BY <1>4
    <2>3. u >= 0 => \A p \in Due : p \in Read(archived) \/ SharesItsLine(p, archived)
      BY <1>1, <1>2, <1>3, <1>11 DEF CompleteSoFar
    <2>4. u >= 0 /\ (TornEnd(archived) \/ u >= 1) => Due \subseteq Read(archived)
      BY <1>1, <1>2, <1>3, <1>11 DEF CompleteSoFar
    <2>5. u >= 1 => u >= 0
      OBVIOUS
    <2>6. undisturbed' >= 1 => \A p \in Due : p \in Read(archived) \/ SharesItsLine(p, archived)
      BY <2>1, <2>3
    <2>7. (undisturbed' >= 1 /\ TornEnd(archived)) \/ undisturbed' = 2 => Due \subseteq Read(archived)
      BY <2>1, <2>2, <2>4, <2>5
    <2>8. QED
      BY <1>1, <1>5, <1>12, <2>6, <2>7 DEF CompleteSoFar
  <1>14. ExtractIsCurrent'
    BY <1>1, <1>2, <1>12 DEF ExtractIsCurrent
  <1>15. QED
    BY <1>8, <1>9, <1>10, <1>13, <1>14 DEF ArchiveInv

LEMMA ChannelCutOffKeeps ==
    ASSUME ArchiveInv, ChannelCutOff PROVE ArchiveInv'
  <1>1. /\ cuts < MaxCuts /\ cuts' = cuts + 1 /\ scraping' = [scraping EXCEPT !.feed = <<>>]
        /\ undisturbed' = -1 /\ scrapes' = scrapes
        /\ posted' = posted /\ archived' = archived /\ extract' = extract /\ scraping.feed # <<>>
    BY DEF ChannelCutOff
  <1>2. ArchiveBasics /\ ExtractIsCurrent /\ RunKnowsTheArchive /\ FeedInOrder
    BY DEF ArchiveInv
  <1>3. PICK s \in ScrapeRuns : s = scraping
    BY <1>2 DEF ArchiveBasics
  <1>4. /\ scraping'.on = s.on /\ scraping'.existing = s.existing /\ scraping'.channels = s.channels
        /\ scraping'.feed = <<>> /\ DOMAIN scraping'.feed = {}
        /\ scraping' \in ScrapeRuns
    <2>1. <<>> \in Seq(Posts) /\ DOMAIN <<>> = {}
      OBVIOUS
    <2>2. QED
      BY <1>1, <1>3, <2>1, ScrapeGoesOn
  <1>5. cuts' \in 0 .. MaxCuts
    BY <1>1, <1>2, CutCounted
  <1>6. s.on
    BY <1>1, <1>2, <1>3 DEF ArchiveBasics, NoScrape
  <1>a. undisturbed' \in -1 .. 2 /\ Due' = Due /\ scraping'.on
    <2>1. -1 \in -1 .. 2
      OBVIOUS
    <2>2. QED
      BY <1>1, <1>4, <1>6, <2>1 DEF Due
  <1>7. ArchiveBasics'
    BY <1>1, <1>2, <1>4, <1>5, <1>a DEF ArchiveBasics
  <1>8. FeedInOrder'
    BY <1>2, <1>3, <1>4 DEF FeedInOrder
  <1>9. \A p : StillToCome(p)' => StillToCome(p)
    BY <1>3, <1>4 DEF StillToCome
  <1>10. ~(undisturbed' >= 1) /\ ~(undisturbed' >= 0) /\ undisturbed' # 2
    BY <1>1
  <1>11. RunKnowsTheArchive'
    BY <1>1, <1>2, <1>3, <1>4, <1>6, <1>9, <1>10 DEF RunKnowsTheArchive
  <1>12. CompleteSoFar'
    BY <1>10 DEF CompleteSoFar
  <1>13. ExtractIsCurrent'
    BY <1>1, <1>2 DEF ExtractIsCurrent, Due
  <1>14. QED
    BY <1>7, <1>8, <1>11, <1>12, <1>13 DEF ArchiveInv

LEMMA AsSequence ==
    ASSUME NEW S, NEW n \in Nat, NEW s \in [1 .. n -> S] PROVE s \in Seq(S)
  OBVIOUS

\* The messages of a channel, newest first.
LEMMA NewestFirstIs ==
    ASSUME ArchiveBasics, NEW c
    PROVE  LET own == {p \in posted : p.channel = c}
           IN /\ NewestFirst(c) \in Seq(own)
              /\ \A p \in own : \E k \in DOMAIN NewestFirst(c) : NewestFirst(c)[k] = p
              /\ \A i, j \in DOMAIN NewestFirst(c) : i < j => NewestFirst(c)[i].msg > NewestFirst(c)[j].msg
  <1> DEFINE own == {p \in posted : p.channel = c}
             numbered == [p \in own |-> p.msg]
  <1>1. posted \in SUBSET Posts
    BY DEF ArchiveBasics
  <1>2. IsFiniteSet(own)
    <2>1. own \subseteq Posts /\ IsFiniteSet(Posts)
      BY <1>1, ArchiveAssumption
    <2>2. QED
      BY <2>1, FS_Subset
  <1>3. numbered \in [own -> Nat] /\ \A x, y \in own : numbered[x] = numbered[y] => x = y
    BY <1>1, ArchiveAssumption, PostParts
  <1>4. Falling(own, numbered) # {}
    BY <1>2, <1>3, FallingExists
  <1>5. PICK f \in Bijection(1 .. Cardinality(own), own) :
                 \A i, j \in 1 .. Cardinality(own) : i < j => numbered[f[i]] > numbered[f[j]]
    BY <1>4 DEF Falling
  <1>6. \A s \in Bijection(1 .. Cardinality(own), own) :
           /\ DOMAIN s = 1 .. Cardinality(own) /\ \A i \in DOMAIN s : s[i] \in own
           /\ \A p \in own : \E k \in DOMAIN s : s[k] = p
    BY DEF Bijection, Injection, Surjection
  <1>7. \A i, j \in DOMAIN f : i < j => f[i].msg > f[j].msg
    BY <1>5, <1>6
  <1>8. /\ NewestFirst(c) \in Bijection(1 .. Cardinality(own), own)
        /\ \A i, j \in DOMAIN NewestFirst(c) : i < j => NewestFirst(c)[i].msg > NewestFirst(c)[j].msg
    BY <1>5, <1>7 DEF NewestFirst
  <1>9. Cardinality(own) \in Nat
    BY <1>2, FS_CardinalityType
  <1>10. NewestFirst(c) \in Seq(own)
    <2>1. NewestFirst(c) \in [1 .. Cardinality(own) -> own]
      BY <1>8 DEF Bijection, Injection
    <2>2. QED
      BY <1>9, <2>1, AsSequence
  <1>11. QED
    BY <1>6, <1>8, <1>10

LEMMA NextChannelKeeps ==
    ASSUME ArchiveInv, NextChannel PROVE ArchiveInv'
  <1>1. /\ scraping.on /\ scraping.feed = <<>> /\ scraping.channels # <<>>
        /\ scraping' = [scraping EXCEPT !.channels = Tail(@), !.feed = NewestFirst(Head(scraping.channels))]
        /\ posted' = posted /\ archived' = archived /\ scrapes' = scrapes /\ cuts' = cuts
        /\ undisturbed' = undisturbed /\ extract' = extract
    BY DEF NextChannel
  <1>2. ArchiveBasics /\ FeedInOrder /\ ExtractIsCurrent /\ RunKnowsTheArchive /\ CompleteSoFar
    BY DEF ArchiveInv
  <1>3. PICK s \in ScrapeRuns : s = scraping
    BY <1>2 DEF ArchiveBasics
  <1>4. PICK ch \in Seq(ToSet(ChannelOrder)) : ch = s.channels
    BY DEF ScrapeRuns
  <1>5. PICK c : c = Head(ch)
    OBVIOUS
  <1>6. /\ ch # <<>> /\ Tail(ch) \in Seq(ToSet(ChannelOrder)) /\ DOMAIN ch = 1 .. Len(ch) /\ Len(ch) \in Nat
        /\ DOMAIN Tail(ch) = 1 .. Len(ch) - 1 /\ \A k \in 1 .. Len(ch) - 1 : Tail(ch)[k] = ch[k + 1]
        /\ c = ch[1] /\ 1 \in DOMAIN ch
    <2>1. ch # <<>>
      BY <1>1, <1>3, <1>4
    <2>2. QED
      BY <1>5, <2>1
  <1>7. PICK f : f = NewestFirst(c)
    OBVIOUS
  <1>8. /\ f \in Seq(Posts) /\ \A k \in DOMAIN f : f[k] \in posted /\ f[k].channel = c
        /\ \A p \in posted : p.channel = c => \E k \in DOMAIN f : f[k] = p
        /\ \A i, j \in DOMAIN f : i < j => f[i].msg > f[j].msg
    <2> DEFINE own == {p \in posted : p.channel = c}
    <2>1. /\ f \in Seq(own) /\ \A p \in own : \E k \in DOMAIN f : f[k] = p
          /\ \A i, j \in DOMAIN f : i < j => f[i].msg > f[j].msg
      BY <1>2, <1>7, NewestFirstIs
    <2>2. own \subseteq Posts
      BY <1>2 DEF ArchiveBasics
    <2>3. \A k \in DOMAIN f : f[k] \in own
      BY <2>1
    <2>4. f \in Seq(Posts)
      BY <2>1, <2>2
    <2>5. QED
      BY <2>1, <2>3, <2>4
  <1>9. /\ scraping'.on = s.on /\ scraping'.existing = s.existing /\ scraping'.channels = Tail(ch)
        /\ scraping'.feed = f /\ scraping' \in ScrapeRuns
    <2>1. scraping' = [s EXCEPT !.channels = Tail(ch), !.feed = f]
      BY <1>1, <1>3, <1>4, <1>5, <1>7
    <2>2. QED
      BY <1>6, <1>8, <2>1 DEF ScrapeRuns
  <1>10. Due' = Due /\ scraping'.on /\ s.on
    BY <1>1, <1>3, <1>9 DEF Due
  <1>11. ArchiveBasics'
    BY <1>1, <1>2, <1>9, <1>10 DEF ArchiveBasics
  <1>12. \A i, j \in DOMAIN ch : i # j => ch[i] # ch[j]
    BY <1>2, <1>3, <1>4 DEF FeedInOrder, IsInjective
  <1>13. FeedInOrder'
    <2>1. \A k \in 1 .. Len(ch) - 1 : k + 1 \in DOMAIN ch /\ k + 1 # 1
      BY <1>6
    <2>2. \A k \in DOMAIN Tail(ch) : Tail(ch)[k] # c
      BY <1>6, <1>12, <2>1
    <2>3. \A i, j \in DOMAIN Tail(ch) : Tail(ch)[i] = Tail(ch)[j] => i = j
      <3> SUFFICES ASSUME NEW i \in 1 .. Len(ch) - 1, NEW j \in 1 .. Len(ch) - 1, i # j
                   PROVE  Tail(ch)[i] # Tail(ch)[j]
        BY <1>6
      <3>1. i + 1 # j + 1
        OBVIOUS
      <3>2. QED
        BY <1>6, <1>12, <2>1, <3>1
    <2>4. \A i, j \in DOMAIN f : i < j => f[i].channel = f[j].channel /\ f[i].msg > f[j].msg
      BY <1>8
    <2>5. \A i \in DOMAIN f : \A k \in DOMAIN Tail(ch) : Tail(ch)[k] # f[i].channel
      BY <1>8, <2>2
    <2>6. IsInjective(Tail(ch))
      BY <2>3 DEF IsInjective
    <2>7. \A i \in DOMAIN f : f[i] \in posted'
      BY <1>1, <1>8
    <2>8. scraping'.channels = Tail(ch) /\ scraping'.feed = f
      BY <1>9
    <2>9. QED
      BY <2>4, <2>5, <2>6, <2>7, <2>8 DEF FeedInOrder
  <1>14. ASSUME NEW p \in posted, StillToCome(p) PROVE StillToCome(p)'
    <2>1. PICK k \in DOMAIN ch : ch[k] = p.channel
      BY <1>1, <1>3, <1>4, <1>14 DEF StillToCome
    <2>2. CASE k = 1
      BY <1>6, <1>8, <1>9, <2>1, <2>2 DEF StillToCome
    <2>3. CASE k # 1
      <3>1. k - 1 \in DOMAIN Tail(ch) /\ Tail(ch)[k - 1] = ch[k]
        BY <1>6, <2>3
      <3>2. QED
        BY <1>9, <2>1, <3>1 DEF StillToCome
    <2>4. QED
      BY <2>2, <2>3
  <1>15. ASSUME NEW p, StillToCome(p)' PROVE StillToCome(p)
    <2>1. CASE \E k \in DOMAIN f : f[k] = p
      BY <1>3, <1>4, <1>6, <1>8, <2>1 DEF StillToCome
    <2>2. CASE \E k \in DOMAIN Tail(ch) : Tail(ch)[k] = p.channel
      <3>1. \A k \in 1 .. Len(ch) - 1 : k + 1 \in DOMAIN ch
        BY <1>6
      <3>2. QED
        BY <1>3, <1>4, <1>6, <2>2, <3>1 DEF StillToCome
    <2>3. QED
      BY <1>9, <1>15, <2>1, <2>2 DEF StillToCome
  <1>16. RunKnowsTheArchive'
    BY <1>1, <1>2, <1>3, <1>9, <1>15 DEF RunKnowsTheArchive
  <1>17. CompleteSoFar'
    <2>1. \A p \in Due : StillToCome(p) => StillToCome(p)'
      BY <1>14 DEF Due
    <2>2. QED
      BY <1>1, <1>2, <1>10, <2>1 DEF CompleteSoFar
  <1>18. ExtractIsCurrent'
    BY <1>1, <1>2, <1>10 DEF ExtractIsCurrent
  <1>19. QED
    BY <1>11, <1>13, <1>16, <1>17, <1>18 DEF ArchiveInv

\* A record is written: the message is due and no line holds it by itself, and if the last
\* line is torn then no run came to its end since the last one that did not.
LEMMA WhatIsWritten ==
    ASSUME ArchiveInv, scraping.feed # <<>>, NEW p, p = Head(scraping.feed),
           p.at >= ScrapeFrom, WantedPost(p)
    PROVE  /\ scraping.on /\ p \in Posts /\ p \in Due /\ p \notin Read(archived)
           /\ \A q \in Read(archived) : Key(q) # Key(p)
           /\ ~(TornEnd(archived) /\ undisturbed >= 1) /\ undisturbed # 2
  <1>1. ArchiveBasics /\ FeedInOrder /\ RunKnowsTheArchive /\ CompleteSoFar
    BY DEF ArchiveInv
  <1>2. PICK f \in Seq(Posts) : f = scraping.feed
    BY <1>1 DEF ArchiveBasics, ScrapeRuns
  <1>3. 1 \in DOMAIN f /\ f[1] = p /\ p \in Posts
    BY <1>2
  <1>4. scraping.on
    BY <1>1 DEF ArchiveBasics, NoScrape
  <1>5. p \in posted /\ StillToCome(p)
    BY <1>1, <1>2, <1>3 DEF FeedInOrder, StillToCome
  <1>6. p \in Due /\ Key(p) \notin scraping.existing
    BY <1>5 DEF Due, WantedPost
  <1>7. p \notin Read(archived)
    BY <1>1, <1>4, <1>5, <1>6 DEF RunKnowsTheArchive
  <1>8. \A q \in Read(archived) : Key(q) # Key(p)
    BY <1>1, <1>3, <1>7, LinesAreDue, KeysTell
  <1>9. ~(TornEnd(archived) /\ undisturbed >= 1) /\ undisturbed # 2
    BY <1>1, <1>6, <1>7 DEF CompleteSoFar
  <1>10. QED
    BY <1>3, <1>4, <1>6, <1>7, <1>8, <1>9

\* The rest of the feed after its head.
LEMMA FeedMoves ==
    ASSUME ArchiveBasics, FeedInOrder, scraping.feed # <<>>, NEW p, p = Head(scraping.feed),
           NEW f, p.at < ScrapeFrom => f = <<>>, ~(p.at < ScrapeFrom) => f = Tail(scraping.feed)
    PROVE  /\ f \in Seq(Posts)
           /\ \A i \in DOMAIN f : f[i] # p /\ \E k \in DOMAIN scraping.feed : scraping.feed[k] = f[i]
           /\ \A i, j \in DOMAIN f : i < j => f[i].channel = f[j].channel /\ f[i].msg > f[j].msg
           /\ \A k \in DOMAIN scraping.feed :
                 \/ scraping.feed[k] = p
                 \/ scraping.feed[k].at < ScrapeFrom
                 \/ \E i \in DOMAIN f : f[i] = scraping.feed[k]
  <1>1. PICK g \in Seq(Posts) : g = scraping.feed
    BY DEF ArchiveBasics, ScrapeRuns
  <1>2. /\ DOMAIN g = 1 .. Len(g) /\ Len(g) \in Nat /\ Len(g) >= 1 /\ g[1] = p /\ 1 \in DOMAIN g
        /\ Tail(g) \in Seq(Posts) /\ DOMAIN Tail(g) = 1 .. Len(g) - 1
        /\ \A k \in 1 .. Len(g) - 1 : Tail(g)[k] = g[k + 1]
    BY <1>1
  <1>3. \A k \in DOMAIN g : g[k] \in Posts
    BY <1>1
  <1>4. \A i, j \in DOMAIN g : i < j => g[i].channel = g[j].channel /\ g[i].msg > g[j].msg
    BY <1>1 DEF FeedInOrder
  <1>5. CASE p.at < ScrapeFrom
    <2>1. f = <<>> /\ DOMAIN f = {} /\ f \in Seq(Posts)
      <3>1. <<>> \in Seq(Posts) /\ DOMAIN <<>> = {}
        OBVIOUS
      <3>2. QED
        BY <1>5, <3>1
    <2>2. ASSUME NEW k \in DOMAIN g PROVE g[k].at < ScrapeFrom
      <3>1. CASE k = 1
        BY <1>2, <1>5, <3>1
      <3>2. CASE k # 1
        <4>1. 1 < k
          BY <1>2, <3>2
        <4>2. p.channel = g[k].channel /\ p.msg > g[k].msg
          BY <1>2, <1>4, <4>1
        <4>3. p \in Posts /\ g[k] \in Posts
          BY <1>2, <1>3
        <4>4. p.msg \in Nat /\ p.at \in Nat /\ g[k].msg \in Nat /\ g[k].at \in Nat /\ ScrapeFrom \in Nat
          BY <4>3, PostParts, ArchiveAssumption
        <4>5. g[k].msg < p.msg
          BY <4>2, <4>4
        <4>6. g[k].at <= p.at
          BY <4>2, <4>3, <4>5, ArchiveAssumption
        <4>7. QED
          BY <1>5, <4>4, <4>6
      <3>3. QED
        BY <3>1, <3>2
    <2>3. QED
      BY <1>1, <2>1, <2>2
  <1>6. CASE ~(p.at < ScrapeFrom)
    <2>1. f = Tail(g)
      BY <1>1, <1>6
    <2>2. \A k \in 1 .. Len(g) - 1 : k + 1 \in DOMAIN g /\ 1 < k + 1
      BY <1>2
    <2>3. ASSUME NEW i \in DOMAIN f PROVE f[i] # p /\ \E k \in DOMAIN g : g[k] = f[i]
      <3>1. i \in 1 .. Len(g) - 1 /\ f[i] = g[i + 1] /\ i + 1 \in DOMAIN g /\ 1 < i + 1
        BY <1>2, <2>1, <2>2
      <3>2. g[1].msg > g[i + 1].msg /\ g[1].msg \in Nat
        BY <1>2, <1>3, <1>4, <3>1, PostParts
      <3>3. g[1] # g[i + 1]
        BY <3>2
      <3>4. QED
        BY <1>2, <3>1, <3>3
    <2>4. ASSUME NEW i \in DOMAIN f, NEW j \in DOMAIN f, i < j
          PROVE  f[i].channel = f[j].channel /\ f[i].msg > f[j].msg
      <3>1. i + 1 \in DOMAIN g /\ j + 1 \in DOMAIN g /\ i + 1 < j + 1 /\ f[i] = g[i + 1] /\ f[j] = g[j + 1]
        <4>1. i \in 1 .. Len(g) - 1 /\ j \in 1 .. Len(g) - 1
          BY <1>2, <2>1
        <4>2. i + 1 < j + 1
          BY <2>4, <4>1
        <4>3. QED
          BY <1>2, <2>1, <2>2, <4>1, <4>2
      <3>2. QED
        BY <1>4, <3>1
    <2>5. ASSUME NEW k \in DOMAIN g, g[k] # p PROVE \E i \in DOMAIN f : f[i] = g[k]
      <3>1. k # 1
        BY <1>2, <2>5
      <3>2. k - 1 \in DOMAIN f /\ f[k - 1] = g[k]
        BY <1>2, <2>1, <3>1
      <3>3. QED
        BY <3>2
    <2>6. f \in Seq(Posts)
      BY <1>2, <2>1
    <2>7. QED
      BY <1>1, <2>3, <2>4, <2>5, <2>6
  <1>7. QED
    BY <1>5, <1>6

LEMMA NextMessageKeeps ==
    ASSUME ArchiveInv, NextMessage PROVE ArchiveInv'
  <1>1. PICK p : p = Head(scraping.feed)
    OBVIOUS
  <1>2. PICK f : f = (IF p.at < ScrapeFrom THEN <<>> ELSE Tail(scraping.feed))
    OBVIOUS
  <1>3. /\ scraping.feed # <<>> /\ scraping' = [scraping EXCEPT !.feed = f]
        /\ archived' = IF p.at >= ScrapeFrom /\ WantedPost(p) THEN Lengthened(archived, p, "whole") ELSE archived
        /\ posted' = posted /\ scrapes' = scrapes /\ cuts' = cuts
        /\ undisturbed' = undisturbed /\ extract' = extract
    BY <1>1, <1>2 DEF NextMessage
  <1>4. ArchiveBasics /\ FeedInOrder /\ RunKnowsTheArchive /\ CompleteSoFar /\ ExtractIsCurrent
    BY DEF ArchiveInv
  <1>5. PICK s \in ScrapeRuns : s = scraping
    BY <1>4 DEF ArchiveBasics
  <1>6. /\ f \in Seq(Posts)
        /\ \A i \in DOMAIN f : f[i] # p /\ \E k \in DOMAIN s.feed : s.feed[k] = f[i]
        /\ \A i, j \in DOMAIN f : i < j => f[i].channel = f[j].channel /\ f[i].msg > f[j].msg
        /\ \A k \in DOMAIN s.feed :
              s.feed[k] = p \/ s.feed[k].at < ScrapeFrom \/ \E i \in DOMAIN f : f[i] = s.feed[k]
    <2>1. /\ f \in Seq(Posts)
          /\ \A i \in DOMAIN f : f[i] # p /\ \E k \in DOMAIN scraping.feed : scraping.feed[k] = f[i]
          /\ \A i, j \in DOMAIN f : i < j => f[i].channel = f[j].channel /\ f[i].msg > f[j].msg
          /\ \A k \in DOMAIN scraping.feed :
                \/ scraping.feed[k] = p
                \/ scraping.feed[k].at < ScrapeFrom
                \/ \E i \in DOMAIN f : f[i] = scraping.feed[k]
      <3>1. (p.at < ScrapeFrom => f = <<>>) /\ (~(p.at < ScrapeFrom) => f = Tail(scraping.feed)) /\ scraping.feed # <<>>
        BY <1>2, <1>3
      <3>2. QED
        BY <1>1, <1>4, <3>1, FeedMoves
    <2>2. QED
      BY <1>5, <2>1
  <1>7. /\ scraping'.on = s.on /\ scraping'.existing = s.existing /\ scraping'.channels = s.channels
        /\ scraping'.feed = f /\ scraping' \in ScrapeRuns
    BY <1>3, <1>5, <1>6, ScrapeGoesOn
  <1>8. p \in Posts /\ p \in posted /\ StillToCome(p) /\ \A k \in DOMAIN s.channels : s.channels[k] # p.channel
    <2>1. PICK g \in Seq(Posts) : g = s.feed
      BY DEF ScrapeRuns
    <2>2. 1 \in DOMAIN g /\ g[1] = p /\ p \in Posts
      BY <1>1, <1>3, <1>5, <2>1
    <2>3. QED
      BY <1>4, <1>5, <2>1, <2>2 DEF FeedInOrder, StillToCome
  <1>9. scraping.on /\ s.on /\ scraping'.on
    BY <1>3, <1>4, <1>5, <1>7 DEF ArchiveBasics, NoScrape
  <1>10. Due' = Due
    BY <1>3 DEF Due
  <1>11. \A q : StillToCome(q)' => StillToCome(q)
    BY <1>5, <1>6, <1>7 DEF StillToCome
  <1>12. ~StillToCome(p)'
    BY <1>6, <1>7, <1>8 DEF StillToCome
  <1>13. \A q \in Due : q # p /\ StillToCome(q) => StillToCome(q)'
    <2>1. \A q \in Due : q.at >= ScrapeFrom /\ q.at \in Nat /\ ScrapeFrom \in Nat
      BY <1>4, LinesAreDue, PostParts, ArchiveAssumption DEF Due
    <2>2. \A q \in Due : ~(q.at < ScrapeFrom)
      BY <2>1
    <2>3. QED
      BY <1>5, <1>6, <1>7, <2>2 DEF StillToCome
  <1>14. FeedInOrder'
    <2>1. \A i \in DOMAIN f : f[i] \in posted' /\ \A k \in DOMAIN s.channels : s.channels[k] # f[i].channel
      BY <1>3, <1>4, <1>5, <1>6 DEF FeedInOrder
    <2>2. IsInjective(s.channels)
      BY <1>4, <1>5 DEF FeedInOrder
    <2>3. scraping'.channels = s.channels /\ scraping'.feed = f
      BY <1>7
    <2>4. QED
      BY <1>6, <2>1, <2>2, <2>3 DEF FeedInOrder
  <1>15. CASE p.at >= ScrapeFrom /\ WantedPost(p)
    <2>1. PICK old \in Seq(ArchiveLines) : old = archived
      BY <1>4 DEF ArchiveBasics
    <2>2. PICK more : more = Lengthened(old, p, "whole")
      OBVIOUS
    <2>3. archived' = more
      BY <1>3, <1>15, <2>1, <2>2
    <2>4. /\ p \in Due /\ p \notin Read(old) /\ \A q \in Read(old) : Key(q) # Key(p)
          /\ ~(TornEnd(old) /\ undisturbed >= 1) /\ undisturbed # 2
      BY <1>1, <1>3, <1>15, <2>1, WhatIsWritten
    <2>5. OncePerKey(old)
      BY <1>4, <2>1 DEF ArchiveBasics
    <2>6. /\ more \in Seq(ArchiveLines) /\ OncePerKey(more) /\ ~TornEnd(more)
          /\ Len(old) \in Nat /\ Len(more) = IF TornEnd(old) THEN Len(old) ELSE Len(old) + 1
          /\ \A q : SharesItsLine(q, old) => SharesItsLine(q, more)
          /\ \A q \in Read(old) : q \in Read(more) \/ SharesItsLine(q, more)
          /\ \A i \in DOMAIN more : \A k \in DOMAIN more[i].recs :
                \/ more[i].recs[k] = p
                \/ \E j \in DOMAIN old : \E m \in DOMAIN old[j].recs : old[j].recs[m] = more[i].recs[k]
          /\ TornEnd(old) => SharesItsLine(p, more) /\ Read(more) \subseteq Read(old)
          /\ ~TornEnd(old) => /\ Read(old) \subseteq Read(more) /\ Read(more) \subseteq Read(old) \cup {p}
                              /\ p \in Read(more)
      <3>1. "whole" \in LineEnds
        BY DEF LineEnds
      <3>2. Grown(old, p, "whole", more)
        BY <1>8, <2>2, <2>4, <2>5, <3>1, LineAdded
      <3>3. ~TornEnd(more) /\ (~TornEnd(old) => p \in Read(more))
        <4>1. "whole" # "cut"
          OBVIOUS
        <4>2. TornEnd(more) <=> "whole" # "whole"
          BY <3>2 DEF Grown
        <4>3. ~TornEnd(old) => ("whole" # "cut" => p \in Read(more))
          BY <3>2 DEF Grown
        <4>4. QED
          BY <4>1, <4>2, <4>3
      <3>4. QED
        BY <3>2, <3>3 DEF Grown
    <2>7. ArchiveBasics'
      <3>1. \A i \in DOMAIN more : \A k \in DOMAIN more[i].recs : more[i].recs[k] \in Due
        <4>1. \A j \in DOMAIN old : \A m \in DOMAIN old[j].recs : old[j].recs[m] \in Due
          BY <1>4, <2>1 DEF ArchiveBasics
        <4>2. QED
          BY <2>4, <2>6, <4>1
      <3>2. extract.lines <= Len(more)
        BY <1>4, <2>1, <2>6 DEF ArchiveBasics
      <3>3. QED
        BY <1>3, <1>4, <1>7, <1>9, <1>10, <2>3, <2>6, <3>1, <3>2 DEF ArchiveBasics
    <2>8. RunKnowsTheArchive'
      <3>1. \A q \in Read(more) : Key(q) \in s.existing \/ ~StillToCome(q)'
        <4>1. \A q \in Read(old) : Key(q) \in s.existing \/ ~StillToCome(q)
          BY <1>4, <1>5, <1>9, <2>1 DEF RunKnowsTheArchive
        <4>2. \A q \in Read(more) : q \in Read(old) \/ q = p
          BY <2>6
        <4>3. QED
          BY <1>11, <1>12, <4>1, <4>2
      <3>2. \A q \in Posts : Key(q) \in s.existing => q \in Read(more) \/ SharesItsLine(q, more)
        <4>1. \A q \in Posts : Key(q) \in s.existing => q \in Read(old) \/ SharesItsLine(q, old)
          BY <1>4, <1>5, <1>9, <2>1 DEF RunKnowsTheArchive
        <4>2. QED
          BY <2>6, <4>1
      <3>3. undisturbed >= 1 => \A q \in Posts : Key(q) \in s.existing => q \in Read(more)
        <4>1. undisturbed >= 1 => \A q \in Posts : Key(q) \in s.existing => q \in Read(old)
          BY <1>4, <1>5, <1>9, <2>1 DEF RunKnowsTheArchive
        <4>2. QED
          BY <2>4, <2>6, <4>1
      <3>4. QED
        BY <1>3, <1>7, <2>3, <2>6, <3>1, <3>2, <3>3 DEF RunKnowsTheArchive
    <2>9. CompleteSoFar'
      <3>1. undisturbed >= 0 => \A q \in Due : StillToCome(q)' \/ q \in Read(more) \/ SharesItsLine(q, more)
        <4>1. undisturbed >= 0 => \A q \in Due : StillToCome(q) \/ q \in Read(old) \/ SharesItsLine(q, old)
          BY <1>4, <1>9, <2>1 DEF CompleteSoFar
        <4>2. p \in Read(more) \/ SharesItsLine(p, more)
          BY <2>6
        <4>3. QED
          BY <1>13, <2>6, <4>1, <4>2
      <3>2. undisturbed >= 1 => ~TornEnd(old) /\ \A q \in Due : StillToCome(q)' \/ q \in Read(more)
        <4>1. undisturbed >= 1 => undisturbed >= 0
          BY <1>4 DEF ArchiveBasics
        <4>2. undisturbed >= 1 => \A q \in Due : StillToCome(q) \/ q \in Read(old)
          BY <1>4, <1>9, <2>1, <4>1 DEF CompleteSoFar
        <4>3. undisturbed >= 1 => p \in Read(more)
          BY <2>4, <2>6
        <4>4. QED
          BY <1>13, <2>4, <2>6, <4>2, <4>3
      <3>3. undisturbed >= 1 => \A q \in Due : q \in Read(more) \/ SharesItsLine(q, more)
        <4>1. undisturbed >= 1 => \A q \in Due : q \in Read(old) \/ SharesItsLine(q, old)
          BY <1>4, <2>1 DEF CompleteSoFar
        <4>2. QED
          BY <2>6, <4>1
      <3>4. QED
        BY <1>3, <1>10, <2>3, <2>4, <2>6, <3>1, <3>2, <3>3 DEF CompleteSoFar
    <2>10. ExtractIsCurrent'
      <3>1. extract.lines = Len(more) => \E q \in Due : q \notin Read(more)
        <4>1. extract.lines <= Len(old) /\ extract.lines \in Nat
          BY <1>4, <2>1 DEF ArchiveBasics
        <4>2. extract.lines = Len(more) => TornEnd(old)
          BY <2>6, <4>1
        <4>3. QED
          BY <2>4, <2>6, <4>2
      <3>2. QED
        BY <1>3, <1>4, <1>10, <2>3, <3>1 DEF ExtractIsCurrent
    <2>11. QED
      BY <1>14, <2>7, <2>8, <2>9, <2>10 DEF ArchiveInv
  <1>16. CASE ~(p.at >= ScrapeFrom /\ WantedPost(p))
    <2>1. archived' = archived
      BY <1>3, <1>16
    <2>2. p \in Due => Key(p) \in s.existing
      BY <1>5, <1>16 DEF Due, WantedPost
    <2>3. ArchiveBasics'
      BY <1>3, <1>4, <1>7, <1>9, <1>10, <2>1 DEF ArchiveBasics
    <2>4. RunKnowsTheArchive'
      BY <1>3, <1>4, <1>5, <1>7, <1>9, <1>11, <2>1 DEF RunKnowsTheArchive
    <2>5. CompleteSoFar'
      <3>1. undisturbed >= 0 => \A q \in Due : StillToCome(q)' \/ q \in Read(archived) \/ SharesItsLine(q, archived)
        <4>1. p \in Due => p \in Read(archived) \/ SharesItsLine(p, archived)
          BY <1>4, <1>5, <1>8, <1>9, <2>2 DEF RunKnowsTheArchive
        <4>2. undisturbed >= 0 => \A q \in Due : StillToCome(q) \/ q \in Read(archived) \/ SharesItsLine(q, archived)
          BY <1>4, <1>9 DEF CompleteSoFar
        <4>3. QED
          BY <1>13, <4>1, <4>2
      <3>2. undisturbed >= 0 /\ (TornEnd(archived) \/ undisturbed >= 1) =>
               \A q \in Due : StillToCome(q)' \/ q \in Read(archived)
        <4>1. TornEnd(archived) \/ undisturbed >= 1 => (p \in Due => p \in Read(archived))
          BY <1>4, <1>5, <1>8, <1>9, <2>2 DEF RunKnowsTheArchive
        <4>2. undisturbed >= 0 /\ (TornEnd(archived) \/ undisturbed >= 1) =>
                 \A q \in Due : StillToCome(q) \/ q \in Read(archived)
          BY <1>4, <1>9 DEF CompleteSoFar
        <4>3. QED
          BY <1>13, <4>1, <4>2
      <3>3. QED
        BY <1>3, <1>4, <1>10, <2>1, <3>1, <3>2 DEF CompleteSoFar
    <2>6. ExtractIsCurrent'
      BY <1>3, <1>4, <1>10, <2>1 DEF ExtractIsCurrent
    <2>7. QED
      BY <1>14, <2>3, <2>4, <2>5, <2>6 DEF ArchiveInv
  <1>17. QED
    BY <1>15, <1>16

LEMMA ScrapeKilledKeeps ==
    ASSUME ArchiveInv, ScrapeKilled PROVE ArchiveInv'
  <1>1. /\ scraping.on /\ cuts < MaxCuts /\ cuts' = cuts + 1 /\ scraping' = NoScrape /\ undisturbed' = 0
        /\ posted' = posted /\ scrapes' = scrapes /\ extract' = extract
    BY DEF ScrapeKilled
  <1>2. ArchiveBasics /\ ExtractIsCurrent
    BY DEF ArchiveInv
  <1>3. scraping'.on = FALSE /\ scraping'.feed = <<>> /\ scraping'.channels = <<>> /\ scraping' \in ScrapeRuns
    BY <1>1 DEF NoScrape, ScrapeRuns
  <1>4. FeedInOrder'
    BY <1>3 DEF FeedInOrder, IsInjective
  <1>5. RunKnowsTheArchive' /\ CompleteSoFar'
    BY <1>1, <1>3 DEF RunKnowsTheArchive, CompleteSoFar
  <1>6. Due' = Due
    BY <1>1 DEF Due
  <1>7. cuts' \in 0 .. MaxCuts /\ undisturbed' \in -1 .. 2
    <2>1. 0 \in -1 .. 2
      OBVIOUS
    <2>2. QED
      BY <1>1, <1>2, <2>1, CutCounted
  <1>8. CASE archived' = archived
    <2>1. ArchiveBasics'
      BY <1>1, <1>2, <1>3, <1>6, <1>7, <1>8 DEF ArchiveBasics
    <2>2. ExtractIsCurrent'
      BY <1>1, <1>2, <1>6, <1>8 DEF ExtractIsCurrent
    <2>3. QED
      BY <1>4, <1>5, <2>1, <2>2 DEF ArchiveInv
  <1>9. CASE /\ scraping.feed # <<>> /\ Head(scraping.feed).at >= ScrapeFrom /\ WantedPost(Head(scraping.feed))
             /\ \E ends \in {"cut", "bare"} : archived' = Lengthened(archived, Head(scraping.feed), ends)
    <2>1. PICK p : p = Head(scraping.feed)
      OBVIOUS
    <2>2. PICK old \in Seq(ArchiveLines) : old = archived
      BY <1>2 DEF ArchiveBasics
    <2>3. PICK e \in LineEnds : archived' = Lengthened(old, p, e)
      BY <1>9, <2>1, <2>2 DEF LineEnds
    <2>4. PICK more : more = Lengthened(old, p, e)
      OBVIOUS
    <2>5. archived' = more
      BY <2>3, <2>4
    <2>6. p \in Posts /\ p \in Due /\ p \notin Read(old) /\ \A q \in Read(old) : Key(q) # Key(p)
      BY <1>9, <2>1, <2>2, WhatIsWritten
    <2>7. OncePerKey(old)
      BY <1>2, <2>2 DEF ArchiveBasics
    <2>8. /\ more \in Seq(ArchiveLines) /\ OncePerKey(more)
          /\ Len(old) \in Nat /\ Len(more) = IF TornEnd(old) THEN Len(old) ELSE Len(old) + 1
          /\ \A i \in DOMAIN more : \A k \in DOMAIN more[i].recs :
                \/ more[i].recs[k] = p
                \/ \E j \in DOMAIN old : \E m \in DOMAIN old[j].recs : old[j].recs[m] = more[i].recs[k]
          /\ TornEnd(old) => Read(more) \subseteq Read(old)
      <3>1. Grown(old, p, e, more)
        BY <2>4, <2>6, <2>7, LineAdded
      <3>2. QED
        BY <3>1 DEF Grown
    <2>9. \A i \in DOMAIN more : \A k \in DOMAIN more[i].recs : more[i].recs[k] \in Due
      BY <1>2, <2>2, <2>6, <2>8 DEF ArchiveBasics
    <2>10. extract.lines <= Len(old) /\ extract.lines \in Nat
      BY <1>2, <2>2 DEF ArchiveBasics
    <2>11. extract.lines <= Len(more) /\ (extract.lines = Len(more) => TornEnd(old))
      BY <2>8, <2>10
    <2>12. ArchiveBasics'
      BY <1>1, <1>2, <1>3, <1>6, <1>7, <2>5, <2>8, <2>9, <2>11 DEF ArchiveBasics
    <2>13. extract.lines = Len(more) => \E q \in Due : q \notin Read(more)
      BY <2>6, <2>8, <2>11
    <2>14. ExtractIsCurrent'
      BY <1>1, <1>2, <1>6, <2>5, <2>13 DEF ExtractIsCurrent
    <2>15. QED
      BY <1>4, <1>5, <2>12, <2>14 DEF ArchiveInv
  <1>10. QED
    BY <1>8, <1>9 DEF ScrapeKilled

\* Of the rows of an extraction no two have the same text, and they are readable lines.
LEMMA ExtractionIs ==
    ASSUME NEW file \in Seq(ArchiveLines)
    PROVE  /\ Extraction(file) \subseteq Read(file)
           /\ \A p, q \in Extraction(file) : p.text = q.text => p = q
           /\ \A p \in Read(file) : p.at >= ScrapeFrom => \E q \in Extraction(file) : q.text = p.text
  <1> DEFINE InTheFrame(k) == Readable(file[k]) /\ file[k].recs[1].at >= ScrapeFrom
             First(k) == \A j \in 1 .. k - 1 : ~(InTheFrame(j) /\ file[j].recs[1].text = file[k].recs[1].text)
  <1>1. \A r : r \in Extraction(file) <=> \E k \in DOMAIN file : r = file[k].recs[1] /\ InTheFrame(k) /\ First(k)
    BY DEF Extraction
  <1>2. DOMAIN file = 1 .. Len(file) /\ Len(file) \in Nat
    OBVIOUS
  <1>3. \A r : r \in Read(file) <=> \E i \in DOMAIN file : Readable(file[i]) /\ file[i].recs[1] = r
    BY ReadIs
  <1>4. Extraction(file) \subseteq Read(file)
    BY <1>1, <1>3
  <1>5. ASSUME NEW p \in Extraction(file), NEW q \in Extraction(file), p.text = q.text PROVE p = q
    <2>1. PICK i \in DOMAIN file : p = file[i].recs[1] /\ InTheFrame(i) /\ First(i)
      BY <1>1
    <2>2. PICK j \in DOMAIN file : q = file[j].recs[1] /\ InTheFrame(j) /\ First(j)
      BY <1>1
    <2> HIDE DEF InTheFrame
    <2>3. ~(i < j)
      <3>1. i < j => i \in 1 .. j - 1
        BY <1>2
      <3>2. QED
        BY <1>5, <2>1, <2>2, <3>1
    <2>4. ~(j < i)
      <3>1. j < i => j \in 1 .. i - 1
        BY <1>2
      <3>2. QED
        BY <1>5, <2>1, <2>2, <3>1
    <2>5. i = j
      BY <1>2, <2>3, <2>4
    <2>6. QED
      BY <2>1, <2>2, <2>5
  <1>6. ASSUME NEW p \in Read(file), p.at >= ScrapeFrom PROVE \E q \in Extraction(file) : q.text = p.text
    <2> DEFINE Same == {k \in DOMAIN file : InTheFrame(k) /\ file[k].recs[1].text = p.text}
    <2>1. Same # {} /\ Same \in SUBSET Nat
      BY <1>2, <1>3, <1>6
    <2>2. PICK k \in Same : \A j \in Same : k <= j
      BY <2>1, LeastNumber
    <2>3. k \in DOMAIN file /\ InTheFrame(k) /\ file[k].recs[1].text = p.text
      BY <2>2
    <2>4. ASSUME NEW j \in 1 .. k - 1 PROVE ~(InTheFrame(j) /\ file[j].recs[1].text = file[k].recs[1].text)
      <3>1. j \in DOMAIN file /\ ~(k <= j)
        BY <1>2, <2>3
      <3>2. j \notin Same
        BY <2>2, <3>1
      <3> HIDE DEF InTheFrame
      <3>3. QED
        BY <2>3, <3>1, <3>2
    <2>5. First(k)
      BY <2>4
    <2>6. file[k].recs[1] \in Extraction(file)
      BY <1>1, <2>3, <2>5
    <2>7. QED
      BY <2>3, <2>6
  <1>7. QED
    BY <1>4, <1>5, <1>6

LEMMA ExtractKeeps ==
    ASSUME ArchiveInv, Extract PROVE ArchiveInv'
  <1>1. /\ extract' = [rows |-> Extraction(archived), lines |-> Len(archived)]
        /\ posted' = posted /\ archived' = archived /\ scraping' = scraping /\ scrapes' = scrapes
        /\ cuts' = cuts /\ undisturbed' = undisturbed
    BY DEF Extract, Extraction
  <1>2. ArchiveBasics /\ FeedInOrder /\ RunKnowsTheArchive /\ CompleteSoFar
    BY DEF ArchiveInv
  <1>3. PICK file \in Seq(ArchiveLines) : file = archived
    BY <1>2 DEF ArchiveBasics
  <1>4. Read(file) \subseteq Posts
    BY <1>2, <1>3, LinesAreDue
  <1>5. Extraction(file) \subseteq Posts /\ \A p, q \in Extraction(file) : p.text = q.text => p = q
    BY <1>4, ExtractionIs
  <1>6. Len(file) \in Nat
    OBVIOUS
  <1>7. /\ extract'.rows = Extraction(archived) /\ extract'.lines = Len(archived)
        /\ extract' \in [rows : SUBSET Posts, lines : Nat]
    BY <1>1, <1>3, <1>5, <1>6
  <1>8. Due' = Due
    BY <1>1 DEF Due
  <1>9. ArchiveBasics'
    BY <1>1, <1>2, <1>3, <1>6, <1>7, <1>8 DEF ArchiveBasics
  <1>10. FeedInOrder' /\ RunKnowsTheArchive' /\ CompleteSoFar'
    BY <1>1, <1>2, <1>8 DEF FeedInOrder, RunKnowsTheArchive, CompleteSoFar, StillToCome
  <1>11. ExtractIsCurrent'
    BY <1>1, <1>3, <1>5, <1>7 DEF ExtractIsCurrent
  <1>12. QED
    BY <1>9, <1>10, <1>11 DEF ArchiveInv

LEMMA ArchiveStutters ==
    ASSUME ArchiveInv, UNCHANGED archiveVars PROVE ArchiveInv'
  BY DEF ArchiveInv, archiveVars, ArchiveBasics, FeedInOrder, RunKnowsTheArchive, CompleteSoFar, ExtractIsCurrent,
         StillToCome, Due

LEMMA ArchiveStep ==
    ASSUME ArchiveInv, [ArchiveNext]_archiveVars PROVE ArchiveInv'
  <1>1. CASE \E p \in Posts : Post(p)
    BY <1>1, PostKeeps
  <1>2. CASE ScrapeStarts
    BY <1>2, ScrapeStartsKeeps
  <1>3. CASE NextChannel
    BY <1>3, NextChannelKeeps
  <1>4. CASE NextMessage
    BY <1>4, NextMessageKeeps
  <1>5. CASE ScrapeEnds
    BY <1>5, ScrapeEndsKeeps
  <1>6. CASE ChannelCutOff
    BY <1>6, ChannelCutOffKeeps
  <1>7. CASE ScrapeKilled
    BY <1>7, ScrapeKilledKeeps
  <1>8. CASE Extract
    BY <1>8, ExtractKeeps
  <1>9. CASE UNCHANGED archiveVars
    BY <1>9, ArchiveStutters
  <1>10. QED
    BY <1>1, <1>2, <1>3, <1>4, <1>5, <1>6, <1>7, <1>8, <1>9 DEF ArchiveNext

LEMMA ArchiveInvShows ==
    ASSUME ArchiveInv PROVE ArchiveIsWhole
  <1>1. ArchiveBasics /\ CompleteSoFar /\ ExtractIsCurrent
    BY DEF ArchiveInv
  <1>2. PICK file \in Seq(ArchiveLines) : file = archived
    BY <1>1 DEF ArchiveBasics
  <1>3. NoLineTwice
    BY <1>1 DEF ArchiveBasics, OncePerKey, NoLineTwice
  <1>4. ASSUME NEW p, SharesItsLine(p, archived)
        PROVE  \E l \in ToSet(archived) : p \in ToSet(l.recs) /\ Len(l.recs) > 1
    <2>1. PICK i \in DOMAIN file : Len(file[i].recs) > 1 /\ \E k \in DOMAIN file[i].recs : file[i].recs[k] = p
      BY <1>2, <1>4 DEF SharesItsLine
    <2>2. QED
      BY <1>2, <2>1 DEF ToSet
  <1>5. NothingElseMissing
    <2> SUFFICES ASSUME NEW p \in Due, p \notin Read(archived)
                 PROVE  /\ undisturbed <= 1
                        /\ undisturbed = 1 => \E l \in ToSet(archived) : p \in ToSet(l.recs) /\ Len(l.recs) > 1
      BY DEF NothingElseMissing
    <2>1. undisturbed \in -1 .. 2 /\ undisturbed # 2
      BY <1>1 DEF ArchiveBasics, CompleteSoFar
    <2>2. undisturbed = 1 => SharesItsLine(p, archived)
      BY <1>1 DEF CompleteSoFar
    <2>3. QED
      BY <1>4, <2>1, <2>2
  <1>6. ExtractIsWhole
    <2>1. \A p, q \in extract.rows : p.text = q.text => p = q
      BY <1>1 DEF ExtractIsCurrent
    <2>2. ASSUME undisturbed = 2, extract.lines = Len(archived)
          PROVE  {p.text : p \in Due} = {p.text : p \in extract.rows}
      <3>1. Due \subseteq Read(archived)
        BY <1>1, <2>2 DEF CompleteSoFar
      <3>2. extract.rows = Extraction(file)
        BY <1>1, <1>2, <2>2, <3>1 DEF ExtractIsCurrent
      <3>3. Extraction(file) \subseteq Due
        BY <1>1, <1>2, ExtractionIs, LinesAreDue
      <3>4. \A p \in Due : \E q \in Extraction(file) : q.text = p.text
        BY <1>2, <3>1, ExtractionIs DEF Due
      <3>5. QED
        BY <3>2, <3>3, <3>4
    <2>3. QED
      BY <2>1, <2>2 DEF ExtractIsWhole
  <1>7. QED
    BY <1>3, <1>5, <1>6 DEF ArchiveIsWhole

-------------------------------------------------------------------------------
(* What the replays start from. *)

StreamEntries == [raw : Nat, at : Nat]

Pulls == [on : BOOLEAN, last : Nat, over : BOOLEAN]

InTheWindow(e) == WindowFrom <= e.at /\ e.at < WindowTo

\* A line that was swapped has the answer to its own text, or a reason to keep its own.
SwappedSoundly(l) ==
    /\ l.raw \in 1 .. StreamLength /\ l.for = rawEntries[l.raw]
    /\ l.by = "nothing" => ~Reanswered[l.for]
    /\ l.by = "live" => \/ l.for \notin DOMAIN Reanswered
                        \/ ~l.for.plain
                        \/ l.raw + KeptStreamed <= StreamLength

\* The stream has the newest entries, one after the other.
StreamInOrder ==
    /\ rawEntries \in Seq(Texts) /\ enrichedEntries \in Seq(StreamEntries)
    /\ Len(enrichedEntries) <= StreamLength
    /\ \A i \in DOMAIN enrichedEntries : enrichedEntries[i].raw = StreamLength - Len(enrichedEntries) + i
    /\ lastAtStart \in Nat /\ lastAtStart <= StreamLength
    /\ pulling \in Pulls /\ pulling.last <= StreamLength

\* The copy rises, up to the last entry seen, and has all of the window that is still there.
CopySoFar ==
    /\ copied \in Seq(StreamEntries)
    /\ \A i \in DOMAIN copied : 1 <= copied[i].raw /\ copied[i].raw <= pulling.last
    /\ \A i, j \in DOMAIN copied : i < j => copied[i].raw < copied[j].raw
    /\ \A k \in DOMAIN enrichedEntries :
          enrichedEntries[k].raw <= pulling.last /\ InTheWindow(enrichedEntries[k]) =>
             \E i \in DOMAIN copied : copied[i] = enrichedEntries[k]
    /\ pulling.over =>
          \A k \in DOMAIN enrichedEntries :
             enrichedEntries[k].raw <= lastAtStart => enrichedEntries[k].raw <= pulling.last

SwapInv ==
    /\ StreamInOrder /\ CopySoFar
    /\ \A i \in DOMAIN swapped : SwappedSoundly(swapped[i])

LEMMA ASequence ==
    ASSUME NEW S, NEW n \in Nat, NEW s \in [1 .. n -> S] PROVE s \in Seq(S)
  OBVIOUS

LEMMA SwapStarts ==
    ASSUME EnrichedSwapInit PROVE SwapInv
  <1>1. /\ rawEntries = <<>> /\ enrichedEntries = <<>> /\ pulling = [on |-> FALSE, last |-> 0, over |-> FALSE]
        /\ lastAtStart = 0 /\ copied = <<>> /\ swapped = <<>>
    BY DEF EnrichedSwapInit
  <1>2. /\ \A S : <<>> \in Seq(S)
        /\ Len(<<>>) = 0 /\ DOMAIN <<>> = {}
    OBVIOUS
  <1>3. pulling \in Pulls /\ pulling.last = 0 /\ pulling.over = FALSE
    BY <1>1 DEF Pulls
  <1>4. StreamInOrder
    BY <1>1, <1>2, <1>3 DEF StreamInOrder, StreamLength
  <1>5. CopySoFar
    BY <1>1, <1>2, <1>3 DEF CopySoFar
  <1>6. QED
    BY <1>1, <1>2, <1>4, <1>5 DEF SwapInv

LEMMA NewsStreamsKeeps ==
    ASSUME SwapInv, NEW x \in Texts, NewsStreams(x) PROVE SwapInv'
  <1>1. StreamInOrder /\ CopySoFar /\ \A i \in DOMAIN swapped : SwappedSoundly(swapped[i])
    BY DEF SwapInv
  <1>2. PICK raws \in Seq(Texts) : raws = rawEntries
    BY <1>1 DEF StreamInOrder
  <1>3. PICK es \in Seq(StreamEntries) : es = enrichedEntries
    BY <1>1 DEF StreamInOrder
  <1>4. PICK n \in Nat : n = Len(raws)
    OBVIOUS
  <1>5. PICK m \in Nat : m = Len(es)
    OBVIOUS
  <1>6. PICK e : e = [raw |-> n + 1, at |-> x.at]
    OBVIOUS
  <1>7. e \in StreamEntries /\ e.raw = n + 1
    BY <1>6, EnrichedSwapAssumption DEF StreamEntries
  <1>8. PICK all : all = Append(es, e)
    OBVIOUS
  <1>9. /\ all \in Seq(StreamEntries) /\ Len(all) = m + 1 /\ DOMAIN all = 1 .. m + 1
        /\ \A i \in 1 .. m : all[i] = es[i]
        /\ all[m + 1] = e
    BY <1>5, <1>7, <1>8
  <1>10. /\ rawEntries' = Append(raws, x)
         /\ enrichedEntries' = IF Len(all) > KeptStreamed THEN Tail(all) ELSE all
         /\ pulling' = pulling /\ lastAtStart' = lastAtStart /\ copied' = copied /\ swapped' = swapped
    BY <1>2, <1>3, <1>4, <1>6, <1>8 DEF NewsStreams, StreamLength
  <1>11. /\ Append(raws, x) \in Seq(Texts) /\ Len(Append(raws, x)) = n + 1
         /\ \A i \in 1 .. n : Append(raws, x)[i] = raws[i]
    BY <1>4
  <1>12. StreamLength = n /\ StreamLength' = n + 1 /\ DOMAIN es = 1 .. m
    BY <1>2, <1>4, <1>5, <1>10, <1>11 DEF StreamLength
  <1>13. m <= n /\ \A i \in 1 .. m : es[i].raw = n - m + i
    BY <1>1, <1>3, <1>5, <1>12 DEF StreamInOrder
  <1>14. \A i \in 1 .. m + 1 : i = m + 1 \/ i \in 1 .. m
    BY <1>5
  <1>15. \A i \in 1 .. m + 1 : all[i].raw = n - m + i
    <2> TAKE i \in 1 .. m + 1
    <2>1. CASE i = m + 1
      BY <1>4, <1>5, <1>7, <1>9, <2>1
    <2>2. CASE i \in 1 .. m
      BY <1>9, <1>13, <2>2
    <2>3. QED
      BY <1>14, <2>1, <2>2
  <1>16. PICK new : new = enrichedEntries'
    OBVIOUS
  <1>17. /\ new \in Seq(StreamEntries) /\ Len(new) <= n + 1
         /\ \A i \in DOMAIN new : new[i].raw = n + 1 - Len(new) + i
         /\ \A i \in DOMAIN new : \E j \in 1 .. m + 1 : new[i] = all[j]
    <2>1. CASE Len(all) > KeptStreamed
      <3>1. new = Tail(all) /\ all # <<>>
        BY <1>5, <1>9, <1>10, <1>16, <2>1
      <3>2. /\ new \in Seq(StreamEntries) /\ Len(new) = m /\ DOMAIN new = 1 .. m
            /\ \A i \in 1 .. m : new[i] = all[i + 1]
        BY <1>5, <1>9, <3>1
      <3>3. \A i \in 1 .. m : i + 1 \in 1 .. m + 1
        BY <1>5
      <3>4. \A i \in 1 .. m : new[i].raw = n + 1 - m + i
        <4> TAKE i \in 1 .. m
        <4>1. new[i].raw = n - m + (i + 1)
          BY <1>15, <3>2, <3>3
        <4>2. QED
          BY <1>4, <1>5, <4>1
      <3>5. Len(new) <= n + 1
        BY <1>4, <1>5, <1>13, <3>2
      <3>6. \A i \in DOMAIN new : new[i].raw = n + 1 - Len(new) + i
        BY <3>2, <3>4
      <3>7. \A i \in DOMAIN new : \E j \in 1 .. m + 1 : new[i] = all[j]
        BY <3>2, <3>3
      <3>8. QED
        BY <3>2, <3>5, <3>6, <3>7
    <2>2. CASE ~(Len(all) > KeptStreamed)
      <3>1. new = all
        BY <1>10, <1>16, <2>2
      <3>2. \A i \in 1 .. m + 1 : all[i].raw = n + 1 - (m + 1) + i
        <4> TAKE i \in 1 .. m + 1
        <4>1. all[i].raw = n - m + i
          BY <1>15
        <4>2. QED
          BY <1>4, <1>5, <4>1
      <3>3. Len(new) <= n + 1
        BY <1>4, <1>5, <1>9, <1>13, <3>1
      <3>4. \A i \in DOMAIN new : new[i].raw = n + 1 - Len(new) + i
        BY <1>9, <3>1, <3>2
      <3>5. QED
        BY <1>9, <3>1, <3>3, <3>4
    <2>3. QED
      BY <2>1, <2>2
  <1>18. StreamInOrder'
    <2>1. lastAtStart \in Nat /\ lastAtStart <= n + 1 /\ pulling \in Pulls /\ pulling.last <= n + 1
      <3>1. lastAtStart \in Nat /\ lastAtStart <= n /\ pulling \in Pulls /\ pulling.last <= n
        BY <1>1, <1>12 DEF StreamInOrder
      <3>2. pulling.last \in Nat
        BY <3>1 DEF Pulls
      <3>3. QED
        BY <1>4, <3>1, <3>2
    <2>2. /\ rawEntries' \in Seq(Texts) /\ enrichedEntries' \in Seq(StreamEntries)
          /\ Len(enrichedEntries') <= StreamLength'
      BY <1>10, <1>11, <1>12, <1>16, <1>17
    <2>3. \A i \in DOMAIN enrichedEntries' : enrichedEntries'[i].raw = StreamLength' - Len(enrichedEntries') + i
      BY <1>12, <1>16, <1>17
    <2>4. /\ lastAtStart' \in Nat /\ lastAtStart' <= StreamLength'
          /\ pulling' \in Pulls /\ pulling'.last <= StreamLength'
      BY <1>10, <1>12, <2>1
    <2>5. QED
      BY <2>2, <2>3, <2>4 DEF StreamInOrder
  <1>19. \A k \in DOMAIN new : new[k].raw = n + 1 \/ \E j \in DOMAIN es : new[k] = es[j]
    BY <1>7, <1>9, <1>12, <1>14, <1>17
  <1>20. pulling.last <= n /\ lastAtStart <= n /\ pulling.last \in Nat /\ lastAtStart \in Nat
    BY <1>1, <1>12 DEF StreamInOrder, Pulls
  <1>21. ~(n + 1 <= pulling.last) /\ ~(n + 1 <= lastAtStart)
    BY <1>4, <1>20
  <1>22. CopySoFar'
    <2>1. \A k \in DOMAIN new : new[k].raw <= pulling.last /\ InTheWindow(new[k]) =>
                                   \E i \in DOMAIN copied : copied[i] = new[k]
      BY <1>1, <1>3, <1>19, <1>21 DEF CopySoFar
    <2>2. pulling.over => \A k \in DOMAIN new : new[k].raw <= lastAtStart => new[k].raw <= pulling.last
      BY <1>1, <1>3, <1>19, <1>21 DEF CopySoFar
    <2>3. QED
      BY <1>1, <1>10, <1>16, <2>1, <2>2 DEF CopySoFar, InTheWindow
  <1>23. ASSUME NEW i \in DOMAIN swapped PROVE SwappedSoundly(swapped[i])'
    <2>1. PICK l : l = swapped[i]
      OBVIOUS
    <2>2. /\ l.raw \in 1 .. n /\ l.for = raws[l.raw]
          /\ l.by = "nothing" => ~Reanswered[l.for]
          /\ l.by = "live" => l.for \notin DOMAIN Reanswered \/ ~l.for.plain \/ l.raw + KeptStreamed <= n
      BY <1>1, <1>2, <1>12, <2>1 DEF SwappedSoundly
    <2>3. l.raw \in 1 .. n + 1 /\ l.for = Append(raws, x)[l.raw]
      BY <1>4, <1>11, <2>2
    <2>4. l.raw + KeptStreamed <= n => l.raw + KeptStreamed <= n + 1
      <3>1. KeptStreamed \in Nat
        BY EnrichedSwapAssumption
      <3>2. QED
        BY <1>4, <2>2, <3>1
    <2>5. swapped'[i] = l
      BY <1>10, <2>1
    <2>6. QED
      BY <1>10, <1>12, <2>2, <2>3, <2>4, <2>5 DEF SwappedSoundly
  <1>24. QED
    BY <1>10, <1>18, <1>22, <1>23 DEF SwapInv

LEMMA PullStartsKeeps ==
    ASSUME SwapInv, PullStarts PROVE SwapInv'
  <1>1. StreamInOrder /\ CopySoFar /\ \A i \in DOMAIN swapped : SwappedSoundly(swapped[i])
    BY DEF SwapInv
  <1>2. /\ ~pulling.on /\ ~pulling.over /\ enrichedEntries # <<>> /\ pulling' = [pulling EXCEPT !.on = TRUE]
        /\ lastAtStart' = Last(enrichedEntries).raw /\ rawEntries' = rawEntries
        /\ enrichedEntries' = enrichedEntries /\ copied' = copied /\ swapped' = swapped
    BY DEF PullStarts
  <1>3. PICK s \in Pulls : s = pulling
    BY <1>1 DEF StreamInOrder
  <1>4. pulling' \in Pulls /\ pulling'.last = s.last /\ pulling'.over = s.over
    BY <1>2, <1>3 DEF Pulls
  <1>5. PICK es \in Seq(StreamEntries) : es = enrichedEntries
    BY <1>1 DEF StreamInOrder
  <1>6. PICK n \in Nat : n = StreamLength
    BY <1>1 DEF StreamInOrder, StreamLength
  <1>7. StreamLength' = n
    BY <1>2, <1>6 DEF StreamLength
  <1>8. PICK m \in Nat : m = Len(es) /\ m \in DOMAIN es /\ Last(es) = es[m] /\ DOMAIN es = 1 .. m
    BY <1>2, <1>5 DEF Last
  <1>9. es[m].raw = n - m + m
    BY <1>1, <1>5, <1>6, <1>8 DEF StreamInOrder
  <1>10. lastAtStart' = n
    BY <1>2, <1>5, <1>6, <1>8, <1>9
  <1>11. StreamInOrder'
    BY <1>1, <1>2, <1>3, <1>4, <1>6, <1>7, <1>10 DEF StreamInOrder
  <1>12. CopySoFar'
    BY <1>1, <1>2, <1>3, <1>4 DEF CopySoFar, InTheWindow
  <1>13. QED
    BY <1>1, <1>2, <1>6, <1>7, <1>11, <1>12 DEF SwapInv, SwappedSoundly

\* A page: what of the stream it has, by the places of its first and last entry; none if
\* there is no entry from the last one seen on.
PageSpans(page, es, m, from) ==
    \/ from = {} /\ page = <<>>
    \/ \E a \in 1 .. m : \E b \in a .. m :
          /\ page = SubSeq(es, a, b) /\ a \in from /\ \A i \in from : a <= i
          /\ b < a + PageEntries - 1 => b = m

LEMMA PageIs ==
    ASSUME StreamInOrder, NEW m \in Nat, m = Len(enrichedEntries),
           NEW from, from = {i \in DOMAIN enrichedEntries : enrichedEntries[i].raw >= pulling.last}
    PROVE  PageSpans(XrangePage, enrichedEntries, m, from)
  <1>1. CASE from = {}
    BY <1>1 DEF XrangePage, PageSpans
  <1>2. CASE from # {}
    <2>1. PICK es \in Seq(StreamEntries) : es = enrichedEntries
      BY DEF StreamInOrder
    <2>2. DOMAIN es = 1 .. m
      BY <2>1
    <2>3. from \in SUBSET Nat /\ from \subseteq 1 .. m
      BY <2>1, <2>2
    <2>4. PICK a : a = Min(from)
      OBVIOUS
    <2>5. a \in from /\ \A i \in from : a <= i
      BY <1>2, <2>3, <2>4, MinOf
    <2>6. a \in 1 .. m /\ PageEntries \in Nat /\ PageEntries > 1
      BY <2>3, <2>5, EnrichedSwapAssumption
    <2>7. PICK c \in Nat : c = a + PageEntries - 1
      BY <2>6
    <2>8. PICK b : b = Min({c, m})
      OBVIOUS
    <2>9. {c, m} \in SUBSET Nat /\ {c, m} # {}
      BY <2>7
    <2>10. b \in {c, m} /\ b <= c /\ b <= m
      BY <2>8, <2>9, MinOf
    <2>11. b \in a .. m /\ (b < a + PageEntries - 1 => b = m)
      BY <2>6, <2>7, <2>10
    <2>12. XrangePage = SubSeq(enrichedEntries, a, b)
      BY <1>2, <2>4, <2>7, <2>8 DEF XrangePage
    <2>13. QED
      BY <2>5, <2>6, <2>11, <2>12 DEF PageSpans
  <1>3. QED
    BY <1>1, <1>2

\* What a page brings: the entries after the last one seen, up to some place, without a
\* gap; and if it ends the pull there is none after that place.
PageBrings(p, es, last, stops, newLast) ==
    /\ p \in Seq(StreamEntries)
    /\ \A i \in DOMAIN p : \E k \in DOMAIN es : p[i] = es[k]
    /\ \A i \in DOMAIN p : last < p[i].raw /\ p[i].raw <= newLast
    /\ \A k \in DOMAIN es : last < es[k].raw /\ es[k].raw <= newLast => \E i \in DOMAIN p : p[i] = es[k]
    /\ last <= newLast /\ newLast \in Nat /\ newLast <= StreamLength
    /\ stops => \A k \in DOMAIN es : es[k].raw <= newLast

LEMMA NewOfPageIs ==
    ASSUME StreamInOrder
    PROVE  PageBrings(NewOfPage, enrichedEntries, pulling.last,
                      NewOfPage = <<>> \/ Len(XrangePage) < PageEntries,
                      IF NewOfPage = <<>> THEN pulling.last ELSE Last(NewOfPage).raw)
  <1>1. PICK es \in Seq(StreamEntries) : es = enrichedEntries
    BY DEF StreamInOrder
  <1>2. PICK m \in Nat : m = Len(es) /\ DOMAIN es = 1 .. m
    OBVIOUS
  <1>3. PICK n \in Nat : n = StreamLength
    BY DEF StreamInOrder, StreamLength
  <1>4. PICK last \in Nat : last = pulling.last
    BY DEF StreamInOrder, Pulls
  <1>5. m <= n /\ last <= n
    BY <1>1, <1>2, <1>3, <1>4 DEF StreamInOrder
  <1>6. \A i \in 1 .. m : es[i].raw = n - m + i /\ es[i] \in StreamEntries
    BY <1>1, <1>2, <1>3 DEF StreamInOrder
  <1>7. \A i, j \in 1 .. m : (es[i].raw < es[j].raw <=> i < j) /\ (es[i].raw <= es[j].raw <=> i <= j)
    <2> TAKE i, j \in 1 .. m
    <2>1. es[i].raw = n - m + i /\ es[j].raw = n - m + j
      BY <1>6
    <2>2. QED
      BY <1>2, <1>3, <2>1
  <1>8. \A i \in 1 .. m : es[i].raw \in Nat /\ es[i].raw <= n
    <2> TAKE i \in 1 .. m
    <2>1. es[i].raw = n - m + i
      BY <1>6
    <2>2. QED
      BY <1>2, <1>3, <1>5, <2>1
  <1>9. PICK from : from = {i \in 1 .. m : es[i].raw >= last}
    OBVIOUS
  <1>10. PICK page : page = XrangePage
    OBVIOUS
  <1>11. PICK new : new = NewOfPage
    OBVIOUS
  <1>12. new = IF page # <<>> /\ Head(page).raw = last THEN Tail(page) ELSE page
    BY <1>4, <1>10, <1>11 DEF NewOfPage
  <1>13. \/ from = {} /\ page = <<>>
         \/ \E a \in 1 .. m : \E b \in a .. m :
               /\ page = SubSeq(es, a, b) /\ a \in from /\ \A i \in from : a <= i
               /\ b < a + PageEntries - 1 => b = m
    <2>1. from = {i \in DOMAIN enrichedEntries : enrichedEntries[i].raw >= pulling.last}
      BY <1>1, <1>2, <1>4, <1>9
    <2>2. m = Len(enrichedEntries)
      BY <1>1, <1>2
    <2>3. PageSpans(XrangePage, enrichedEntries, m, from)
      BY <2>1, <2>2, PageIs
    <2>4. QED
      BY <1>1, <1>10, <2>3 DEF PageSpans
  <1>14. CASE from = {} /\ page = <<>>
    <2>1. new = <<>> /\ new \in Seq(StreamEntries) /\ DOMAIN new = {}
      <3>1. /\ <<>> \in Seq(StreamEntries)
            /\ DOMAIN <<>> = {}
        OBVIOUS
      <3>2. QED
        BY <1>12, <1>14, <3>1
    <2>2. \A k \in 1 .. m : es[k].raw <= last
      BY <1>4, <1>8, <1>9, <1>14
    <2>3. \A k \in 1 .. m : ~(last < es[k].raw /\ es[k].raw <= last)
      BY <1>4, <1>8
    <2>4. PageBrings(new, es, last, TRUE, last)
      BY <1>2, <1>3, <1>4, <1>5, <2>1, <2>2, <2>3 DEF PageBrings
    <2>5. QED
      BY <1>1, <1>4, <1>11, <2>1, <2>4
  <1>15. ASSUME NEW a \in 1 .. m, NEW b \in a .. m,
                page = SubSeq(es, a, b), a \in from, \A i \in from : a <= i, b < a + PageEntries - 1 => b = m
         PROVE  PageBrings(NewOfPage, enrichedEntries, pulling.last,
                           NewOfPage = <<>> \/ Len(XrangePage) < PageEntries,
                           IF NewOfPage = <<>> THEN pulling.last ELSE Last(NewOfPage).raw)
    <2>1. /\ page \in Seq(StreamEntries) /\ Len(page) = b - a + 1 /\ DOMAIN page = 1 .. b - a + 1
          /\ \A i \in 1 .. b - a + 1 : page[i] = es[a + i - 1]
      BY <1>2, <1>15
    <2>2. page # <<>> /\ Head(page) = es[a] /\ 1 \in 1 .. b - a + 1
      <3>1. 1 \in 1 .. b - a + 1 /\ a + 1 - 1 = a
        OBVIOUS
      <3>2. page # <<>> /\ Head(page) = page[1]
        BY <2>1, <3>1
      <3>3. QED
        BY <2>1, <3>1, <3>2
    <2>3. es[a].raw >= last
      BY <1>9, <1>15
    <2>4. \A k \in 1 .. m : last <= es[k].raw => a <= k
      BY <1>4, <1>8, <1>9, <1>15
    \* The first place of what is new.
    <2>5. PICK c \in {a, a + 1} : c = IF es[a].raw = last THEN a + 1 ELSE a
      OBVIOUS
    <2>6. /\ new \in Seq(StreamEntries) /\ Len(new) = b - c + 1 /\ DOMAIN new = 1 .. b - c + 1
          /\ \A i \in 1 .. b - c + 1 : new[i] = es[c + i - 1]
      <3>1. CASE es[a].raw = last
        <4>1. new = Tail(page) /\ c = a + 1
          BY <1>12, <2>2, <2>5, <3>1
        <4>2. /\ new \in Seq(StreamEntries) /\ Len(new) = b - a /\ DOMAIN new = 1 .. b - a
              /\ \A i \in 1 .. b - a : new[i] = page[i + 1]
          BY <2>1, <2>2, <4>1
        <4>3. b - c + 1 = b - a
          BY <4>1
        <4>4. \A i \in 1 .. b - a : i + 1 \in 1 .. b - a + 1 /\ a + (i + 1) - 1 = c + i - 1
          BY <4>1
        <4>5. \A i \in 1 .. b - a : new[i] = es[c + i - 1]
          BY <2>1, <4>2, <4>4
        <4>6. QED
          BY <4>2, <4>3, <4>5
      <3>2. CASE es[a].raw # last
        BY <1>12, <2>1, <2>2, <2>5, <3>2
      <3>3. QED
        BY <3>1, <3>2
    <2>7. \A k \in c .. b : k \in 1 .. m /\ last < es[k].raw
      <3> TAKE k \in c .. b
      <3>1. k \in 1 .. m /\ a <= k
        BY <2>5
      <3>2. es[a].raw <= es[k].raw /\ (a < k => es[a].raw < es[k].raw)
        BY <1>7, <3>1
      <3>3. es[a].raw \in Nat /\ es[k].raw \in Nat
        BY <1>8, <3>1
      <3>4. CASE es[a].raw = last
        <4>1. a < k
          BY <2>5, <3>4
        <4>2. QED
          BY <3>1, <3>2, <3>4, <4>1
      <3>5. CASE es[a].raw # last
        BY <1>4, <2>3, <3>1, <3>2, <3>3, <3>5
      <3>6. QED
        BY <3>4, <3>5
    <2>8. \A k \in 1 .. m : last < es[k].raw => c <= k
      <3> TAKE k \in 1 .. m
      <3> HAVE last < es[k].raw
      <3>1. a <= k
        BY <1>4, <1>8, <2>4
      <3>2. CASE es[a].raw = last
        <4>1. a # k
          BY <1>4, <3>2
        <4>2. QED
          BY <2>5, <3>1, <3>2, <4>1
      <3>3. CASE es[a].raw # last
        BY <2>5, <3>1, <3>3
      <3>4. QED
        BY <3>2, <3>3
    <2>9. \A i \in 1 .. b - c + 1 : c + i - 1 \in c .. b
      BY <2>5
    <2>10. \A k \in c .. b : k - c + 1 \in 1 .. b - c + 1 /\ c + (k - c + 1) - 1 = k
      BY <2>5
    <2>11. PICK to : to = IF new = <<>> THEN last ELSE Last(new).raw
      OBVIOUS
    \* Up to where it goes: the last entry of the page, new or the one seen before.
    <2>12. to = es[b].raw /\ b \in 1 .. m
      <3>1. b \in 1 .. m /\ (c <= b \/ (c = b + 1 /\ a = b))
        <4>1. c = a \/ c = a + 1
          BY <2>5
        <4>2. a <= b /\ (a = b \/ a + 1 <= b) /\ b \in 1 .. m
          OBVIOUS
        <4>3. CASE c = a
          BY <4>2, <4>3
        <4>4. CASE c = a + 1 /\ a = b
          BY <4>2, <4>4
        <4>5. CASE c = a + 1 /\ a + 1 <= b
          BY <4>2, <4>5
        <4>6. QED
          BY <4>1, <4>2, <4>3, <4>4, <4>5
      <3>2. CASE c <= b
        <4>1. new # <<>> /\ Last(new) = new[b - c + 1] /\ b - c + 1 \in 1 .. b - c + 1
          BY <2>5, <2>6, <3>2 DEF Last
        <4>2. c + (b - c + 1) - 1 = b
          BY <2>5
        <4>3. Last(new) = es[b]
          BY <2>6, <4>1, <4>2
        <4>4. QED
          BY <2>11, <3>1, <4>1, <4>3
      <3>3. CASE c = b + 1 /\ a = b
        <4>1. Len(new) = 0
          BY <2>6, <3>3
        <4>2. new = <<>>
          BY <2>6, <4>1
        <4>3. es[a].raw = last
          BY <2>5, <3>3
        <4>4. QED
          BY <2>11, <3>1, <3>3, <4>2, <4>3
      <3>4. QED
        BY <3>1, <3>2, <3>3
    <2>13. \A i \in DOMAIN new : /\ \E k \in DOMAIN es : new[i] = es[k]
                                 /\ last < new[i].raw /\ new[i].raw <= to
      <3> TAKE i \in DOMAIN new
      <3>1. PICK k \in c .. b : new[i] = es[k]
        BY <2>6, <2>9
      <3>2. k \in 1 .. m /\ k <= b
        BY <2>7
      <3>3. es[k].raw <= es[b].raw
        BY <1>7, <2>12, <3>2
      <3>4. QED
        BY <1>2, <2>7, <2>12, <3>1, <3>2, <3>3
    <2>14. ASSUME NEW k \in 1 .. m, last < es[k].raw, es[k].raw <= to PROVE \E i \in DOMAIN new : new[i] = es[k]
      <3>1. c <= k /\ k <= b
        BY <1>7, <2>8, <2>12, <2>14
      <3>2. k \in c .. b
        BY <2>5, <3>1
      <3>3. QED
        BY <2>6, <2>10, <3>2
    <2>15. ASSUME new = <<>> \/ Len(page) < PageEntries, NEW k \in 1 .. m PROVE es[k].raw <= to
      <3>1. b = m
        <4>1. PageEntries \in Nat /\ PageEntries > 1
          BY EnrichedSwapAssumption
        <4>2. Len(page) < PageEntries => b = m
          BY <1>15, <2>1, <4>1
        <4>3. new = <<>> => a = b
          <5>1. new = <<>> => Len(new) = 0
            OBVIOUS
          <5>2. QED
            BY <2>5, <2>6, <5>1
        <4>4. a = b => b = m
          BY <1>15, <4>1
        <4>5. QED
          BY <2>15, <4>2, <4>3, <4>4
      <3>2. QED
        BY <1>7, <2>12, <3>1
    <2>16. last <= to /\ to \in Nat /\ to <= n
      <3>1. to \in Nat /\ to <= n
        BY <1>8, <2>12
      <3>2. es[a].raw <= es[b].raw /\ es[a].raw \in Nat
        BY <1>7, <1>8, <2>12
      <3>3. QED
        BY <1>4, <2>3, <2>12, <3>1, <3>2
    <2>17. PageBrings(new, es, last, new = <<>> \/ Len(page) < PageEntries, to)
      BY <1>2, <1>3, <2>6, <2>13, <2>14, <2>15, <2>16 DEF PageBrings
    <2>18. QED
      BY <1>1, <1>4, <1>10, <1>11, <2>11, <2>17
  <1>16. QED
    BY <1>13, <1>14, <1>15

\* What of a page is copied: its entries of the window, rising.
LEMMA InWindowOfPageIs ==
    ASSUME NEW p \in Seq(StreamEntries), p = NewOfPage, \A i, j \in DOMAIN p : p[i].raw = p[j].raw => p[i] = p[j],
           NEW s, s = InWindowOfPage
    PROVE  /\ s \in Seq(StreamEntries)
           /\ \A i \in DOMAIN s : \E k \in DOMAIN p : s[i] = p[k]
           /\ \A k \in DOMAIN p : InTheWindow(p[k]) => \E i \in DOMAIN s : s[i] = p[k]
           /\ \A i, j \in DOMAIN s : i < j => s[i].raw < s[j].raw
  <1> DEFINE own == {e \in ToSet(p) : InTheWindow(e)}
             numbered == [e \in own |-> e.raw]
  <1>1. \A e : e \in own <=> \E k \in DOMAIN p : e = p[k] /\ InTheWindow(e)
    BY DEF ToSet
  <1>2. own \subseteq StreamEntries
    <2>1. \A k \in DOMAIN p : p[k] \in StreamEntries
      OBVIOUS
    <2>2. QED
      BY <1>1, <2>1
  <1>3. IsFiniteSet(own)
    <2>1. DOMAIN p = 1 .. Len(p) /\ Len(p) \in Nat
      OBVIOUS
    <2>2. IsFiniteSet(DOMAIN p)
      BY <2>1, FS_Interval
    <2> DEFINE all == {p[k] : k \in DOMAIN p}
    <2>3. IsFiniteSet(all)
      <3>1. p \in [DOMAIN p -> all] /\ \A t \in all : \E k \in DOMAIN p : p[k] = t
        OBVIOUS
      <3>2. p \in Surjection(DOMAIN p, all)
        BY <3>1 DEF Surjection
      <3>3. QED
        BY <2>2, <3>2, FS_Surjection
    <2>4. own \subseteq all
      BY <1>1
    <2>5. QED
      BY <2>3, <2>4, FS_Subset
  <1>4. numbered \in [own -> Nat] /\ \A x, y \in own : numbered[x] = numbered[y] => x = y
    <2>1. \A x \in own : x.raw \in Nat
      BY <1>2 DEF StreamEntries
    <2>2. \A x, y \in own : x.raw = y.raw => x = y
      BY <1>1
    <2>3. QED
      BY <2>1, <2>2
  <1>a. \A e \in own : numbered[e] = e.raw
    OBVIOUS
  <1>9. InWindowOfPage = CHOOSE t \in Bijection(1 .. Cardinality(own), own) :
                            \A i, j \in DOMAIN t : i < j => t[i].raw < t[j].raw
    BY DEF InWindowOfPage, InTheWindow
  <1> HIDE DEF own, numbered
  <1>5. Rising(own, numbered) # {}
    BY <1>3, <1>4, RisingExists
  <1>6. PICK f \in Bijection(1 .. Cardinality(own), own) :
                 \A i, j \in 1 .. Cardinality(own) : i < j => numbered[f[i]] < numbered[f[j]]
    BY <1>5 DEF Rising
  <1>7. \A t \in Bijection(1 .. Cardinality(own), own) :
           /\ DOMAIN t = 1 .. Cardinality(own) /\ \A i \in DOMAIN t : t[i] \in own
           /\ \A e \in own : \E k \in DOMAIN t : t[k] = e
    BY DEF Bijection, Injection, Surjection
  <1>8. \A i, j \in DOMAIN f : i < j => f[i].raw < f[j].raw
    <2>1. DOMAIN f = 1 .. Cardinality(own) /\ \A i \in DOMAIN f : f[i] \in own
      BY <1>7
    <2> TAKE i, j \in DOMAIN f
    <2>2. numbered[f[i]] = f[i].raw /\ numbered[f[j]] = f[j].raw
      BY <1>a, <2>1
    <2>3. i < j => numbered[f[i]] < numbered[f[j]]
      BY <1>6, <2>1
    <2>4. QED
      BY <2>2, <2>3
  <1>10. /\ s \in Bijection(1 .. Cardinality(own), own)
         /\ \A i, j \in DOMAIN s : i < j => s[i].raw < s[j].raw
    BY <1>6, <1>8, <1>9
  <1>11. Cardinality(own) \in Nat
    BY <1>3, FS_CardinalityType
  <1>12. s \in Seq(own)
    <2>1. s \in [1 .. Cardinality(own) -> own]
      BY <1>10 DEF Bijection, Injection
    <2>2. QED
      BY <1>11, <2>1, ASequence
  <1>13. s \in Seq(StreamEntries)
    BY <1>2, <1>12
  <1>14. \A i \in DOMAIN s : s[i] \in own
    BY <1>7, <1>10
  <1>15. \A e \in own : \E k \in DOMAIN s : s[k] = e
    BY <1>7, <1>10
  <1>16. QED
    BY <1>1, <1>10, <1>13, <1>14, <1>15

LEMMA PullPageKeeps ==
    ASSUME SwapInv, PullPage PROVE SwapInv'
  <1>1. StreamInOrder /\ CopySoFar /\ \A i \in DOMAIN swapped : SwappedSoundly(swapped[i])
    BY DEF SwapInv
  <1>2. PICK new : new = NewOfPage
    OBVIOUS
  <1>3. PICK stops : stops = (new = <<>> \/ Len(XrangePage) < PageEntries)
    OBVIOUS
  <1>4. PICK to : to = IF new = <<>> THEN pulling.last ELSE Last(new).raw
    OBVIOUS
  <1>5. PICK adds : adds = InWindowOfPage
    OBVIOUS
  <1>6. PICK es \in Seq(StreamEntries) : es = enrichedEntries
    BY <1>1 DEF StreamInOrder
  <1>7. PICK last \in Nat : last = pulling.last
    BY <1>1 DEF StreamInOrder, Pulls
  <1>8. PICK c \in Seq(StreamEntries) : c = copied
    BY <1>1 DEF CopySoFar
  <1>9. /\ copied' = c \o adds /\ pulling' = [on |-> ~stops, over |-> stops, last |-> to]
        /\ rawEntries' = rawEntries /\ enrichedEntries' = enrichedEntries
        /\ lastAtStart' = lastAtStart /\ swapped' = swapped
    BY <1>2, <1>3, <1>4, <1>5, <1>8 DEF PullPage
  <1>10. PageBrings(new, es, last, stops, to)
    BY <1>1, <1>2, <1>3, <1>4, <1>6, <1>7, NewOfPageIs
  <1>11. /\ new \in Seq(StreamEntries)
         /\ \A i \in DOMAIN new : \E k \in DOMAIN es : new[i] = es[k]
         /\ \A i \in DOMAIN new : last < new[i].raw /\ new[i].raw <= to
         /\ \A k \in DOMAIN es : last < es[k].raw /\ es[k].raw <= to => \E i \in DOMAIN new : new[i] = es[k]
         /\ last <= to /\ to \in Nat /\ to <= StreamLength
         /\ stops => \A k \in DOMAIN es : es[k].raw <= to
    BY <1>10 DEF PageBrings
  <1>12. \A i, j \in DOMAIN es : es[i].raw = es[j].raw => es[i] = es[j]
    <2> TAKE i, j \in DOMAIN es
    <2>1. PICK m \in Nat : m = Len(es) /\ DOMAIN es = 1 .. m
      OBVIOUS
    <2>2. PICK n \in Nat : n = StreamLength
      BY <1>1 DEF StreamInOrder, StreamLength
    <2>3. es[i].raw = n - m + i /\ es[j].raw = n - m + j
      BY <1>1, <1>6, <2>1, <2>2 DEF StreamInOrder
    <2>4. es[i].raw = es[j].raw => i = j
      BY <2>1, <2>2, <2>3
    <2>5. QED
      BY <2>4
  <1>13. \A i, j \in DOMAIN new : new[i].raw = new[j].raw => new[i] = new[j]
    BY <1>11, <1>12
  <1>14. /\ adds \in Seq(StreamEntries)
         /\ \A i \in DOMAIN adds : \E k \in DOMAIN new : adds[i] = new[k]
         /\ \A k \in DOMAIN new : InTheWindow(new[k]) => \E i \in DOMAIN adds : adds[i] = new[k]
         /\ \A i, j \in DOMAIN adds : i < j => adds[i].raw < adds[j].raw
    BY <1>2, <1>5, <1>11, <1>13, InWindowOfPageIs
  <1>15. \A i \in DOMAIN adds : last < adds[i].raw /\ adds[i].raw <= to
    BY <1>11, <1>14
  <1>16. PICK x \in Nat : x = Len(c)
    OBVIOUS
  <1>17. PICK y \in Nat : y = Len(adds)
    BY <1>14
  <1>18. PICK both : both = c \o adds
    OBVIOUS
  <1>19. /\ both \in Seq(StreamEntries) /\ DOMAIN both = 1 .. x + y /\ DOMAIN c = 1 .. x /\ DOMAIN adds = 1 .. y
         /\ \A i \in 1 .. x : both[i] = c[i]
         /\ \A i \in 1 .. y : both[x + i] = adds[i]
    BY <1>14, <1>16, <1>17, <1>18
  <1>20. \A i \in 1 .. x + y : i \in 1 .. x \/ (i - x \in 1 .. y /\ x + (i - x) = i /\ x < i)
    BY <1>16, <1>17
  <1>21. \A i \in 1 .. x : i \in 1 .. x + y
    BY <1>16, <1>17
  <1>22. \A i \in 1 .. y : x + i \in 1 .. x + y
    BY <1>16, <1>17
  <1>23. \A i \in 1 .. x : 1 <= c[i].raw /\ c[i].raw <= last /\ c[i].raw \in Nat
    <2>1. \A i \in DOMAIN c : c[i] \in StreamEntries
      OBVIOUS
    <2>2. QED
      BY <1>1, <1>7, <1>8, <1>19, <2>1 DEF CopySoFar, StreamEntries
  <1>24. \A i \in 1 .. y : adds[i].raw \in Nat
    <2>1. \A i \in DOMAIN adds : adds[i] \in StreamEntries
      BY <1>14
    <2>2. QED
      BY <1>19, <2>1 DEF StreamEntries
  <1>25. ASSUME NEW i \in 1 .. x + y
         PROVE  1 <= both[i].raw /\ both[i].raw <= to
    <2>1. CASE i \in 1 .. x
      BY <1>7, <1>11, <1>19, <1>23, <2>1
    <2>2. CASE i - x \in 1 .. y /\ x + (i - x) = i
      <3>1. both[i] = adds[i - x]
        BY <1>19, <2>2
      <3>2. last < adds[i - x].raw /\ adds[i - x].raw <= to /\ adds[i - x].raw \in Nat
        BY <1>15, <1>19, <1>24, <2>2
      <3>3. QED
        BY <1>7, <1>11, <3>1, <3>2
    <2>3. QED
      BY <1>20, <2>1, <2>2
  <1>26. ASSUME NEW i \in 1 .. x + y, NEW j \in 1 .. x + y, i < j PROVE both[i].raw < both[j].raw
    <2>1. CASE j \in 1 .. x
      <3>1. i \in 1 .. x
        BY <1>16, <1>26, <2>1
      <3>2. QED
        BY <1>1, <1>8, <1>19, <1>26, <2>1, <3>1 DEF CopySoFar
    <2>2. CASE i \in 1 .. x /\ j - x \in 1 .. y /\ x + (j - x) = j
      <3>1. both[j] = adds[j - x] /\ both[i] = c[i]
        BY <1>19, <2>2
      <3>2. last < adds[j - x].raw /\ adds[j - x].raw \in Nat /\ c[i].raw <= last /\ c[i].raw \in Nat
        BY <1>15, <1>19, <1>23, <1>24, <2>2
      <3>3. QED
        BY <1>7, <3>1, <3>2
    <2>3. CASE i - x \in 1 .. y /\ x + (i - x) = i /\ j - x \in 1 .. y /\ x + (j - x) = j
      <3>1. both[j] = adds[j - x] /\ both[i] = adds[i - x] /\ i - x < j - x
        <4>1. i - x < j - x
          BY <1>16, <1>26
        <4>2. both[x + (j - x)] = adds[j - x] /\ both[x + (i - x)] = adds[i - x]
          BY <1>19, <2>3
        <4>3. QED
          BY <2>3, <4>1, <4>2
      <3>2. adds[i - x].raw < adds[j - x].raw
        BY <1>14, <1>19, <2>3, <3>1
      <3>3. QED
        BY <3>1, <3>2
    <2>4. QED
      <3>1. j \in 1 .. x \/ i \in 1 .. x \/ (i - x \in 1 .. y /\ x + (i - x) = i)
        BY <1>20
      <3>2. j \in 1 .. x \/ (j - x \in 1 .. y /\ x + (j - x) = j)
        BY <1>20
      <3>3. QED
        BY <2>1, <2>2, <2>3, <3>1, <3>2
  <1>27. ASSUME NEW k \in DOMAIN es, es[k].raw <= to, InTheWindow(es[k])
         PROVE  \E i \in 1 .. x + y : both[i] = es[k]
    <2>1. CASE es[k].raw <= last
      <3>1. PICK i \in 1 .. x : c[i] = es[k]
        BY <1>1, <1>6, <1>7, <1>8, <1>19, <1>27, <2>1 DEF CopySoFar
      <3>2. QED
        BY <1>19, <1>21, <3>1
    <2>2. CASE ~(es[k].raw <= last)
      <3>1. es[k].raw \in Nat
        <4>1. es[k] \in StreamEntries
          OBVIOUS
        <4>2. QED
          BY <4>1 DEF StreamEntries
      <3>2. last < es[k].raw
        BY <1>7, <2>2, <3>1
      <3>3. PICK q \in DOMAIN new : new[q] = es[k]
        BY <1>11, <1>27, <3>2
      <3>4. PICK i \in 1 .. y : adds[i] = es[k]
        BY <1>14, <1>19, <1>27, <3>3
      <3>5. QED
        BY <1>19, <1>22, <3>4
    <2>3. QED
      BY <2>1, <2>2
  <1>28. stops \in BOOLEAN /\ pulling' \in Pulls /\ pulling'.last = to /\ pulling'.over = stops
    <2>1. stops \in BOOLEAN
      BY <1>3
    <2>2. QED
      BY <1>9, <1>11, <2>1 DEF Pulls
  <1>29. StreamLength' = StreamLength
    BY <1>9 DEF StreamLength
  <1>30. StreamInOrder'
    BY <1>1, <1>9, <1>11, <1>28, <1>29 DEF StreamInOrder
  <1>31. CopySoFar'
    <2>1. copied' = both /\ enrichedEntries' = es /\ copied' \in Seq(StreamEntries)
      BY <1>6, <1>9, <1>18, <1>19
    <2>2. \A i \in DOMAIN copied' : 1 <= copied'[i].raw /\ copied'[i].raw <= pulling'.last
      BY <1>19, <1>25, <1>28, <2>1
    <2>3. \A i, j \in DOMAIN copied' : i < j => copied'[i].raw < copied'[j].raw
      BY <1>19, <1>26, <2>1
    <2>4. \A k \in DOMAIN enrichedEntries' :
             enrichedEntries'[k].raw <= pulling'.last /\ InTheWindow(enrichedEntries'[k]) =>
                \E i \in DOMAIN copied' : copied'[i] = enrichedEntries'[k]
      BY <1>19, <1>27, <1>28, <2>1
    <2>5. pulling'.over => \A k \in DOMAIN enrichedEntries' : enrichedEntries'[k].raw <= pulling'.last
      BY <1>11, <1>28, <2>1
    <2>6. QED
      BY <2>1, <2>2, <2>3, <2>4, <2>5 DEF CopySoFar, InTheWindow
  <1>32. QED
    BY <1>1, <1>9, <1>29, <1>30, <1>31 DEF SwapInv, SwappedSoundly

\* The row that the hash of an entry finds is of its own text, or there is none.
LEMMA RowIsOwn ==
    ASSUME NEW x \in Texts
    PROVE  /\ RowOf(ReceiverHash(x)) \subseteq {x}
           /\ x \in DOMAIN Reanswered /\ x.plain => x \in RowOf(ReceiverHash(x))
  <1>1. ASSUME NEW y \in RowOf(ReceiverHash(x)) PROVE y = x
    <2>1. y \in DOMAIN Reanswered /\ ExtractionHash(y) = ReceiverHash(x) /\ y \in Texts
      BY EnrichedSwapAssumption DEF RowOf
    <2>2. ReceiverHash(x).of = "whole" /\ ReceiverHash(x).key = x.key
      BY DEF ReceiverHash
    <2>3. ExtractionHash(y).of = "whole" => y.plain
      BY DEF ExtractionHash, ReceiverHash
    <2>4. ExtractionHash(y).key = y.key
      BY DEF ExtractionHash, ReceiverHash
    <2>5. x.key = y.key
      BY <2>1, <2>2, <2>4
    <2>6. QED
      BY <2>1, <2>5, EnrichedSwapAssumption
  <1>2. x \in DOMAIN Reanswered /\ x.plain => x \in RowOf(ReceiverHash(x))
    BY DEF RowOf, ExtractionHash
  <1>3. QED
    BY <1>1, <1>2

LEMMA TwoMax ==
    ASSUME NEW i \in Int, NEW j \in Int PROVE Max({i, j}) \in {i, j} /\ i <= Max({i, j}) /\ j <= Max({i, j})
  <1>1. \E x \in {i, j} : \A y \in {i, j} : x >= y
    OBVIOUS
  <1>2. Max({i, j}) \in {i, j} /\ \A y \in {i, j} : Max({i, j}) >= y
    BY <1>1 DEF Max
  <1>3. QED
    BY <1>2

LEMMA LineIsSwappedSoundly ==
    ASSUME StreamInOrder, NEW e \in StreamEntries, 1 <= e.raw, e.raw <= StreamLength
    PROVE  SwappedSoundly(SwappedLine(e))
  <1>1. PICK n \in Nat : n = StreamLength
    BY DEF StreamInOrder, StreamLength
  <1>2. PICK k \in 1 .. n : k = e.raw
    BY <1>1 DEF StreamEntries
  <1>3. PICK x \in Texts : x = rawEntries[k]
    BY <1>1 DEF StreamInOrder, StreamLength
  <1>4. PICK row : row = IF e.raw \in RawNow THEN RowOf(ReceiverHash(rawEntries[e.raw])) ELSE {}
    OBVIOUS
  <1>5. PICK l : l = SwappedLine(e)
    OBVIOUS
  <1>6. l = [raw |-> k,
             by  |-> IF row = {} THEN "live" ELSE IF \A y \in row : Reanswered[y] THEN "other" ELSE "nothing",
             for |-> IF row = {} THEN x ELSE CHOOSE y \in row : TRUE]
    BY <1>2, <1>3, <1>4, <1>5 DEF SwappedLine
  <1>7. l.raw = k /\ l.by = IF row = {} THEN "live" ELSE IF \A y \in row : Reanswered[y] THEN "other" ELSE "nothing"
    BY <1>6
  <1>8. l.for = IF row = {} THEN x ELSE CHOOSE y \in row : TRUE
    BY <1>6
  <1>9. row \subseteq {x}
    BY <1>2, <1>3, <1>4, RowIsOwn
  <1>10. l.for = x
    BY <1>8, <1>9
  <1>11. l.by = "nothing" => ~Reanswered[x]
    BY <1>7, <1>9
  <1>12. ASSUME l.by = "live" PROVE x \notin DOMAIN Reanswered \/ ~x.plain \/ k + KeptStreamed <= n
    <2>1. row = {}
      BY <1>7, <1>12
    <2>2. CASE k \in RawNow
      BY <1>2, <1>3, <1>4, <2>1, <2>2, RowIsOwn
    <2>3. CASE k \notin RawNow
      <3>1. KeptStreamed \in Nat
        BY EnrichedSwapAssumption
      <3>2. PICK w : w = Max({1, n - KeptStreamed + 1})
        OBVIOUS
      <3>3. ~(w <= k /\ w \in Int)
        BY <1>1, <2>3, <3>2 DEF RawNow
      <3>4. w \in {1, n - KeptStreamed + 1}
        <4>1. n - KeptStreamed + 1 \in Int /\ 1 \in Int
          BY <3>1
        <4>2. QED
          BY <3>2, <4>1, TwoMax
      <3>5. QED
        BY <3>1, <3>3, <3>4
    <2>4. QED
      BY <2>2, <2>3
  <1>13. QED
    BY <1>1, <1>2, <1>3, <1>5, <1>7, <1>10, <1>11, <1>12 DEF SwappedSoundly

LEMMA SwapRunsKeeps ==
    ASSUME SwapInv, SwapRuns PROVE SwapInv'
  <1>1. StreamInOrder /\ CopySoFar
    BY DEF SwapInv
  <1>2. /\ swapped' = [i \in DOMAIN copied |-> SwappedLine(copied[i])]
        /\ rawEntries' = rawEntries /\ enrichedEntries' = enrichedEntries /\ pulling' = pulling
        /\ lastAtStart' = lastAtStart /\ copied' = copied
    BY DEF SwapRuns
  <1>3. PICK n \in Nat : n = StreamLength
    BY <1>1 DEF StreamInOrder, StreamLength
  <1>4. StreamInOrder' /\ CopySoFar'
    BY <1>1, <1>2 DEF StreamInOrder, CopySoFar, StreamLength, InTheWindow
  <1>5. ASSUME NEW i \in DOMAIN copied PROVE SwappedSoundly(SwappedLine(copied[i]))
    <2>1. copied[i] \in StreamEntries
      BY <1>1 DEF CopySoFar
    <2>2. 1 <= copied[i].raw /\ copied[i].raw <= pulling.last /\ pulling.last <= n /\ pulling.last \in Nat
      BY <1>1, <1>3 DEF CopySoFar, StreamInOrder, Pulls
    <2>3. copied[i].raw <= n
      BY <2>1, <2>2 DEF StreamEntries
    <2>4. QED
      BY <1>1, <1>3, <2>1, <2>2, <2>3, LineIsSwappedSoundly
  <1>6. \A l : SwappedSoundly(l)' <=> SwappedSoundly(l)
    BY <1>2 DEF SwappedSoundly, StreamLength
  <1>7. (\A i \in DOMAIN swapped : SwappedSoundly(swapped[i]))'
    <2>1. PICK sw : sw = swapped'
      OBVIOUS
    <2>2. \A i \in DOMAIN sw : SwappedSoundly(sw[i])
      BY <1>2, <1>5, <2>1
    <2>3. \A i \in DOMAIN sw : SwappedSoundly(sw[i])'
      BY <1>6, <2>2
    <2>4. QED
      BY <2>1, <2>3 DEF SwappedSoundly
  <1>8. QED
    BY <1>4, <1>7 DEF SwapInv

LEMMA SwapStutters ==
    ASSUME SwapInv, UNCHANGED swapVars PROVE SwapInv'
  BY DEF SwapInv, swapVars, StreamInOrder, CopySoFar, SwappedSoundly, StreamLength, InTheWindow

LEMMA SwapStep ==
    ASSUME SwapInv, [EnrichedSwapNext]_swapVars PROVE SwapInv'
  <1>1. CASE \E x \in Texts : NewsStreams(x)
    BY <1>1, NewsStreamsKeeps
  <1>2. CASE PullStarts
    BY <1>2, PullStartsKeeps
  <1>3. CASE PullPage
    BY <1>3, PullPageKeeps
  <1>4. CASE SwapRuns
    BY <1>4, SwapRunsKeeps
  <1>5. CASE UNCHANGED swapVars
    BY <1>5, SwapStutters
  <1>6. QED
    BY <1>1, <1>2, <1>3, <1>4, <1>5 DEF EnrichedSwapNext

LEMMA SwapInvShows ==
    ASSUME SwapInv PROVE ReplayInputIsSound
  <1>1. StreamInOrder /\ CopySoFar /\ \A i \in DOMAIN swapped : SwappedSoundly(swapped[i])
    BY DEF SwapInv
  <1>2. \A e \in ToSet(enrichedEntries) : \E k \in DOMAIN enrichedEntries : e = enrichedEntries[k]
    BY DEF ToSet
  <1>3. \A k \in DOMAIN copied : copied[k] \in ToSet(copied)
    BY DEF ToSet
  <1>4. \A l \in ToSet(swapped) : SwappedSoundly(l)
    BY <1>1 DEF ToSet
  <1>5. CopyIsInOrder
    BY <1>1, <1>2, <1>3 DEF CopyIsInOrder, CopySoFar, InTheWindow
  <1>6. SwapsAreOwn
    BY <1>4 DEF SwapsAreOwn, SwappedSoundly
  <1>7. QED
    BY <1>5, <1>6 DEF ReplayInputIsSound
-------------------------------------------------------------------------------
(* The prices on disk. *)

PriceRows == {r \in Rows : /\ r.cut = "no" => r.ts = r.m
                           /\ r.cut = "before" => r.ts = 0}

FetchedMinutes == TradedMinutes \cap (filling.from .. filling.till)

\* A minute that has its row among these, or whose row was malformed.
HasItsRow(m, list) == m \in skipped \/ \E k \in DOMAIN list : list[k].cut = "no" /\ list[k].m = m

MinutesRise(list) ==
    \A i, j \in DOMAIN list : (i < j /\ list[i].cut = "no" /\ list[j].cut = "no") => list[i].m < list[j].m

\* No minute is missing before a minute that is there.
NoneIsMissing(list) ==
    \A i \in DOMAIN list : list[i].cut = "no" => \A m \in TradedMinutes : m < list[i].m => HasItsRow(m, list)

HasNoHole(list) ==
    \A i \in DOMAIN list : \A m \in TradedMinutes \ skipped :
        m < list[i].m => \E j \in 1 .. i : list[j].m = m

PricesBasics ==
    /\ nowMinute \in 1 .. MaxPrice /\ csv \in Seq(PriceRows) /\ lineEnded \in BOOLEAN
    /\ filling \in [at : {"idle", "fetch", "append"}, from : Nat, till : Nat, start : Nat, rows : Seq(PriceRows)]
    /\ touched \in [{"csv", "parquet"} -> Nat]
    /\ parquet \in [is : {"none", "broken", "whole"}, rows : Seq(PriceRows)]
    /\ reader \in [at : {"idle", "save"}, read : Seq(PriceRows), has : {"none", "failed", "frame"}, frame : Seq(PriceRows)]
    /\ mishaps \in 0 .. MaxFaults /\ skipped \in SUBSET TradedMinutes
    /\ appends \in Nat /\ appends <= touched["csv"] /\ raced \in BOOLEAN

CsvIsComplete ==
    ~Unreadable(csv) =>
        /\ MinutesRise(csv)
        /\ \A m \in TradedMinutes : m <= LastTs => HasItsRow(m, csv)

\* The rows a run holds: of the window, in order, and none of what it has seen missing; only
\* that of the last minute may not be over.
FillIsFaithful ==
    filling.at # "idle" =>
        /\ filling.from = LastTs + 1 /\ filling.till \in 1 .. nowMinute
        /\ \A k \in DOMAIN filling.rows :
             /\ filling.rows[k].cut = "no" /\ filling.rows[k].m \in FetchedMinutes
             /\ filling.rows[k].closed \/ filling.rows[k].m = filling.till
        /\ MinutesRise(filling.rows)
        /\ filling.at = "fetch" =>
             /\ filling.start <= Cardinality(FetchedMinutes)
             /\ \A k \in 1 .. filling.start : HasItsRow(InTime(FetchedMinutes)[k], filling.rows)
             /\ \A i \in DOMAIN filling.rows :
                  \E k \in 1 .. filling.start : filling.rows[i].m = InTime(FetchedMinutes)[k]
        /\ filling.at = "append" =>
             filling.rows # <<>> /\ \A m \in FetchedMinutes : HasItsRow(m, filling.rows)

ReadersAreFaithful ==
    /\ reader.at = "save" /\ ~Unreadable(reader.read) =>
         NoneIsMissing(reader.read)
    /\ parquet.is = "whole" /\ ~Unreadable(parquet.rows) => HasNoHole(parquet.rows)
    /\ HasNoHole(reader.frame)
    /\ ~raced /\ reader.at = "save" => reader.read = csv

PricesInv ==
    /\ PricesBasics /\ CsvIsComplete /\ FillIsFaithful /\ ReadersAreFaithful
    /\ OneUnfinishedPerFetch /\ CopyIsCurrent

\* One sequence after another, place by place.
OneAfter(s, A, B) ==
    /\ s \in Seq(PriceRows) /\ DOMAIN s = 1 .. Len(A) + Len(B)
    /\ \A k \in 1 .. Len(A) : k \in DOMAIN s /\ s[k] = A[k]
    /\ \A q \in 1 .. Len(B) : Len(A) + q \in DOMAIN s /\ s[Len(A) + q] = B[q]
    /\ \A k \in DOMAIN s : k \in 1 .. Len(A) \/ \E q \in 1 .. Len(B) : k = Len(A) + q

LEMMA Joined ==
    ASSUME NEW A \in Seq(PriceRows), NEW B \in Seq(PriceRows) PROVE OneAfter(A \o B, A, B)
  <1>1. PICK h \in Nat : h = Len(A)
    OBVIOUS
  <1>2. PICK c \in Nat : c = Len(B)
    OBVIOUS
  <1> DEFINE s == A \o B
  <1>3. s \in Seq(PriceRows) /\ Len(s) = h + c /\ DOMAIN s = 1 .. h + c
    BY <1>1, <1>2
  <1>4. \A k \in 1 .. h : k \in DOMAIN s /\ s[k] = A[k]
    BY <1>1, <1>2
  <1>5. \A q \in 1 .. c : h + q \in DOMAIN s /\ s[h + q] = B[q]
    <2> TAKE q \in 1 .. c
    <2>1. h + q \in 1 .. h + c /\ h + q > h /\ (h + q) - h = q
      OBVIOUS
    <2>2. QED
      BY <1>3, <1>1, <1>2, <2>1
  <1>6. \A k \in DOMAIN s : k \in 1 .. h \/ \E q \in 1 .. c : k = h + q
    <2> TAKE k \in DOMAIN s
    <2>1. CASE k > h
      <3>1. k - h \in 1 .. c /\ k = h + (k - h)
        BY <1>3, <1>1, <1>2, <2>1
      <3>2. QED
        BY <3>1
    <2>2. CASE ~(k > h)
      BY <1>3, <2>2
    <2>3. QED
      BY <2>1, <2>2
  <1>7. QED
    BY <1>1, <1>2, <1>3, <1>4, <1>5, <1>6 DEF OneAfter

LEMMA InTimeIs ==
    ASSUME NEW S \in SUBSET (1 .. MaxPrice)
    PROVE  /\ Cardinality(S) \in Nat
           /\ InTime(S) \in [1 .. Cardinality(S) -> S]
           /\ \A i, j \in 1 .. Cardinality(S) : i < j => InTime(S)[i] < InTime(S)[j]
           /\ \A m \in S : \E i \in 1 .. Cardinality(S) : InTime(S)[i] = m
  <1>1. MaxPrice \in Nat
    BY PricesAssumption
  <1>2. IsFiniteSet(S) /\ Cardinality(S) \in Nat
    <2>1. IsFiniteSet(1 .. MaxPrice)
      BY <1>1, FS_Interval
    <2>2. QED
      BY <2>1, FS_Subset, FS_CardinalityType
  <1>3. PICK n \in Nat : n = Cardinality(S)
    BY <1>2
  <1> DEFINE num == [m \in S |-> m]
  <1>4. num \in [S -> Nat] /\ \A x, y \in S : num[x] = num[y] => x = y
    BY <1>1
  <1>5. PICK t \in Bijection(1 .. n, S) : \A i, j \in 1 .. n : i < j => num[t[i]] < num[t[j]]
    <2> HIDE DEF num
    <2>1. Rising(S, num) # {}
      BY <1>2, <1>4, RisingExists
    <2>2. QED
      BY <1>3, <2>1 DEF Rising
  <1>6. \A s \in Bijection(1 .. n, S) : s \in [1 .. n -> S] /\ DOMAIN s = 1 .. n /\ \A m \in S : \E i \in 1 .. n : s[i] = m
    BY DEF Bijection, Injection, Surjection
  <1>7. \A i, j \in DOMAIN t : i < j => t[i] < t[j]
    BY <1>5, <1>6
  <1>8. InTime(S) = CHOOSE s \in Bijection(1 .. n, S) : \A i, j \in DOMAIN s : i < j => s[i] < s[j]
    BY <1>3 DEF InTime
  <1>9. InTime(S) \in Bijection(1 .. n, S) /\ \A i, j \in DOMAIN InTime(S) : i < j => InTime(S)[i] < InTime(S)[j]
    BY <1>5, <1>7, <1>8
  <1>10. QED
    BY <1>2, <1>3, <1>6, <1>9

LEMMA BarsOfIs ==
    ASSUME NEW S \in SUBSET (1 .. MaxPrice), nowMinute \in 1 .. MaxPrice
    PROVE  /\ BarsOf(S) \in Seq(PriceRows) /\ Len(BarsOf(S)) = Cardinality(S) /\ DOMAIN BarsOf(S) = 1 .. Cardinality(S)
           /\ \A k \in 1 .. Cardinality(S) :
                /\ BarsOf(S)[k].m = InTime(S)[k] /\ BarsOf(S)[k].cut = "no"
                /\ BarsOf(S)[k].closed <=> InTime(S)[k] < nowMinute
  <1>1. PICK n \in Nat : n = Cardinality(S)
    BY InTimeIs
  <1>2. PICK s : s = InTime(S)
    OBVIOUS
  <1>3. s \in [1 .. n -> S]
    BY <1>1, <1>2, InTimeIs
  <1>4. BarsOf(S) = [i \in 1 .. n |-> WholeRow(s[i], s[i] < nowMinute)]
    BY <1>2, <1>3 DEF BarsOf
  <1>5. ASSUME NEW k \in 1 .. n
        PROVE  /\ WholeRow(s[k], s[k] < nowMinute) \in PriceRows
               /\ WholeRow(s[k], s[k] < nowMinute).m = s[k] /\ WholeRow(s[k], s[k] < nowMinute).cut = "no"
               /\ WholeRow(s[k], s[k] < nowMinute).closed = (s[k] < nowMinute)
    <2>1. PICK m : m = s[k] /\ m \in S
      BY <1>3
    <2>2. m \in 1 .. MaxPrice /\ m \in 0 .. MaxPrice /\ (m < nowMinute) \in BOOLEAN
      BY <2>1, PricesAssumption
    <2>3. QED
      BY <2>1, <2>2 DEF WholeRow, PriceRows, Rows
  <1>6. BarsOf(S) \in [1 .. n -> PriceRows]
    BY <1>4, <1>5
  <1>7. BarsOf(S) \in Seq(PriceRows) /\ Len(BarsOf(S)) = n /\ DOMAIN BarsOf(S) = 1 .. n
    BY <1>6
  <1>8. \A k \in 1 .. n : BarsOf(S)[k] = WholeRow(s[k], s[k] < nowMinute)
    BY <1>4
  <1>9. QED
    BY <1>1, <1>2, <1>5, <1>7, <1>8

\* The read of the CSV: whole rows by rising minutes, each of them once.
LEMMA CleanedIs ==
    ASSUME NEW list \in Seq(PriceRows), NEW c, c = Cleaned(list)
    PROVE  /\ c \in Seq(PriceRows)
           /\ \A k \in DOMAIN c : c[k].cut = "no" /\ \E i \in DOMAIN list : list[i] = c[k]
           /\ \A i, j \in DOMAIN c : i < j => c[i].m < c[j].m
           /\ \A i \in DOMAIN list : list[i].cut = "no" => \E k \in DOMAIN c : c[k].m = list[i].m
  <1> DEFINE timed == {i \in DOMAIN list : list[i].cut = "no"}
             minutes == {list[i].m : i \in timed}
             here(m) == {i \in timed : list[i].m = m}
  <1>1. DOMAIN list \in SUBSET Nat /\ \A i \in DOMAIN list : list[i] \in PriceRows /\ list[i].m \in 1 .. MaxPrice
    BY DEF PriceRows, Rows
  <1>2. minutes \in SUBSET (1 .. MaxPrice)
    BY <1>1
  <1>3. \A m \in minutes : Min(here(m)) \in timed /\ list[Min(here(m))].m = m
    <2> TAKE m \in minutes
    <2>1. here(m) \in SUBSET Nat /\ here(m) # {}
      BY <1>1
    <2>2. Min(here(m)) \in here(m)
      BY <2>1, MinOf
    <2>3. QED
      BY <2>2
  <1>4. PICK n \in Nat : n = Cardinality(minutes)
    BY <1>2, InTimeIs
  <1>5. PICK s : s = InTime(minutes)
    OBVIOUS
  <1>6. /\ s \in [1 .. n -> minutes]
        /\ \A i, j \in 1 .. n : i < j => s[i] < s[j]
        /\ \A m \in minutes : \E i \in 1 .. n : s[i] = m
    BY <1>2, <1>4, <1>5, InTimeIs
  <1>7. c = [k \in 1 .. n |-> list[Min(here(s[k]))]]
    BY <1>5, <1>6 DEF Cleaned
  <1>8. \A k \in 1 .. n : /\ c[k] \in PriceRows /\ c[k].cut = "no" /\ c[k].m = s[k]
                          /\ \E i \in DOMAIN list : list[i] = c[k]
    <2> TAKE k \in 1 .. n
    <2>1. s[k] \in minutes
      BY <1>6
    <2>2. Min(here(s[k])) \in timed /\ list[Min(here(s[k]))].m = s[k]
      BY <1>3, <2>1
    <2>3. c[k] = list[Min(here(s[k]))]
      BY <1>7
    <2>4. QED
      BY <1>1, <2>2, <2>3
  <1>9. DOMAIN c = 1 .. n /\ c \in [1 .. n -> PriceRows]
    BY <1>7, <1>8
  <1>10. \A i \in DOMAIN list : list[i].cut = "no" => list[i].m \in minutes
    OBVIOUS
  <1> HIDE DEF timed, minutes, here
  <1>11. c \in Seq(PriceRows)
    BY <1>9
  <1>12. \A k \in DOMAIN c : c[k].cut = "no" /\ \E i \in DOMAIN list : list[i] = c[k]
    BY <1>8, <1>9
  <1>13. \A i, j \in DOMAIN c : i < j => c[i].m < c[j].m
    BY <1>6, <1>8, <1>9
  <1>14. \A i \in DOMAIN list : list[i].cut = "no" => \E k \in DOMAIN c : c[k].m = list[i].m
    <2> TAKE i \in DOMAIN list
    <2> HAVE list[i].cut = "no"
    <2>1. PICK k \in 1 .. n : s[k] = list[i].m
      BY <1>6, <1>10
    <2>2. QED
      BY <1>8, <1>9, <2>1
  <1>15. QED
    BY <1>11, <1>12, <1>13, <1>14

\* The last time on a file, and what it says of one whose minutes rise.
LastTime(list) ==
    LET read == {i \in DOMAIN list : list[i].ts > 0} IN IF read = {} THEN 0 ELSE list[Max(read)].ts

LEMMA LastTimeIs ==
    ASSUME NEW list \in Seq(PriceRows)
    PROVE  \/ LastTime(list) = 0 /\ \A i \in DOMAIN list : list[i].ts = 0
           \/ \E x \in DOMAIN list : /\ LastTime(list) = list[x].ts /\ list[x].ts > 0
                                     /\ \A j \in DOMAIN list : j > x => list[j].ts = 0
  <1> DEFINE read == {i \in DOMAIN list : list[i].ts > 0}
  <1>1. PICK n \in Nat : n = Len(list) /\ DOMAIN list = 1 .. n
    OBVIOUS
  <1>2. \A i \in DOMAIN list : list[i].ts \in 0 .. MaxPrice
    BY DEF PriceRows, Rows
  <1>3. MaxPrice \in Nat
    BY PricesAssumption
  <1>4. CASE read = {}
    <2>1. LastTime(list) = 0
      BY <1>4 DEF LastTime
    <2>2. \A i \in DOMAIN list : ~(list[i].ts > 0)
      BY <1>4
    <2>3. QED
      BY <1>2, <1>3, <2>1, <2>2
  <1>5. CASE read # {}
    <2>1. read \in SUBSET (1 .. n)
      BY <1>1
    <2>2. Max(read) \in read /\ \A y \in read : y <= Max(read)
      BY <1>5, <2>1, MaxOf
    <2>3. PICK x \in DOMAIN list : x = Max(read) /\ list[x].ts > 0
      BY <2>2
    <2>4. LastTime(list) = list[x].ts
      BY <1>5, <2>3 DEF LastTime
    <2>5. \A j \in DOMAIN list : list[j].ts > 0 => j <= x
      BY <2>2, <2>3
    <2> HIDE DEF read
    <2>6. \A j \in DOMAIN list : j > x => list[j].ts = 0
      BY <1>1, <1>2, <1>3, <2>5
    <2>7. QED
      BY <2>3, <2>4, <2>6
  <1>6. QED
    BY <1>4, <1>5

LEMMA LastTimeBounds ==
    ASSUME NEW list \in Seq(PriceRows), ~Unreadable(list), MinutesRise(list)
    PROVE  /\ LastTime(list) \in Nat
           /\ \A i \in DOMAIN list : list[i].cut = "no" => list[i].m <= LastTime(list)
           /\ LastTime(list) > 0 => \E x \in DOMAIN list : list[x].cut = "no" /\ list[x].m = LastTime(list)
  <1>1. PICK n \in Nat : n = Len(list) /\ DOMAIN list = 1 .. n
    OBVIOUS
  <1>2. \A i \in DOMAIN list : /\ list[i].m \in Nat /\ list[i].m > 0
                               /\ list[i].cut = "no" => list[i].ts = list[i].m
                               /\ list[i].cut # "no" => list[i].ts = 0
    <2> TAKE i \in DOMAIN list
    <2>1. list[i] \in PriceRows /\ list[i].cut # "inside"
      BY DEF Unreadable
    <2>2. \A r \in PriceRows : /\ r.m \in 1 .. MaxPrice /\ r.cut \in {"no", "before", "inside"}
                               /\ r.cut = "no" => r.ts = r.m
                               /\ r.cut = "before" => r.ts = 0
      BY DEF PriceRows, Rows
    <2>3. \A y \in 1 .. MaxPrice : y \in Nat /\ y > 0
      BY PricesAssumption
    <2>4. QED
      BY <2>1, <2>2, <2>3
  <1>3. \A i \in DOMAIN list : list[i].ts = 0 => list[i].cut # "no"
    BY <1>2
  <1>4. CASE LastTime(list) = 0 /\ \A i \in DOMAIN list : list[i].ts = 0
    <2>1. \A i \in DOMAIN list : list[i].cut # "no"
      BY <1>3, <1>4
    <2>2. QED
      BY <1>4, <2>1
  <1>5. ASSUME NEW x \in DOMAIN list, LastTime(list) = list[x].ts, list[x].ts > 0,
               \A j \in DOMAIN list : j > x => list[j].ts = 0
        PROVE  /\ LastTime(list) \in Nat
               /\ \A i \in DOMAIN list : list[i].cut = "no" => list[i].m <= LastTime(list)
               /\ \E y \in DOMAIN list : list[y].cut = "no" /\ list[y].m = LastTime(list)
    <2>1. list[x].ts # 0
      BY <1>5
    <2>2. list[x].cut = "no"
      BY <1>2, <2>1
    <2>3. list[x].m = LastTime(list) /\ LastTime(list) \in Nat
      BY <1>2, <1>5, <2>2
    <2>4. ASSUME NEW i \in DOMAIN list, list[i].cut = "no" PROVE list[i].m <= LastTime(list)
      <3>1. ~(i > x)
        BY <1>3, <1>5, <2>4
      <3>2. i < x \/ i = x
        BY <1>1, <3>1
      <3>3. i < x => list[i].m < list[x].m
        BY <2>2, <2>4 DEF MinutesRise
      <3>4. list[i].m \in Nat
        BY <1>2
      <3>5. QED
        BY <2>3, <3>2, <3>3, <3>4
    <2>5. QED
      BY <2>2, <2>3, <2>4
  <1>6. QED
    BY <1>4, <1>5, LastTimeIs

\* What stays as it is when the CSV does: what is on it and what is read of it.
LEMMA CsvStays ==
    ASSUME CsvIsComplete, csv' = csv, \A m : m \in skipped => m \in skipped' PROVE CsvIsComplete'
  BY DEF CsvIsComplete, Unreadable, MinutesRise, LastTs, HasItsRow

LEMMA ReadersStay ==
    ASSUME ReadersAreFaithful, UNCHANGED <<csv, reader, parquet, raced>>, \A m : m \in skipped => m \in skipped'
    PROVE  ReadersAreFaithful'
  BY DEF ReadersAreFaithful, Unreadable, NoneIsMissing, HasItsRow, HasNoHole

LEMMA FillStays ==
    ASSUME FillIsFaithful, UNCHANGED <<csv, filling, skipped>>, nowMinute \in Nat, nowMinute' \in Nat, nowMinute <= nowMinute'
    PROVE  FillIsFaithful'
  <1>1. \A t \in 1 .. nowMinute : t \in 1 .. nowMinute'
    OBVIOUS
  <1>2. PICK win : win = FetchedMinutes /\ win = FetchedMinutes'
    BY DEF FetchedMinutes
  <1>3. /\ LastTs' = LastTs /\ MinutesRise(filling.rows)' = MinutesRise(filling.rows)
        /\ \A m : HasItsRow(m, filling.rows)' <=> HasItsRow(m, filling.rows)
    BY DEF LastTs, MinutesRise, HasItsRow
  <1>4. filling' = filling /\ (filling.at # "idle" => filling.till \in 1 .. nowMinute')
    BY <1>1 DEF FillIsFaithful
  <1>5. QED
    BY <1>2, <1>3, <1>4 DEF FillIsFaithful

LEMMA NoFillIsFaithful ==
    ASSUME filling' = NoFill PROVE FillIsFaithful'
  BY DEF NoFill, FillIsFaithful

LEMMA PricesStart == PricesInit => PricesInv
  <1> SUFFICES ASSUME PricesInit PROVE PricesInv
    OBVIOUS
  <1>1. NoFill \in [at : {"idle", "fetch", "append"}, from : Nat, till : Nat, start : Nat, rows : Seq(PriceRows)]
    BY DEF NoFill
  <1>2. Unfilled \in [at : {"idle", "save"}, read : Seq(PriceRows), has : {"none", "failed", "frame"}, frame : Seq(PriceRows)]
    BY DEF Unfilled
  <1>3. PricesBasics
    <2>1. 1 \in 1 .. MaxPrice /\ 0 \in 0 .. MaxFaults
      BY PricesAssumption
    <2>2. touched \in [{"csv", "parquet"} -> Nat] /\ touched["csv"] = 0
      BY DEF PricesInit
    <2>3. parquet \in [is : {"none", "broken", "whole"}, rows : Seq(PriceRows)] /\ csv \in Seq(PriceRows)
      BY DEF PricesInit
    <2>4. nowMinute \in 1 .. MaxPrice /\ mishaps \in 0 .. MaxFaults /\ skipped \in SUBSET TradedMinutes
      BY <2>1 DEF PricesInit
    <2>5. lineEnded \in BOOLEAN /\ raced \in BOOLEAN /\ appends \in Nat /\ appends <= touched["csv"]
      <3>1. lineEnded = TRUE /\ raced = FALSE /\ appends = 0
        BY DEF PricesInit
      <3>2. appends \in Nat /\ appends <= touched["csv"]
        BY <2>2, <3>1
      <3>3. lineEnded \in BOOLEAN /\ raced \in BOOLEAN
        BY <3>1
      <3>4. QED
        BY <3>2, <3>3
    <2>6. QED
      BY <1>1, <1>2, <2>2, <2>3, <2>4, <2>5 DEF PricesInit, PricesBasics
  <1>4. DOMAIN csv = {}
    BY DEF PricesInit
  <1>5. CsvIsComplete
    <2>1. LastTs = 0
      BY <1>4 DEF LastTs
    <2>2. \A m \in TradedMinutes : ~(m <= LastTs)
      BY <2>1, PricesAssumption
    <2>3. QED
      BY <1>4, <2>2 DEF CsvIsComplete, MinutesRise
  <1>6. FillIsFaithful
    BY DEF PricesInit, NoFill, FillIsFaithful
  <1>7. ReadersAreFaithful /\ CopyIsCurrent
    BY DEF PricesInit, Unfilled, ReadersAreFaithful, HasNoHole, CopyIsCurrent
  <1>8. OneUnfinishedPerFetch
    <2>1. {i \in DOMAIN csv : ~csv[i].closed} = {} /\ appends = 0
      BY <1>4 DEF PricesInit
    <2>2. QED
      BY <2>1, FS_EmptySet DEF OneUnfinishedPerFetch
  <1>9. QED
    BY <1>3, <1>5, <1>6, <1>7, <1>8 DEF PricesInv

LEMMA MinuteKeeps ==
    ASSUME PricesInv, Minute PROVE PricesInv'
  <1>1. /\ PricesBasics /\ CsvIsComplete /\ FillIsFaithful /\ ReadersAreFaithful
        /\ OneUnfinishedPerFetch /\ CopyIsCurrent
    BY DEF PricesInv
  <1>2. /\ nowMinute < MaxPrice /\ nowMinute' = nowMinute + 1
        /\ UNCHANGED <<csv, lineEnded, filling, touched, parquet, reader, mishaps, skipped, appends, raced>>
    BY DEF Minute
  <1>3. nowMinute \in 1 .. MaxPrice
    BY <1>1 DEF PricesBasics
  <1>4. nowMinute' \in 1 .. MaxPrice /\ nowMinute \in Nat /\ nowMinute' \in Nat /\ nowMinute <= nowMinute'
    BY <1>2, <1>3, PricesAssumption
  <1>5. PricesBasics'
    BY <1>1, <1>2, <1>4 DEF PricesBasics
  <1>6. CsvIsComplete' /\ ReadersAreFaithful' /\ FillIsFaithful'
    BY <1>1, <1>2, <1>4, CsvStays, ReadersStay, FillStays
  <1>7. OneUnfinishedPerFetch' /\ CopyIsCurrent'
    BY <1>1, <1>2 DEF OneUnfinishedPerFetch, CopyIsCurrent, Unreadable, Cleaned, NeedRebuild
  <1>8. QED
    BY <1>5, <1>6, <1>7 DEF PricesInv

LEMMA NothingWrittenKeeps ==
    ASSUME PricesInv, NothingWritten PROVE PricesInv'
  <1>1. /\ PricesBasics /\ CsvIsComplete /\ FillIsFaithful /\ ReadersAreFaithful
        /\ OneUnfinishedPerFetch /\ CopyIsCurrent
    BY DEF PricesInv
  <1>2. /\ filling' = NoFill /\ mishaps < MaxFaults /\ mishaps' = mishaps + 1
        /\ UNCHANGED <<nowMinute, csv, lineEnded, touched, parquet, reader, skipped, appends, raced>>
    BY DEF NothingWritten
  <1>3. NoFill \in [at : {"idle", "fetch", "append"}, from : Nat, till : Nat, start : Nat, rows : Seq(PriceRows)]
    BY DEF NoFill
  <1>4. mishaps' \in 0 .. MaxFaults
    BY <1>1, <1>2, PricesAssumption DEF PricesBasics
  <1>5. PricesBasics'
    BY <1>1, <1>2, <1>3, <1>4 DEF PricesBasics
  <1>6. CsvIsComplete' /\ ReadersAreFaithful' /\ FillIsFaithful'
    BY <1>1, <1>2, CsvStays, ReadersStay, NoFillIsFaithful
  <1>7. OneUnfinishedPerFetch' /\ CopyIsCurrent'
    BY <1>1, <1>2 DEF OneUnfinishedPerFetch, CopyIsCurrent, Unreadable, Cleaned, NeedRebuild
  <1>8. QED
    BY <1>5, <1>6, <1>7 DEF PricesInv

LEMMA StartFillKeeps ==
    ASSUME PricesInv, StartFill PROVE PricesInv'
  <1>1. /\ PricesBasics /\ CsvIsComplete /\ FillIsFaithful /\ ReadersAreFaithful
        /\ OneUnfinishedPerFetch /\ CopyIsCurrent
    BY DEF PricesInv
  <1>2. /\ filling' = [NoFill EXCEPT !.at = "fetch", !.from = LastTs + 1, !.till = nowMinute]
        /\ UNCHANGED <<nowMinute, csv, lineEnded, touched, parquet, reader, mishaps, skipped, appends, raced>>
    BY DEF StartFill
  <1>3. filling' = [at |-> "fetch", from |-> LastTs + 1, till |-> nowMinute, start |-> 0, rows |-> <<>>]
    BY <1>2 DEF NoFill
  <1>4. LastTs \in Nat
    <2>1. csv \in Seq(PriceRows) /\ LastTs = LastTime(csv)
      BY <1>1 DEF PricesBasics, LastTs, LastTime
    <2>2. \A i \in DOMAIN csv : csv[i].ts \in Nat
      BY <2>1, PricesAssumption DEF PriceRows, Rows
    <2>3. QED
      BY <2>1, <2>2, LastTimeIs
  <1>5. nowMinute \in Nat /\ nowMinute \in 1 .. nowMinute
    BY <1>1, PricesAssumption DEF PricesBasics
  <1>6. filling' \in [at : {"idle", "fetch", "append"}, from : Nat, till : Nat, start : Nat, rows : Seq(PriceRows)]
    <2>1. LastTs + 1 \in Nat
      BY <1>4
    <2>2. QED
      BY <1>3, <1>5, <2>1
  <1>7. PricesBasics'
    BY <1>1, <1>2, <1>6 DEF PricesBasics
  <1>8. CsvIsComplete' /\ ReadersAreFaithful'
    BY <1>1, <1>2, CsvStays, ReadersStay
  <1>9. FillIsFaithful'
    <2>1. PICK win : win = FetchedMinutes'
      OBVIOUS
    <2>2. win \in SUBSET (1 .. MaxPrice)
      BY <2>1, PricesAssumption DEF FetchedMinutes
    <2>3. Cardinality(win) \in Nat /\ 0 <= Cardinality(win)
      BY <2>2, InTimeIs
    <2>4. LastTs' = LastTs /\ filling'.rows = <<>> /\ filling'.start = 0 /\ filling'.at = "fetch"
      <3>1. LastTs' = LastTs
        BY <1>2 DEF LastTs
      <3>2. filling'.rows = <<>> /\ filling'.start = 0 /\ filling'.at = "fetch"
        BY <1>3
      <3>3. QED
        BY <3>1, <3>2
    <2>5. DOMAIN filling'.rows = {} /\ 1 .. filling'.start = {}
      BY <2>4
    <2>6. filling'.from = LastTs' + 1 /\ filling'.till \in 1 .. nowMinute'
      BY <1>2, <1>3, <1>5, <2>4
    <2>7. QED
      BY <2>1, <2>3, <2>4, <2>5, <2>6 DEF FillIsFaithful, MinutesRise
  <1>10. OneUnfinishedPerFetch' /\ CopyIsCurrent'
    BY <1>1, <1>2 DEF OneUnfinishedPerFetch, CopyIsCurrent, Unreadable, Cleaned, NeedRebuild
  <1>11. QED
    BY <1>7, <1>8, <1>9, <1>10 DEF PricesInv

\* What a page adds to the rows of a run: its bars, in their place.
PageAdds(list, e, odd) ==
    /\ list \in Seq(PriceRows)
    /\ \A k \in DOMAIN list :
         /\ list[k].cut = "no" /\ list[k].m \in FetchedMinutes
         /\ list[k].closed \/ list[k].m = filling.till
         /\ \E i \in 1 .. e : list[k].m = InTime(FetchedMinutes)[i]
    /\ MinutesRise(list)
    /\ \A k \in 1 .. e : \/ InTime(FetchedMinutes)[k] \in skipped \cup odd
                         \/ \E i \in DOMAIN list : list[i].cut = "no" /\ list[i].m = InTime(FetchedMinutes)[k]

LEMMA PageAddsItsBars ==
    ASSUME PricesBasics, FillIsFaithful, filling.at = "fetch",
           NEW e \in Nat, filling.start <= e, e <= Cardinality(FetchedMinutes),
           NEW odd, NEW list,
           list = filling.rows \o BarsOf({InTime(FetchedMinutes)[k] : k \in filling.start + 1 .. e} \ odd)
    PROVE  PageAdds(list, e, odd)
  <1>1. PICK T : T = InTime(FetchedMinutes)
    OBVIOUS
  <1>2. PICK n \in Nat : n = Cardinality(FetchedMinutes)
    BY PricesAssumption, InTimeIs DEF FetchedMinutes
  <1>3. FetchedMinutes \in SUBSET (1 .. MaxPrice) /\ \A m \in FetchedMinutes : m \in filling.from .. filling.till
    BY PricesAssumption DEF FetchedMinutes
  <1>4. /\ T \in [1 .. n -> FetchedMinutes] /\ DOMAIN T = 1 .. n
        /\ \A i, j \in 1 .. n : i < j => T[i] < T[j]
    BY <1>1, <1>2, <1>3, InTimeIs
  <1>5. PICK st \in Nat : st = filling.start
    BY DEF PricesBasics
  <1>6. st <= e /\ e <= n /\ \A k \in st + 1 .. e : k \in 1 .. n
    BY <1>2, <1>5
  <1>7. PICK S : S = {T[k] : k \in st + 1 .. e} \ odd
    OBVIOUS
  <1>8. S \in SUBSET FetchedMinutes /\ S \in SUBSET (1 .. MaxPrice)
    BY <1>3, <1>4, <1>6, <1>7
  <1>9. PICK more : more = BarsOf(S)
    OBVIOUS
  <1>10. PICK c \in Nat : c = Cardinality(S)
    BY <1>8, InTimeIs
  <1>11. PICK u : u = InTime(S)
    OBVIOUS
  <1>12. /\ u \in [1 .. c -> S] /\ \A i, j \in 1 .. c : i < j => u[i] < u[j]
         /\ \A m \in S : \E i \in 1 .. c : u[i] = m
    BY <1>8, <1>10, <1>11, InTimeIs
  <1>13. nowMinute \in 1 .. MaxPrice
    BY DEF PricesBasics
  <1>14. /\ more \in Seq(PriceRows) /\ Len(more) = c /\ DOMAIN more = 1 .. c
         /\ \A k \in 1 .. c : more[k].m = u[k] /\ more[k].cut = "no" /\ (more[k].closed <=> u[k] < nowMinute)
    BY <1>8, <1>9, <1>10, <1>11, <1>13, BarsOfIs
  <1>15. PICK held : held = filling.rows
    OBVIOUS
  <1>16. /\ held \in Seq(PriceRows) /\ MinutesRise(held)
         /\ \A k \in DOMAIN held :
              /\ held[k].cut = "no" /\ held[k].m \in FetchedMinutes
              /\ held[k].closed \/ held[k].m = filling.till
         /\ \A k \in 1 .. st : HasItsRow(T[k], held)
         /\ \A i \in DOMAIN held : \E k \in 1 .. st : held[i].m = T[k]
         /\ filling.till \in 1 .. nowMinute
    BY <1>1, <1>5, <1>15 DEF FillIsFaithful, PricesBasics
  <1>17. PICK h \in Nat : h = Len(held) /\ DOMAIN held = 1 .. h
    BY <1>16
  <1>18. list = held \o more
    BY <1>1, <1>5, <1>7, <1>9, <1>15
  <1>19. /\ list \in Seq(PriceRows) /\ DOMAIN list = 1 .. h + c
         /\ \A k \in 1 .. h : k \in DOMAIN list /\ list[k] = held[k]
         /\ \A q \in 1 .. c : h + q \in DOMAIN list /\ list[h + q] = more[q]
         /\ \A k \in DOMAIN list : k \in 1 .. h \/ \E q \in 1 .. c : k = h + q
    <2>1. held \in Seq(PriceRows) /\ more \in Seq(PriceRows) /\ h = Len(held) /\ c = Len(more)
      BY <1>14, <1>16, <1>17
    <2>2. h \in Nat /\ c \in Nat
      BY <1>10, <1>17
    <2>3. OneAfter(list, held, more)
      BY <1>18, <2>1, Joined
    <2>4. QED
      BY <2>1, <2>2, <2>3 DEF OneAfter
  <1>20. ASSUME NEW k \in 1 .. c
         PROVE  /\ more[k].cut = "no" /\ more[k].m \in FetchedMinutes
                /\ more[k].closed \/ more[k].m = filling.till
                /\ \E i \in st + 1 .. e : more[k].m = T[i]
    <2>1. more[k].m = u[k] /\ more[k].cut = "no" /\ u[k] \in S /\ (more[k].closed <=> u[k] < nowMinute)
      BY <1>12, <1>14
    <2>2. PICK i \in st + 1 .. e : u[k] = T[i]
      BY <1>7, <2>1
    <2>3. PICK m : m = u[k] /\ m \in FetchedMinutes
      BY <1>8, <2>1
    <2>4. m <= filling.till /\ filling.till <= nowMinute /\ m \in Int /\ filling.till \in Int /\ nowMinute \in Int
      BY <1>3, <1>13, <1>16, <2>3, PricesAssumption DEF PricesBasics
    <2>5. m < nowMinute \/ m = filling.till
      BY <2>4
    <2>6. QED
      BY <2>1, <2>2, <2>3, <2>5
  <1>21. ASSUME NEW k \in DOMAIN list
         PROVE  /\ list[k].cut = "no" /\ list[k].m \in FetchedMinutes
                /\ list[k].closed \/ list[k].m = filling.till
                /\ \E i \in 1 .. e : list[k].m = T[i]
    <2>1. CASE k \in 1 .. h
      <3>1. list[k] = held[k] /\ k \in DOMAIN held
        BY <1>17, <1>19, <2>1
      <3>2. PICK i \in 1 .. st : held[k].m = T[i]
        BY <1>16, <3>1
      <3>3. i \in 1 .. e
        BY <1>6
      <3>4. QED
        BY <1>16, <3>1, <3>2, <3>3
    <2>2. CASE \E q \in 1 .. c : k = h + q
      <3>1. PICK q \in 1 .. c : k = h + q /\ list[k] = more[q]
        BY <1>19, <2>2
      <3>2. PICK i \in st + 1 .. e : more[q].m = T[i]
        BY <1>20
      <3>3. i \in 1 .. e
        BY <1>5
      <3>4. QED
        BY <1>20, <3>1, <3>2, <3>3
    <2>3. QED
      BY <1>19, <2>1, <2>2
  <1>22. MinutesRise(list)
    <2> SUFFICES ASSUME NEW i \in DOMAIN list, NEW j \in DOMAIN list, i < j PROVE list[i].m < list[j].m
      BY DEF MinutesRise
    <2>1. CASE j \in 1 .. h
      <3>1. i \in 1 .. h
        BY <1>19, <2>1
      <3>2. QED
        BY <1>16, <1>17, <1>19, <2>1, <3>1 DEF MinutesRise
    <2>2. CASE i \in 1 .. h /\ \E q \in 1 .. c : j = h + q
      <3>1. PICK q \in 1 .. c : j = h + q /\ list[j] = more[q]
        BY <1>19, <2>2
      <3>2. PICK y \in st + 1 .. e : more[q].m = T[y]
        BY <1>20
      <3>3. list[i] = held[i] /\ i \in DOMAIN held
        BY <1>17, <1>19, <2>2
      <3>4. PICK x \in 1 .. st : held[i].m = T[x]
        BY <1>16, <3>3
      <3>5. x \in 1 .. n /\ y \in 1 .. n /\ x < y
        BY <1>6
      <3>6. QED
        BY <1>4, <3>1, <3>2, <3>3, <3>4, <3>5
    <2>3. CASE (\E q \in 1 .. c : i = h + q) /\ \E q \in 1 .. c : j = h + q
      <3>1. PICK p \in 1 .. c : i = h + p
        BY <2>3
      <3>2. PICK q \in 1 .. c : j = h + q
        BY <2>3
      <3>3. p < q
        BY <3>1, <3>2
      <3>4. list[i] = more[p] /\ list[j] = more[q] /\ more[p].m = u[p] /\ more[q].m = u[q]
        BY <1>14, <1>19, <3>1, <3>2
      <3>5. u[p] < u[q]
        BY <1>12, <3>3
      <3>6. QED
        BY <3>4, <3>5
    <2>4. CASE (\E q \in 1 .. c : i = h + q) /\ j \in 1 .. h
      BY <2>4
    <2>5. QED
      BY <1>19, <2>1, <2>2, <2>3, <2>4
  <1>23. ASSUME NEW k \in 1 .. e
         PROVE  T[k] \in skipped \cup odd \/ \E i \in DOMAIN list : list[i].cut = "no" /\ list[i].m = T[k]
    <2>1. CASE k \in 1 .. st
      <3>1. CASE T[k] \in skipped
        BY <3>1
      <3>2. CASE \E i \in DOMAIN held : held[i].cut = "no" /\ held[i].m = T[k]
        <4>1. PICK i \in DOMAIN held : held[i].cut = "no" /\ held[i].m = T[k]
          BY <3>2
        <4>2. i \in DOMAIN list /\ list[i] = held[i]
          BY <1>17, <1>19
        <4>3. QED
          BY <4>1, <4>2
      <3>3. QED
        BY <1>16, <2>1, <3>1, <3>2 DEF HasItsRow
    <2>2. CASE k \in st + 1 .. e
      <3>1. CASE T[k] \in odd
        BY <3>1
      <3>2. CASE T[k] \notin odd
        <4>1. T[k] \in S
          BY <1>7, <2>2, <3>2
        <4>2. PICK q \in 1 .. c : u[q] = T[k]
          BY <1>12, <4>1
        <4>3. h + q \in DOMAIN list /\ list[h + q] = more[q] /\ more[q].cut = "no" /\ more[q].m = T[k]
          BY <1>14, <1>19, <4>2
        <4>4. QED
          BY <4>3
      <3>3. QED
        BY <3>1, <3>2
    <2>3. k \in 1 .. st \/ k \in st + 1 .. e
      BY <1>5
    <2>4. QED
      BY <2>1, <2>2, <2>3
  <1>24. QED
    BY <1>1, <1>19, <1>21, <1>22, <1>23 DEF PageAdds

LEMMA IssPageKeeps ==
    ASSUME PricesInv, IssPage PROVE PricesInv'
  <1>1. /\ PricesBasics /\ CsvIsComplete /\ FillIsFaithful /\ ReadersAreFaithful
        /\ OneUnfinishedPerFetch /\ CopyIsCurrent
    BY DEF PricesInv
  <1> DEFINE page == SubSeq(Offered, filling.start + 1, Min({filling.start + PageSize, Len(Offered)}))
  <1>2. filling.at = "fetch" /\ UNCHANGED <<nowMinute, csv, lineEnded, touched, parquet, reader, appends, raced>>
    BY DEF IssPage
  <1>3. PICK odd \in {{}} \cup {{r.m} : r \in Range(page)} :
          LET good == BarsOf({r.m : r \in Range(page)} \ odd) IN
          /\ odd # {} => mishaps < MaxFaults
          /\ mishaps' = mishaps + Cardinality(odd) /\ skipped' = skipped \cup odd
          /\ filling' = IF Len(page) = PageSize
                     THEN [filling EXCEPT !.rows = @ \o good, !.start = @ + Len(page)]
                     ELSE IF filling.rows \o good = <<>> THEN NoFill
                     ELSE [filling EXCEPT !.rows = @ \o good, !.at = "append"]
    BY DEF IssPage
  <1>4. FetchedMinutes \in SUBSET (1 .. MaxPrice) /\ FetchedMinutes \in SUBSET TradedMinutes
    BY PricesAssumption DEF FetchedMinutes
  <1>5. PICK T : T = InTime(FetchedMinutes)
    OBVIOUS
  <1>6. PICK n \in Nat : n = Cardinality(FetchedMinutes)
    BY <1>4, InTimeIs
  <1>7. PICK st \in Nat : st = filling.start /\ st <= n
    BY <1>1, <1>2, <1>6 DEF PricesBasics, FillIsFaithful
  <1>8. Offered = BarsOf(FetchedMinutes) /\ nowMinute \in 1 .. MaxPrice
    BY <1>1 DEF Offered, FetchedMinutes, PricesBasics
  <1>9. /\ Offered \in Seq(PriceRows) /\ Len(Offered) = n
        /\ \A k \in 1 .. n : Offered[k].m = T[k]
    BY <1>4, <1>6, <1>8, <1>5, BarsOfIs
  <1>10. PICK e \in Nat : /\ page = SubSeq(Offered, st + 1, e) /\ st <= e /\ e <= n /\ (e = n \/ e = st + PageSize)
    <2>1. PageSize \in Nat
      BY PricesAssumption
    <2>2. PICK lim : lim = {st + PageSize, n}
      OBVIOUS
    <2>3. lim \in SUBSET Nat /\ lim # {} /\ Min(lim) \in lim /\ \A y \in lim : Min(lim) <= y
      <3>1. lim \in SUBSET Nat /\ lim # {}
        BY <2>1, <2>2
      <3>2. QED
        BY <3>1, MinOf
    <2>4. page = SubSeq(Offered, st + 1, Min(lim))
      BY <1>7, <1>9, <2>2
    <2>5. Min(lim) \in Nat /\ Min(lim) <= n /\ (Min(lim) = n \/ Min(lim) = st + PageSize)
      BY <2>2, <2>3
    <2>6. st <= Min(lim)
      BY <1>7, <2>1, <2>5
    <2>7. QED
      BY <2>4, <2>5, <2>6
  <1>40. n \in Nat /\ st \in Nat /\ e \in Nat /\ st <= e /\ e <= n
    BY <1>7, <1>10
  <1>11. /\ Len(page) = e - st /\ DOMAIN page = 1 .. e - st
         /\ \A k \in 1 .. e - st : page[k] = Offered[st + k]
    <2>1. PICK o : o = Offered /\ o \in Seq(PriceRows) /\ Len(o) = n
      BY <1>9
    <2>2. PICK p : p = page /\ p = SubSeq(o, st + 1, e)
      BY <1>10, <2>1
    <2>3. e - st \in Nat /\ st + 1 \in Int /\ e \in Int /\ \A i \in st + 1 .. e : i \in 1 .. n
      BY ONLY <1>40, SMTT(30)
    <2>4. \A i \in st + 1 .. e : o[i] \in PriceRows
      BY <2>1, <2>3
    <2>5. /\ p \in Seq(PriceRows) /\ Len(p) = IF st + 1 <= e THEN e - (st + 1) + 1 ELSE 0
          /\ \A k \in 1 .. e - (st + 1) + 1 : p[k] = o[st + 1 + k - 1]
      <3>1. PICK x \in Int : x = st + 1
        BY <2>3
      <3>2. \A i \in x .. e : o[i] \in PriceRows
        BY <2>4, <3>1
      <3>3. p = SubSeq(o, x, e)
        BY <2>2, <3>1
      <3>4. /\ SubSeq(o, x, e) \in Seq(PriceRows)
            /\ Len(SubSeq(o, x, e)) = IF x <= e THEN e - x + 1 ELSE 0
            /\ \A i \in 1 .. e - x + 1 : SubSeq(o, x, e)[i] = o[x + i - 1]
        <4>1. SubSeq(o, x, e) \in Seq(PriceRows)
          BY <2>3, <3>2, SubSeqProperties
        <4>2. Len(SubSeq(o, x, e)) = IF x <= e THEN e - x + 1 ELSE 0
          BY <2>3, <3>2, SubSeqProperties
        <4>3. \A i \in 1 .. e - x + 1 : SubSeq(o, x, e)[i] = o[x + i - 1]
          BY <2>3, <3>2, SubSeqProperties
        <4>4. QED
          BY <4>1, <4>2, <4>3
      <3>5. QED
        BY <3>1, <3>3, <3>4
    <2>6. e - (st + 1) + 1 = e - st /\ \A k \in 1 .. e - st : st + 1 + k - 1 = st + k
      BY ONLY <1>40, SMTT(30)
    <2>7. Len(p) = e - st
      BY <1>7, <1>10, <2>5
    <2>8. DOMAIN p = 1 .. e - st
      BY <2>5, <2>7
    <2>9. \A k \in 1 .. e - st : p[k] = o[st + k]
      BY <2>5, <2>6
    <2>10. QED
      BY <2>1, <2>2, <2>7, <2>8, <2>9
  <1>12. PICK minutes : minutes = {r.m : r \in Range(page)}
    OBVIOUS
  <1>13. minutes = {T[k] : k \in st + 1 .. e}
    <2>1. ASSUME NEW k \in 1 .. e - st PROVE page[k].m = T[st + k] /\ st + k \in st + 1 .. e
      <3>1. st + k \in 1 .. n /\ st + k \in st + 1 .. e
        BY ONLY <1>40, <2>1, SMTT(30)
      <3>2. QED
        BY <1>9, <1>11, <3>1
    <2>2. minutes = {page[k].m : k \in 1 .. e - st}
      BY <1>11, <1>12 DEF Range
    <2>3. \A i \in st + 1 .. e : i - st \in 1 .. e - st /\ st + (i - st) = i
      BY ONLY <1>40, SMTT(30)
    <2> HIDE DEF page
    <2>4. \A i \in st + 1 .. e : T[i] \in minutes
      BY <2>1, <2>2, <2>3
    <2>5. QED
      BY <2>1, <2>2, <2>4
  <1>14. minutes \in SUBSET FetchedMinutes
    <2>1. T \in [1 .. n -> FetchedMinutes]
      BY <1>4, <1>6, <1>5, InTimeIs
    <2>2. \A k \in st + 1 .. e : k \in 1 .. n
      BY ONLY <1>40, SMTT(30)
    <2>3. QED
      BY <1>13, <2>1, <2>2
  <1>15. odd = {} \/ \E m \in minutes : odd = {m}
    BY <1>3, <1>12
  <1>16. odd \in SUBSET FetchedMinutes /\ odd \in SUBSET TradedMinutes
    BY <1>4, <1>14, <1>15
  <1>17. mishaps' \in 0 .. MaxFaults /\ skipped' = skipped \cup odd /\ skipped' \in SUBSET TradedMinutes
    <2>1. mishaps \in 0 .. MaxFaults /\ MaxFaults \in Nat
      BY <1>1, PricesAssumption DEF PricesBasics
    <2>8. mishaps' = mishaps + Cardinality(odd) /\ (odd # {} => mishaps < MaxFaults)
      BY <1>3
    <2>2. ASSUME odd = {} PROVE mishaps' \in 0 .. MaxFaults
      <3>1. Cardinality(odd) = 0
        BY <2>2, FS_EmptySet
      <3>2. QED
        BY ONLY <2>1, <2>8, <3>1, SMTT(30)
    <2>3. ASSUME odd # {} PROVE mishaps' \in 0 .. MaxFaults
      <3>1. Cardinality(odd) = 1
        BY <1>15, <2>3, FS_Singleton
      <3>2. QED
        BY ONLY <2>1, <2>3, <2>8, <3>1, SMTT(30)
    <2>4. skipped' = skipped \cup odd
      BY <1>3
    <2>5. skipped' \in SUBSET TradedMinutes
      <3>1. skipped \in SUBSET TradedMinutes
        BY <1>1 DEF PricesBasics
      <3>2. QED
        BY ONLY <1>16, <2>4, <3>1
    <2>6. mishaps' \in 0 .. MaxFaults
      BY <2>2, <2>3
    <2>7. QED
      BY <2>4, <2>5, <2>6
  <1>18. PICK list : list = filling.rows \o BarsOf(minutes \ odd)
    OBVIOUS
  <1>19. PageAdds(list, e, odd)
    <2>1. list = filling.rows \o BarsOf({InTime(FetchedMinutes)[k] : k \in filling.start + 1 .. e} \ odd)
      BY <1>7, <1>13, <1>18, <1>5
    <2>2. QED
      BY <1>1, <1>2, <1>6, <1>7, <1>10, <2>1, PageAddsItsBars
  <1>20. filling' = IF Len(page) = PageSize THEN [filling EXCEPT !.rows = list, !.start = st + Len(page)]
                    ELSE IF list = <<>> THEN NoFill
                    ELSE [filling EXCEPT !.rows = list, !.at = "append"]
    BY <1>1, <1>3, <1>7, <1>12, <1>18 DEF PricesBasics
  <1> HIDE DEF page
  <1>21. /\ list \in Seq(PriceRows)
         /\ \A k \in DOMAIN list :
              /\ list[k].cut = "no" /\ list[k].m \in FetchedMinutes
              /\ list[k].closed \/ list[k].m = filling.till
              /\ \E i \in 1 .. e : list[k].m = T[i]
         /\ MinutesRise(list)
         /\ \A k \in 1 .. e : \/ T[k] \in skipped \cup odd
                              \/ \E i \in DOMAIN list : list[i].cut = "no" /\ list[i].m = T[k]
    BY <1>19, <1>5 DEF PageAdds
  <1>22. \A k \in 1 .. e : HasItsRow(T[k], list)'
    BY <1>17, <1>21 DEF HasItsRow
  <1>23. filling.from = LastTs + 1 /\ filling.till \in 1 .. nowMinute
    BY <1>1, <1>2 DEF FillIsFaithful
  <1>24. filling \in [at : {"idle", "fetch", "append"}, from : Nat, till : Nat, start : Nat, rows : Seq(PriceRows)]
    BY <1>1 DEF PricesBasics
  <1>25. LastTs' = LastTs
    BY <1>2 DEF LastTs
  <1>26. ASSUME Len(page) = PageSize
         PROVE /\ filling' \in [at : {"idle", "fetch", "append"}, from : Nat, till : Nat, start : Nat, rows : Seq(PriceRows)]
               /\ FillIsFaithful'
    <2>1. filling' = [filling EXCEPT !.rows = list, !.start = e]
      <3>1. st + Len(page) = e
        BY <1>7, <1>10, <1>11
      <3>2. QED
        BY <1>20, <1>26, <3>1
    <2>2. /\ filling' \in [at : {"idle", "fetch", "append"}, from : Nat, till : Nat, start : Nat, rows : Seq(PriceRows)]
          /\ filling'.at = "fetch" /\ filling'.from = filling.from /\ filling'.till = filling.till
          /\ filling'.start = e /\ filling'.rows = list
      BY <1>2, <1>21, <1>24, <2>1
    <2>3. FetchedMinutes' = FetchedMinutes
      BY <2>2 DEF FetchedMinutes
    <2>4. InTime(FetchedMinutes)' = T
      BY <1>5, <2>3
    <2>5. FillIsFaithful'
      <3>1. filling'.from = LastTs' + 1 /\ filling'.till \in 1 .. nowMinute'
        BY <1>2, <1>23, <1>25, <2>2
      <3>2. PICK fm : fm = FetchedMinutes' /\ fm = FetchedMinutes
        BY <2>3
      <3>3. MinutesRise(list)' /\ (MinutesRise(filling.rows))'
        BY <1>21, <2>2 DEF MinutesRise
      <3>4. \A k \in 1 .. e : HasItsRow(T[k], filling.rows)'
        BY <1>22, <2>2, <2>4 DEF HasItsRow
      <3>5. \A k \in DOMAIN filling'.rows :
               /\ filling'.rows[k].cut = "no" /\ filling'.rows[k].m \in fm
               /\ filling'.rows[k].closed \/ filling'.rows[k].m = filling'.till
               /\ \E i \in 1 .. e : filling'.rows[k].m = T[i]
        BY <1>21, <2>2, <3>2
      <3>6. e <= Cardinality(fm)
        BY <1>6, <1>10, <3>2
      <3>7. (\A k \in 1 .. filling.start : HasItsRow(InTime(FetchedMinutes)[k], filling.rows))'
        BY <2>2, <2>4, <3>4
      <3>8. (\A i \in DOMAIN filling.rows : \E k \in 1 .. filling.start : filling.rows[i].m = InTime(FetchedMinutes)[k])'
        BY <2>2, <2>4, <3>5
      <3>9. QED
        BY <2>2, <3>1, <3>2, <3>3, <3>5, <3>6, <3>7, <3>8 DEF FillIsFaithful
    <2>6. QED
      BY <2>2, <2>5
  <1>27. ASSUME Len(page) # PageSize, list = <<>>
         PROVE /\ filling' \in [at : {"idle", "fetch", "append"}, from : Nat, till : Nat, start : Nat, rows : Seq(PriceRows)]
               /\ FillIsFaithful'
    <2>1. filling' = NoFill
      BY <1>20, <1>27
    <2>2. QED
      BY <2>1, NoFillIsFaithful DEF NoFill
  <1>28. ASSUME Len(page) # PageSize, list # <<>>
         PROVE /\ filling' \in [at : {"idle", "fetch", "append"}, from : Nat, till : Nat, start : Nat, rows : Seq(PriceRows)]
               /\ FillIsFaithful'
    <2>1. filling' = [filling EXCEPT !.rows = list, !.at = "append"]
      BY <1>20, <1>28
    <2>2. /\ filling' \in [at : {"idle", "fetch", "append"}, from : Nat, till : Nat, start : Nat, rows : Seq(PriceRows)]
          /\ filling'.at = "append" /\ filling'.from = filling.from /\ filling'.till = filling.till
          /\ filling'.rows = list
      BY <1>21, <1>24, <2>1
    <2>3. PICK fm : fm = FetchedMinutes' /\ fm = FetchedMinutes
      BY <2>2 DEF FetchedMinutes
    <2>4. e = n
      BY <1>7, <1>10, <1>11, <1>28, PricesAssumption
    <2>5. \A m \in fm : HasItsRow(m, list)'
      <3>1. \A m \in fm : \E k \in 1 .. n : T[k] = m
        BY <1>4, <1>6, <1>5, <2>3, InTimeIs
      <3>2. QED
        BY <1>22, <2>4, <3>1
    <2>6. FillIsFaithful'
      <3>1. filling'.from = LastTs' + 1 /\ filling'.till \in 1 .. nowMinute'
        BY <1>2, <1>23, <1>25, <2>2
      <3>2. (MinutesRise(filling.rows))'
        BY <1>21, <2>2 DEF MinutesRise
      <3>3. \A m \in fm : HasItsRow(m, filling.rows)'
        BY <2>2, <2>5 DEF HasItsRow
      <3>4. \A k \in DOMAIN filling'.rows :
               /\ filling'.rows[k].cut = "no" /\ filling'.rows[k].m \in fm
               /\ filling'.rows[k].closed \/ filling'.rows[k].m = filling'.till
        BY <1>21, <2>2, <2>3
      <3>5. (\A m \in FetchedMinutes : HasItsRow(m, filling.rows))'
        BY <2>3, <3>3
      <3>6. filling'.rows # <<>> /\ filling'.at # "fetch"
        BY <1>28, <2>2
      <3>7. QED
        BY <2>3, <3>1, <3>2, <3>4, <3>5, <3>6 DEF FillIsFaithful
    <2>7. QED
      BY <2>2, <2>6
  <1>29. /\ filling' \in [at : {"idle", "fetch", "append"}, from : Nat, till : Nat, start : Nat, rows : Seq(PriceRows)]
         /\ FillIsFaithful'
    BY <1>26, <1>27, <1>28
  <1>30. PricesBasics'
    BY <1>1, <1>2, <1>17, <1>29 DEF PricesBasics
  <1>31. CsvIsComplete' /\ ReadersAreFaithful'
    <2>1. \A m : m \in skipped => m \in skipped'
      BY <1>17
    <2>2. QED
      BY <1>1, <1>2, <2>1, CsvStays, ReadersStay
  <1>32. OneUnfinishedPerFetch' /\ CopyIsCurrent'
    BY <1>1, <1>2 DEF OneUnfinishedPerFetch, CopyIsCurrent, Unreadable, Cleaned, NeedRebuild
  <1>33. QED
    BY <1>29, <1>30, <1>31, <1>32 DEF PricesInv

\* What a run leaves on the CSV, whole or up to where it died: only the last row may be cut.
RowsToAdd(list) ==
    /\ list \in Seq(PriceRows) /\ Len(list) > 0
    /\ \A k \in DOMAIN list :
         /\ list[k].m \in FetchedMinutes /\ (list[k].closed \/ list[k].m = filling.till)
         /\ k < Len(list) => list[k].cut = "no"
         /\ \A m \in FetchedMinutes : m <= list[k].m => m \in skipped \/ \E j \in 1 .. k : list[j].m = m
    /\ \A i, j \in DOMAIN list : i < j => list[i].m < list[j].m

LEMMA AtMostOneMore ==
    ASSUME NEW A, IsFiniteSet(A), NEW B, NEW x, B \in SUBSET (A \cup {x}), NEW c \in Nat, Cardinality(A) <= c
    PROVE  Cardinality(B) <= c + 1
  <1>1. IsFiniteSet(A \cup {x}) /\ Cardinality(A) \in Nat
    BY FS_AddElement, FS_CardinalityType
  <1>2. Cardinality(A \cup {x}) <= Cardinality(A) + 1 /\ Cardinality(A \cup {x}) \in Nat
    BY <1>1, FS_AddElement, FS_CardinalityType
  <1>3. Cardinality(B) <= Cardinality(A \cup {x}) /\ Cardinality(B) \in Nat
    BY <1>1, FS_Subset, FS_CardinalityType
  <1>4. QED
    BY <1>1, <1>2, <1>3

LEMMA TouchedLater ==
    ASSUME touched \in [{"csv", "parquet"} -> Nat], NEW file \in {"csv", "parquet"}
    PROVE  /\ Later(file) \in [{"csv", "parquet"} -> Nat]
           /\ \A g \in {"csv", "parquet"} : Later(file)[file] > touched[g] /\ (g # file => Later(file)[g] = touched[g])
  <1>1. PICK t : t = {touched["csv"], touched["parquet"]}
    OBVIOUS
  <1>2. \E x \in t : \A y \in t : x >= y
    BY <1>1
  <1>3. Max(t) \in t /\ \A y \in t : Max(t) >= y
    BY <1>2 DEF Max
  <1>4. Max(t) \in Nat /\ Max(t) >= touched["csv"] /\ Max(t) >= touched["parquet"]
    BY <1>1, <1>3
  <1>5. Later(file) = [touched EXCEPT ![file] = 1 + Max(t)]
    BY <1>1 DEF Later
  <1>6. QED
    BY <1>4, <1>5

LEMMA CsvGrows ==
    ASSUME PricesBasics, CsvIsComplete, FillIsFaithful, filling.at = "append",
           NEW list, RowsToAdd(list), csv' = csv \o list, skipped' = skipped
    PROVE  csv' \in Seq(PriceRows) /\ CsvIsComplete'
  <1>1. csv \in Seq(PriceRows) /\ list \in Seq(PriceRows)
    BY DEF PricesBasics, RowsToAdd
  <1>2. PICK n \in Nat : n = Len(csv) /\ DOMAIN csv = 1 .. n
    BY <1>1
  <1>3. PICK r \in Nat : r = Len(list) /\ DOMAIN list = 1 .. r /\ r > 0
    BY <1>1 DEF RowsToAdd
  <1>4. PICK long : long = csv'
    OBVIOUS
  <1>5. OneAfter(long, csv, list)
    BY <1>1, <1>4, Joined
  <1>6. /\ long \in Seq(PriceRows) /\ DOMAIN long = 1 .. n + r
        /\ \A k \in 1 .. n : k \in DOMAIN long /\ long[k] = csv[k]
        /\ \A q \in 1 .. r : n + q \in DOMAIN long /\ long[n + q] = list[q]
        /\ \A k \in DOMAIN long : k \in 1 .. n \/ \E q \in 1 .. r : k = n + q
    BY <1>2, <1>3, <1>5 DEF OneAfter
  <1>7. LastTs = LastTime(csv) /\ LastTs' = LastTime(long)
    BY <1>4 DEF LastTs, LastTime
  <1>8. filling.from = LastTs + 1 /\ filling.from \in Nat /\ filling.till \in Nat
    BY DEF FillIsFaithful, PricesBasics
  <1>9. ASSUME ~Unreadable(long)
        PROVE  /\ MinutesRise(long)
               /\ \A m \in TradedMinutes : m <= LastTs' => HasItsRow(m, csv)'
    <2>1. ~Unreadable(csv)
      BY <1>2, <1>6, <1>9 DEF Unreadable
    <2>2. MinutesRise(csv) /\ \A m \in TradedMinutes : m <= LastTs => HasItsRow(m, csv)
      BY <2>1 DEF CsvIsComplete
    <2>3. /\ LastTs \in Nat /\ \A i \in DOMAIN csv : csv[i].cut = "no" => csv[i].m <= LastTs
      BY <1>1, <1>7, <2>1, <2>2, LastTimeBounds
    <2>4. ASSUME NEW q \in 1 .. r
          PROVE  /\ list[q].m \in FetchedMinutes /\ list[q].m \in Nat /\ list[q].m > LastTs /\ list[q].m <= filling.till
                 /\ q < r => list[q].cut = "no"
                 /\ \A m \in FetchedMinutes : m <= list[q].m => m \in skipped \/ \E j \in 1 .. q : list[j].m = m
      <3>1. /\ list[q].m \in FetchedMinutes /\ (q < r => list[q].cut = "no")
            /\ \A m \in FetchedMinutes : m <= list[q].m => m \in skipped \/ \E j \in 1 .. q : list[j].m = m
        BY <1>3 DEF RowsToAdd
      <3>2. list[q].m \in filling.from .. filling.till
        BY <3>1 DEF FetchedMinutes
      <3>3. list[q].m \in Nat /\ list[q].m > LastTs /\ list[q].m <= filling.till
        BY <1>8, <2>3, <3>2
      <3>4. QED
        BY <3>1, <3>3
    <2>5. \A i, j \in 1 .. r : i < j => list[i].m < list[j].m
      BY <1>3 DEF RowsToAdd
    <2>6. MinutesRise(long)
      <3> SUFFICES ASSUME NEW i \in DOMAIN long, NEW j \in DOMAIN long, i < j, long[i].cut = "no", long[j].cut = "no"
                   PROVE  long[i].m < long[j].m
        BY DEF MinutesRise
      <3>1. CASE j \in 1 .. n
        <4>1. i \in 1 .. n
          BY <1>6, <3>1
        <4>2. QED
          BY <1>2, <1>6, <2>2, <3>1, <4>1 DEF MinutesRise
      <3>2. CASE i \in 1 .. n /\ \E q \in 1 .. r : j = n + q
        <4>1. PICK q \in 1 .. r : j = n + q
          BY <3>2
        <4>2. long[j] = list[q] /\ long[i] = csv[i] /\ i \in DOMAIN csv
          BY <1>2, <1>6, <3>2, <4>1
        <4>3. csv[i].m <= LastTs /\ LastTs < list[q].m /\ csv[i].m \in Nat /\ list[q].m \in Nat
          <5>1. csv[i] \in PriceRows
            BY <1>1, <4>2
          <5>2. csv[i].m \in Nat
            BY <5>1, PricesAssumption DEF PriceRows, Rows
          <5>3. QED
            BY <2>3, <2>4, <4>2, <5>2
        <4>4. QED
          BY <2>3, <4>2, <4>3
      <3>3. CASE (\E q \in 1 .. r : i = n + q) /\ \E q \in 1 .. r : j = n + q
        <4>1. PICK p \in 1 .. r : i = n + p
          BY <3>3
        <4>2. PICK q \in 1 .. r : j = n + q
          BY <3>3
        <4>3. p < q
          BY <4>1, <4>2
        <4>4. long[i] = list[p] /\ long[j] = list[q]
          BY <1>6, <4>1, <4>2
        <4>5. QED
          BY <2>5, <4>3, <4>4
      <3>4. CASE (\E q \in 1 .. r : i = n + q) /\ j \in 1 .. n
        BY <3>4
      <3>5. QED
        BY <1>6, <3>1, <3>2, <3>3, <3>4
    <2>7. ASSUME NEW m \in TradedMinutes, m <= LastTs' PROVE m \in skipped \/ \E k \in DOMAIN long : long[k].cut = "no" /\ long[k].m = m
      <3>1. m \in Nat /\ m > 0
        BY PricesAssumption
      <3>2. CASE m <= LastTs
        <4>1. HasItsRow(m, csv)
          BY <2>2, <3>2
        <4>2. QED
          BY <1>2, <1>6, <4>1 DEF HasItsRow
      <3>3. CASE m > LastTs
        <4>1. LastTs' \in Nat /\ LastTs' > 0
          <5>1. LastTs' \in Nat
            BY <1>6, <1>7, <1>9, <2>6, LastTimeBounds
          <5>2. QED
            BY <2>7, <3>1, <5>1
        <4>2. PICK x \in DOMAIN long : long[x].cut = "no" /\ long[x].m = LastTs'
          BY <1>6, <1>7, <1>9, <2>6, <4>1, LastTimeBounds
        <4>3. x \notin 1 .. n
          <5> SUFFICES ASSUME x \in 1 .. n PROVE FALSE
            OBVIOUS
          <5>1. csv[x].cut = "no" /\ csv[x].m = LastTs' /\ x \in DOMAIN csv
            BY <1>2, <1>6, <4>2
          <5>2. LastTs' <= LastTs
            BY <2>3, <5>1
          <5>3. QED
            BY <2>3, <2>7, <3>1, <3>3, <4>1, <5>2
        <4>4. PICK q \in 1 .. r : x = n + q
          BY <1>6, <4>2, <4>3
        <4>5. long[x] = list[q] /\ m <= list[q].m
          BY <1>6, <2>7, <4>2, <4>4
        <4>6. m \in FetchedMinutes
          <5>1. m <= filling.till /\ filling.from <= m
            BY <1>8, <2>3, <2>4, <3>1, <3>3, <4>5
          <5>2. m \in filling.from .. filling.till
            BY <1>8, <3>1, <5>1
          <5>3. QED
            BY <5>2 DEF FetchedMinutes
        <4>7. CASE m \in skipped
          BY <4>7
        <4>8. CASE \E j \in 1 .. q : list[j].m = m
          <5>1. PICK j \in 1 .. q : list[j].m = m
            BY <4>8
          <5>2. j \in 1 .. r /\ (j < r \/ j = q)
            OBVIOUS
          <5>3. list[j].cut = "no"
            BY <2>4, <4>2, <4>5, <5>2
          <5>4. n + j \in DOMAIN long /\ long[n + j] = list[j]
            BY <1>6, <5>2
          <5>5. QED
            BY <5>1, <5>3, <5>4
        <4>9. QED
          BY <2>4, <4>5, <4>6, <4>7, <4>8
      <3>4. QED
        BY <2>3, <3>1, <3>2, <3>3
    <2>8. \A m \in TradedMinutes : m <= LastTs' => HasItsRow(m, csv)'
      BY <1>4, <2>7 DEF HasItsRow
    <2>9. QED
      BY <2>6, <2>8
  <1>10. CsvIsComplete'
    <2>1. Unreadable(csv)' = Unreadable(long) /\ MinutesRise(csv)' = MinutesRise(long)
      BY <1>4 DEF Unreadable, MinutesRise
    <2>2. QED
      BY <1>9, <2>1 DEF CsvIsComplete
  <1>11. QED
    BY <1>4, <1>6, <1>10

LEMMA LinesAddedKeeps ==
    ASSUME PricesInv, filling.at = "append", NEW list, RowsToAdd(list), LinesAdded(list),
           lineEnded' \in BOOLEAN, mishaps' \in 0 .. MaxFaults
    PROVE  PricesInv'
  <1>1. /\ PricesBasics /\ CsvIsComplete /\ FillIsFaithful /\ ReadersAreFaithful
        /\ OneUnfinishedPerFetch /\ CopyIsCurrent
    BY DEF PricesInv
  <1>2. /\ csv' = csv \o list /\ touched' = Later("csv") /\ appends' = appends + 1 /\ filling' = NoFill
        /\ raced' = (raced \/ reader.at = "save")
        /\ nowMinute' = nowMinute /\ parquet' = parquet /\ reader' = reader /\ skipped' = skipped
    BY DEF LinesAdded, Appended
  <1>3. csv' \in Seq(PriceRows) /\ CsvIsComplete'
    BY <1>1, <1>2, CsvGrows
  <1>4. /\ touched' \in [{"csv", "parquet"} -> Nat]
        /\ touched'["csv"] > touched["csv"] /\ touched'["csv"] > touched["parquet"] /\ touched'["parquet"] = touched["parquet"]
    <2>1. touched \in [{"csv", "parquet"} -> Nat]
      BY <1>1 DEF PricesBasics
    <2>2. QED
      BY <1>2, <2>1, TouchedLater
  <1>5. PricesBasics'
    <2>1. NoFill \in [at : {"idle", "fetch", "append"}, from : Nat, till : Nat, start : Nat, rows : Seq(PriceRows)]
      BY DEF NoFill
    <2>2. /\ nowMinute \in 1 .. MaxPrice /\ parquet \in [is : {"none", "broken", "whole"}, rows : Seq(PriceRows)]
          /\ reader \in [at : {"idle", "save"}, read : Seq(PriceRows), has : {"none", "failed", "frame"}, frame : Seq(PriceRows)]
          /\ skipped \in SUBSET TradedMinutes
      BY <1>1 DEF PricesBasics
    <2>3. touched \in [{"csv", "parquet"} -> Nat] /\ appends \in Nat /\ appends <= touched["csv"]
      BY <1>1 DEF PricesBasics
    <2>4. appends' \in Nat /\ appends' <= touched'["csv"]
      BY <1>2, <1>4, <2>3
    <2>5. raced' \in BOOLEAN
      BY <1>1, <1>2 DEF PricesBasics
    <2>6. QED
      BY <1>2, <1>3, <1>4, <2>1, <2>2, <2>4, <2>5 DEF PricesBasics
  <1>6. FillIsFaithful'
    BY <1>2, NoFillIsFaithful
  <1>7. ReadersAreFaithful'
    <2>1. /\ reader'.at = "save" /\ ~Unreadable(reader'.read) => NoneIsMissing(reader.read)'
          /\ parquet'.is = "whole" /\ ~Unreadable(parquet'.rows) => HasNoHole(parquet.rows)'
          /\ HasNoHole(reader.frame)'
      BY <1>1, <1>2 DEF ReadersAreFaithful, NoneIsMissing, HasItsRow, HasNoHole
    <2>2. raced' \/ reader'.at # "save"
      BY <1>2
    <2>3. QED
      BY <1>2, <2>1, <2>2 DEF ReadersAreFaithful
  <1>8. OneUnfinishedPerFetch'
    <2>1. csv \in Seq(PriceRows) /\ list \in Seq(PriceRows)
      BY <1>1 DEF PricesBasics, RowsToAdd
    <2>2. PICK n \in Nat : n = Len(csv) /\ DOMAIN csv = 1 .. n
      BY <2>1
    <2>3. PICK r \in Nat : r = Len(list) /\ DOMAIN list = 1 .. r
      BY <2>1
    <2>4. PICK long : long = csv'
      OBVIOUS
    <2>5. OneAfter(long, csv, list)
      BY <1>2, <2>1, <2>4, Joined
    <2>6. /\ \A k \in 1 .. n : k \in DOMAIN long /\ long[k] = csv[k]
          /\ \A q \in 1 .. r : n + q \in DOMAIN long /\ long[n + q] = list[q]
          /\ \A k \in DOMAIN long : k \in 1 .. n \/ \E q \in 1 .. r : k = n + q
      BY <2>2, <2>3, <2>5 DEF OneAfter
    <2>7. PICK old : old = {i \in DOMAIN csv : ~csv[i].closed}
      OBVIOUS
    <2>8. PICK new : new = {i \in DOMAIN long : ~long[i].closed}
      OBVIOUS
    <2>9. IsFiniteSet(old)
      <3>1. IsFiniteSet(1 .. n)
        BY FS_Interval
      <3>2. old \in SUBSET (1 .. n)
        BY <2>2, <2>7
      <3>3. QED
        BY <3>1, <3>2, FS_Subset
    <2>10. \A p, q \in 1 .. r : ~list[p].closed /\ ~list[q].closed => p = q
      <3> SUFFICES ASSUME NEW p \in 1 .. r, NEW q \in 1 .. r, ~list[p].closed, ~list[q].closed, p # q PROVE FALSE
        OBVIOUS
      <3>1. list[p].m = filling.till /\ list[q].m = filling.till /\ filling.till \in Nat
        BY <1>1, <2>3 DEF RowsToAdd, PricesBasics
      <3>2. p < q \/ q < p
        OBVIOUS
      <3>3. list[p].m < list[q].m \/ list[q].m < list[p].m
        BY <2>3, <3>2 DEF RowsToAdd
      <3>4. QED
        BY <3>1, <3>3
    <2>11. \E x : new \in SUBSET (old \cup {x})
      <3>1. \A k \in new : k \in old \/ \E q \in 1 .. r : k = n + q /\ ~list[q].closed
        <4> TAKE k \in new
        <4>1. k \in DOMAIN long /\ ~long[k].closed
          BY <2>8
        <4>2. CASE k \in 1 .. n
          BY <2>2, <2>6, <2>7, <4>1, <4>2
        <4>3. CASE \E q \in 1 .. r : k = n + q
          BY <2>6, <4>1, <4>3
        <4>4. QED
          BY <2>6, <4>1, <4>2, <4>3
      <3>2. CASE \E q \in 1 .. r : ~list[q].closed
        <4>1. PICK q \in 1 .. r : ~list[q].closed
          BY <3>2
        <4>2. \A k \in new : k \in old \/ k = n + q
          BY <2>10, <3>1, <4>1
        <4>3. QED
          BY <4>2
      <3>3. CASE ~\E q \in 1 .. r : ~list[q].closed
        BY <3>1, <3>3
      <3>4. QED
        BY <3>2, <3>3
    <2>12. Cardinality(old) <= appends /\ appends \in Nat
      BY <1>1, <2>7 DEF OneUnfinishedPerFetch, PricesBasics
    <2>13. Cardinality(new) <= appends + 1
      BY <2>9, <2>11, <2>12, AtMostOneMore
    <2>14. QED
      BY <1>2, <2>4, <2>8, <2>13 DEF OneUnfinishedPerFetch
  <1>9. CopyIsCurrent'
    <2>1. NeedRebuild'
      <3>1. touched' \in [{"csv", "parquet"} -> Nat] /\ touched'["csv"] > touched'["parquet"]
        BY <1>4
      <3>2. QED
        BY <3>1 DEF NeedRebuild
    <2>2. QED
      BY <2>1 DEF CopyIsCurrent
  <1>10. QED
    BY <1>3, <1>5, <1>6, <1>7, <1>8, <1>9 DEF PricesInv

\* The rows of a run that is through with its window, and what is left of them when it dies.
LEMMA RunHasRowsToAdd ==
    ASSUME PricesBasics, FillIsFaithful, filling.at = "append" PROVE RowsToAdd(filling.rows)
  <1>1. /\ filling.rows \in Seq(PriceRows) /\ filling.rows # <<>> /\ MinutesRise(filling.rows)
        /\ \A k \in DOMAIN filling.rows :
             /\ filling.rows[k].cut = "no" /\ filling.rows[k].m \in FetchedMinutes
             /\ filling.rows[k].closed \/ filling.rows[k].m = filling.till
        /\ \A m \in FetchedMinutes : HasItsRow(m, filling.rows)
    BY DEF PricesBasics, FillIsFaithful
  <1>2. PICK f : f = filling.rows
    OBVIOUS
  <1>3. PICK n \in Nat : n = Len(f) /\ DOMAIN f = 1 .. n
    BY <1>1, <1>2
  <1>4. Len(f) > 0
    BY <1>1, <1>2
  <1>5. \A i, j \in 1 .. n : i < j => f[i].m < f[j].m
    BY <1>1, <1>2, <1>3 DEF MinutesRise
  <1>6. \A k \in 1 .. n : f[k].m \in Nat
    <2> TAKE k \in 1 .. n
    <2>1. f[k] \in PriceRows
      BY <1>1, <1>2, <1>3
    <2>2. QED
      BY <2>1, PricesAssumption DEF PriceRows, Rows
  <1>7. ASSUME NEW k \in 1 .. n, NEW m \in FetchedMinutes, m <= f[k].m, m \notin skipped
        PROVE  \E j \in 1 .. k : f[j].m = m
    <2>1. PICK j \in 1 .. n : f[j].m = m
      BY <1>1, <1>2, <1>3, <1>7 DEF HasItsRow
    <2>2. ~(k < j)
      <3> SUFFICES ASSUME k < j PROVE FALSE
        OBVIOUS
      <3>1. f[k].m < f[j].m
        BY <1>5
      <3>2. QED
        BY <1>6, <1>7, <2>1, <3>1
    <2>3. j \in 1 .. k
      BY <2>2
    <2>4. QED
      BY <2>1, <2>3
  <1>8. \A k \in DOMAIN f : /\ f[k].m \in FetchedMinutes /\ (f[k].closed \/ f[k].m = filling.till)
                            /\ k < Len(f) => f[k].cut = "no"
                            /\ \A m \in FetchedMinutes : m <= f[k].m => m \in skipped \/ \E j \in 1 .. k : f[j].m = m
    BY <1>1, <1>2, <1>3, <1>7
  <1>9. QED
    BY <1>1, <1>2, <1>3, <1>4, <1>5, <1>8 DEF RowsToAdd

LEMMA DyingRunHasRowsToAdd ==
    ASSUME NEW f, RowsToAdd(f), NEW n \in 1 .. Len(f), NEW torn \in PriceRows,
           torn.m = f[n].m, torn.closed = f[n].closed
    PROVE  RowsToAdd(SubSeq(f, 1, n - 1) \o <<torn>>)
  <1>1. f \in Seq(PriceRows) /\ DOMAIN f = 1 .. Len(f) /\ Len(f) \in Nat
    BY DEF RowsToAdd
  <1>2. PICK a : a = SubSeq(f, 1, n - 1)
    OBVIOUS
  <1>3. PICK c \in Nat : c = n - 1
    OBVIOUS
  <1>4. a \in Seq(PriceRows) /\ Len(a) = c /\ \A k \in 1 .. c : a[k] = f[k]
    <2>1. \A i \in 1 .. c : i \in 1 .. Len(f) /\ f[i] \in PriceRows
      BY <1>1, <1>3
    <2>2. c \in Int /\ 1 \in Int
      OBVIOUS
    <2>3. a \in Seq(PriceRows)
      BY <1>2, <1>3, <2>1, <2>2, SubSeqProperties
    <2>4. Len(a) = IF 1 <= c THEN c - 1 + 1 ELSE 0
      BY <1>2, <1>3, <2>1, <2>2, SubSeqProperties
    <2>5. \A i \in 1 .. c - 1 + 1 : a[i] = f[1 + i - 1]
      BY <1>2, <1>3, <2>1, <2>2, SubSeqProperties
    <2>6. \A i \in 1 .. c : i \in 1 .. c - 1 + 1 /\ 1 + i - 1 = i
      OBVIOUS
    <2>7. Len(a) = c
      BY <2>4
    <2>8. QED
      BY <2>3, <2>5, <2>6, <2>7
  <1>5. PICK s : s = a \o <<torn>>
    OBVIOUS
  <1>6. <<torn>> \in Seq(PriceRows) /\ Len(<<torn>>) = 1 /\ <<torn>>[1] = torn
    OBVIOUS
  <1>7. OneAfter(s, a, <<torn>>)
    BY <1>4, <1>5, <1>6, Joined
  <1>8. /\ s \in Seq(PriceRows) /\ DOMAIN s = 1 .. c + 1 /\ s[c + 1] = torn
        /\ \A k \in 1 .. c : s[k] = f[k]
    BY <1>4, <1>6, <1>7 DEF OneAfter
  <1>9. c + 1 = n /\ Len(s) = n /\ DOMAIN s = 1 .. n
    BY <1>3, <1>8
  <1>10. \A k \in 1 .. n : /\ k \in DOMAIN f /\ s[k].m = f[k].m /\ s[k].closed = f[k].closed
                           /\ k < n => s[k] = f[k]
    <2> TAKE k \in 1 .. n
    <2>1. k \in DOMAIN f
      BY <1>1
    <2>2. CASE k = n
      BY <1>8, <1>9, <2>1, <2>2
    <2>3. CASE k # n
      <3>1. k \in 1 .. c
        BY <1>3, <2>3
      <3>2. QED
        BY <1>8, <2>1, <2>3, <3>1
    <2>4. QED
      BY <2>2, <2>3
  <1>11. /\ \A k \in DOMAIN f :
              /\ f[k].m \in FetchedMinutes /\ (f[k].closed \/ f[k].m = filling.till)
              /\ k < Len(f) => f[k].cut = "no"
              /\ \A m \in FetchedMinutes : m <= f[k].m => m \in skipped \/ \E j \in 1 .. k : f[j].m = m
         /\ \A i, j \in DOMAIN f : i < j => f[i].m < f[j].m
    BY DEF RowsToAdd
  <1>12. ASSUME NEW k \in 1 .. n
         PROVE  /\ s[k].m \in FetchedMinutes /\ (s[k].closed \/ s[k].m = filling.till)
                /\ k < n => s[k].cut = "no"
                /\ \A m \in FetchedMinutes : m <= s[k].m => m \in skipped \/ \E j \in 1 .. k : s[j].m = m
    <2>1. /\ k \in DOMAIN f /\ s[k].m = f[k].m /\ s[k].closed = f[k].closed
          /\ k < n => s[k] = f[k]
      BY <1>10
    <2>2. s[k].m \in FetchedMinutes /\ (s[k].closed \/ s[k].m = filling.till)
      BY <1>11, <2>1
    <2>3. k < n => s[k].cut = "no"
      <3>1. k < n => k < Len(f)
        BY <1>1
      <3>2. QED
        BY <1>11, <2>1, <3>1
    <2>4. ASSUME NEW m \in FetchedMinutes, m <= s[k].m PROVE m \in skipped \/ \E j \in 1 .. k : s[j].m = m
      <3>1. m \in skipped \/ \E j \in 1 .. k : f[j].m = m
        BY <1>11, <2>1, <2>4
      <3>2. \A j \in 1 .. k : s[j].m = f[j].m
        <4>1. \A j \in 1 .. k : j \in 1 .. n
          OBVIOUS
        <4>2. QED
          BY <1>10, <4>1
      <3>3. QED
        BY <3>1, <3>2
    <2>5. QED
      BY <2>2, <2>3, <2>4
  <1>13. \A i, j \in 1 .. n : i < j => s[i].m < s[j].m
    BY <1>10, <1>11
  <1>14. RowsToAdd(s)
    BY <1>8, <1>9, <1>12, <1>13 DEF RowsToAdd
  <1>15. QED
    BY <1>2, <1>5, <1>14

LEMMA AppendKeeps ==
    ASSUME PricesInv, Append_ PROVE PricesInv'
  <1>1. filling.at = "append" /\ LinesAdded(filling.rows) /\ lineEnded' = TRUE /\ mishaps' = mishaps
    BY DEF Append_
  <1>2. PricesBasics /\ FillIsFaithful
    BY DEF PricesInv
  <1>3. PICK list : list = filling.rows
    OBVIOUS
  <1>4. RowsToAdd(list) /\ LinesAdded(list)
    BY <1>1, <1>2, <1>3, RunHasRowsToAdd
  <1>5. lineEnded' \in BOOLEAN /\ mishaps' \in 0 .. MaxFaults
    BY <1>1, <1>2 DEF PricesBasics
  <1>6. QED
    BY <1>1, <1>4, <1>5, LinesAddedKeeps

\* The last row that got to the disk: whole, without its last columns, or with a shorter time.
TornRows(row) ==
    {row, [row EXCEPT !.ts = 0, !.cut = "before"]} \cup {[row EXCEPT !.ts = t, !.cut = "inside"] : t \in 0 .. row.m}

LEMMA TornRowIs ==
    ASSUME NEW row \in PriceRows, NEW x, x \in TornRows(row)
    PROVE  x \in PriceRows /\ x.m = row.m /\ x.closed = row.closed
  <1>1. /\ row \in [m : 1 .. MaxPrice, closed : BOOLEAN, ts : 0 .. MaxPrice, cut : {"no", "before", "inside"}]
        /\ row.m \in 1 .. MaxPrice
    BY DEF PriceRows, Rows
  <1>2. MaxPrice \in Nat
    BY PricesAssumption
  <1>3. CASE x = row
    BY <1>3
  <1>4. CASE x = [row EXCEPT !.ts = 0, !.cut = "before"]
    <2>1. 0 \in 0 .. MaxPrice
      BY <1>2
    <2>2. x \in Rows /\ x.cut = "before" /\ x.ts = 0 /\ x.m = row.m /\ x.closed = row.closed
      BY <1>1, <1>4, <2>1 DEF Rows
    <2>3. QED
      BY <2>2 DEF PriceRows
  <1>5. ASSUME NEW t \in 0 .. row.m, x = [row EXCEPT !.ts = t, !.cut = "inside"]
        PROVE  x \in PriceRows /\ x.m = row.m /\ x.closed = row.closed
    <2>1. t \in 0 .. MaxPrice
      BY <1>1, <1>2
    <2>2. x \in Rows /\ x.cut = "inside" /\ x.m = row.m /\ x.closed = row.closed
      BY <1>1, <1>5, <2>1 DEF Rows
    <2>3. QED
      BY <2>2 DEF PriceRows
  <1>6. \/ x = row \/ x = [row EXCEPT !.ts = 0, !.cut = "before"]
        \/ \E t \in 0 .. row.m : x = [row EXCEPT !.ts = t, !.cut = "inside"]
    BY DEF TornRows
  <1>7. QED
    BY <1>3, <1>4, <1>5, <1>6

LEMMA DieInWriteKeeps ==
    ASSUME PricesInv, DieInWrite PROVE PricesInv'
  <1>1. PICK f : f = filling.rows
    OBVIOUS
  <1>2. PricesBasics /\ FillIsFaithful
    BY DEF PricesInv
  <1>3. filling.at = "append" /\ mishaps < MaxFaults /\ mishaps' = mishaps + 1 /\ lineEnded' = FALSE
    BY DEF DieInWrite
  <1>4. PICK n \in 1 .. Len(f) : \E x \in TornRows(f[n]) : LinesAdded(SubSeq(f, 1, n - 1) \o <<x>>)
    BY <1>1 DEF DieInWrite, TornRows
  <1>5. PICK x \in TornRows(f[n]) : LinesAdded(SubSeq(f, 1, n - 1) \o <<x>>)
    BY <1>4
  <1>6. RowsToAdd(f)
    BY <1>1, <1>2, <1>3, RunHasRowsToAdd
  <1>7. f[n] \in PriceRows
    <2>1. f \in Seq(PriceRows)
      BY <1>6 DEF RowsToAdd
    <2>2. QED
      BY <2>1
  <1>8. x \in PriceRows /\ x.m = f[n].m /\ x.closed = f[n].closed
    BY <1>5, <1>7, TornRowIs
  <1>9. RowsToAdd(SubSeq(f, 1, n - 1) \o <<x>>)
    BY <1>6, <1>8, DyingRunHasRowsToAdd
  <1>10. PICK list : list = SubSeq(f, 1, n - 1) \o <<x>>
    OBVIOUS
  <1>11. mishaps' \in 0 .. MaxFaults
    BY <1>2, <1>3, PricesAssumption DEF PricesBasics
  <1>12. QED
    BY <1>3, <1>5, <1>9, <1>10, <1>11, LinesAddedKeeps

\* What load() shows is what was read, cleaned, or nothing.
LEMMA CleanedIsHoleFree ==
    ASSUME NEW list \in Seq(PriceRows), NoneIsMissing(list), NEW c, c = Cleaned(list)
    PROVE  c \in Seq(PriceRows) /\ HasNoHole(c) /\ ~Unreadable(c)
  <1>1. /\ c \in Seq(PriceRows)
        /\ \A k \in DOMAIN c : c[k].cut = "no" /\ \E i \in DOMAIN list : list[i] = c[k]
        /\ \A i, j \in DOMAIN c : i < j => c[i].m < c[j].m
        /\ \A i \in DOMAIN list : list[i].cut = "no" => \E k \in DOMAIN c : c[k].m = list[i].m
    BY CleanedIs
  <1>2. PICK n \in Nat : n = Len(c) /\ DOMAIN c = 1 .. n
    BY <1>1
  <1>3. ~Unreadable(c)
    BY <1>1 DEF Unreadable
  <1>4. ASSUME NEW k \in 1 .. n, NEW m \in TradedMinutes \ skipped, m < c[k].m PROVE \E j \in 1 .. k : c[j].m = m
    <2>1. PICK i \in DOMAIN list : list[i] = c[k] /\ list[i].cut = "no"
      BY <1>1, <1>2
    <2>2. HasItsRow(m, list)
      BY <1>4, <2>1 DEF NoneIsMissing
    <2>3. PICK x \in DOMAIN list : list[x].cut = "no" /\ list[x].m = m
      BY <2>2 DEF HasItsRow
    <2>4. PICK j \in 1 .. n : c[j].m = m
      BY <1>1, <1>2, <2>3
    <2>5. m \in Nat /\ c[k].m \in Nat
      <3>1. c[k] \in PriceRows
        BY <1>1, <1>2
      <3>2. c[k].m \in 1 .. MaxPrice /\ m \in 1 .. MaxPrice
        BY <3>1, PricesAssumption DEF PriceRows, Rows
      <3>3. QED
        BY <3>2, PricesAssumption
    <2>6. ~(k <= j)
      <3> SUFFICES ASSUME k <= j PROVE FALSE
        OBVIOUS
      <3>1. k = j \/ k < j
        OBVIOUS
      <3>2. k < j => c[k].m < c[j].m
        BY <1>1, <1>2
      <3>3. QED
        BY <1>4, <2>4, <2>5, <3>1, <3>2
    <2>7. QED
      BY <2>4, <2>6
  <1>5. HasNoHole(c)
    BY <1>2, <1>4 DEF HasNoHole
  <1>6. QED
    BY <1>1, <1>3, <1>5

LEMMA CsvMissesNone ==
    ASSUME PricesBasics, CsvIsComplete, ~Unreadable(csv) PROVE NoneIsMissing(csv)
  <1>1. csv \in Seq(PriceRows) /\ MinutesRise(csv) /\ LastTs = LastTime(csv)
    BY DEF PricesBasics, CsvIsComplete, LastTs, LastTime
  <1>2. LastTs \in Nat /\ \A i \in DOMAIN csv : csv[i].cut = "no" => csv[i].m <= LastTs
    BY <1>1, LastTimeBounds
  <1>3. ASSUME NEW i \in DOMAIN csv, csv[i].cut = "no", NEW m \in TradedMinutes, m < csv[i].m PROVE m <= LastTs
    <2>1. csv[i] \in PriceRows /\ csv[i].m <= LastTs
      BY <1>1, <1>2, <1>3
    <2>2. csv[i].m \in Nat /\ m \in Nat
      BY <2>1, PricesAssumption DEF PriceRows, Rows
    <2>3. QED
      BY <1>2, <1>3, <2>1, <2>2
  <1>4. QED
    BY <1>3 DEF NoneIsMissing, CsvIsComplete

Readers == [at : {"idle", "save"}, read : Seq(PriceRows), has : {"none", "failed", "frame"}, frame : Seq(PriceRows)]

LEMMA InMemoryIs ==
    ASSUME NEW list \in Seq(PriceRows), ~Unreadable(list) => HasNoHole(list)
    PROVE  /\ InMemory(list) \in Readers /\ InMemory(list).at = "idle" /\ HasNoHole(InMemory(list).frame)
  <1>1. HasNoHole(<<>>)
    BY DEF HasNoHole
  <1>2. CASE Unreadable(list)
    <2>1. InMemory(list) = [at |-> "idle", read |-> <<>>, has |-> "failed", frame |-> <<>>]
      BY <1>2 DEF InMemory, Unfilled
    <2>2. QED
      BY <1>1, <2>1 DEF Readers
  <1>3. CASE ~Unreadable(list)
    <2>1. InMemory(list) = [at |-> "idle", read |-> <<>>, has |-> "frame", frame |-> list]
      BY <1>3 DEF InMemory, Unfilled
    <2>2. QED
      BY <1>3, <2>1 DEF Readers
  <1>4. QED
    BY <1>2, <1>3

LEMMA LoadKeeps ==
    ASSUME PricesInv, Load PROVE PricesInv'
  <1>1. /\ PricesBasics /\ CsvIsComplete /\ FillIsFaithful /\ ReadersAreFaithful
        /\ OneUnfinishedPerFetch /\ CopyIsCurrent
    BY DEF PricesInv
  <1>2. /\ reader.at = "idle"
        /\ reader' = IF NeedRebuild THEN [reader EXCEPT !.at = "save", !.read = csv]
                     ELSE IF parquet.is = "broken" THEN [reader EXCEPT !.has = "failed"]
                     ELSE InMemory(parquet.rows)
        /\ UNCHANGED <<nowMinute, csv, lineEnded, filling, touched, parquet, mishaps, skipped, appends, raced>>
    BY DEF Load
  <1>3. /\ reader \in Readers /\ csv \in Seq(PriceRows) /\ parquet \in [is : {"none", "broken", "whole"}, rows : Seq(PriceRows)]
        /\ HasNoHole(reader.frame)
    BY <1>1 DEF PricesBasics, Readers, ReadersAreFaithful
  <1>4. /\ reader' \in Readers /\ HasNoHole(reader'.frame)
        /\ reader'.at = "save" => reader'.read = csv
    <2>1. CASE NeedRebuild
      <3>1. reader' = [reader EXCEPT !.at = "save", !.read = csv]
        BY <1>2, <2>1
      <3>2. reader'.frame = reader.frame /\ reader'.read = csv /\ reader' \in Readers
        BY <1>3, <3>1 DEF Readers
      <3>3. QED
        BY <1>3, <3>2
    <2>2. CASE ~NeedRebuild /\ parquet.is = "broken"
      <3>1. reader' = [reader EXCEPT !.has = "failed"]
        BY <1>2, <2>2
      <3>2. reader'.frame = reader.frame /\ reader'.at = "idle" /\ reader' \in Readers
        BY <1>2, <1>3, <3>1 DEF Readers
      <3>3. QED
        BY <1>3, <3>2
    <2>3. CASE ~NeedRebuild /\ parquet.is # "broken"
      <3>1. reader' = InMemory(parquet.rows)
        BY <1>2, <2>3
      <3>2. parquet.is = "whole" /\ parquet.rows \in Seq(PriceRows)
        BY <1>3, <2>3 DEF NeedRebuild
      <3>3. ~Unreadable(parquet.rows) => HasNoHole(parquet.rows)
        BY <1>1, <3>2 DEF ReadersAreFaithful
      <3>4. reader' \in Readers /\ reader'.at = "idle" /\ HasNoHole(reader'.frame)
        BY <3>1, <3>2, <3>3, InMemoryIs
      <3>5. QED
        BY <3>4
    <2>4. QED
      BY <2>1, <2>2, <2>3
  <1>5. PricesBasics'
    BY <1>1, <1>2, <1>4 DEF PricesBasics, Readers
  <1>6. CsvIsComplete' /\ FillIsFaithful'
    <2>1. nowMinute \in Nat /\ nowMinute' \in Nat /\ nowMinute <= nowMinute'
      BY <1>1, <1>2, PricesAssumption DEF PricesBasics
    <2>2. QED
      BY <1>1, <1>2, <2>1, CsvStays, FillStays
  <1>7. ReadersAreFaithful'
    <2>1. ~Unreadable(csv) => NoneIsMissing(csv)
      BY <1>1, CsvMissesNone
    <2>2. PICK rd : rd = reader'
      OBVIOUS
    <2>3. rd.at = "save" /\ ~Unreadable(rd.read) => NoneIsMissing(rd.read)
      BY <1>4, <2>1, <2>2
    <2>4. /\ NoneIsMissing(rd.read)' = NoneIsMissing(rd.read) /\ HasNoHole(rd.frame)' = HasNoHole(rd.frame)
          /\ HasNoHole(parquet.rows)' = HasNoHole(parquet.rows)
      BY <1>2 DEF NoneIsMissing, HasItsRow, HasNoHole
    <2>5. parquet.is = "whole" /\ ~Unreadable(parquet.rows) => HasNoHole(parquet.rows)
      BY <1>1 DEF ReadersAreFaithful
    <2>6. NoneIsMissing(reader.read)' = NoneIsMissing(rd.read)' /\ HasNoHole(reader.frame)' = HasNoHole(rd.frame)'
      BY <2>2 DEF NoneIsMissing, HasItsRow, HasNoHole
    <2>7. HasNoHole(rd.frame)
      BY <1>4, <2>2
    <2>8. QED
      BY <1>2, <1>4, <2>2, <2>3, <2>4, <2>5, <2>6, <2>7 DEF ReadersAreFaithful, Unreadable
  <1>8. OneUnfinishedPerFetch' /\ CopyIsCurrent'
    BY <1>1, <1>2 DEF OneUnfinishedPerFetch, CopyIsCurrent, Unreadable, Cleaned, NeedRebuild
  <1>9. QED
    BY <1>5, <1>6, <1>7, <1>8 DEF PricesInv

LEMMA SaveKeeps ==
    ASSUME PricesInv, Save PROVE PricesInv'
  <1>1. /\ PricesBasics /\ CsvIsComplete /\ FillIsFaithful /\ ReadersAreFaithful
        /\ OneUnfinishedPerFetch /\ CopyIsCurrent
    BY DEF PricesInv
  <1>2. PICK list : list = IF Unreadable(reader.read) THEN reader.read ELSE Cleaned(reader.read)
    OBVIOUS
  <1>3. /\ reader.at = "save" /\ parquet' = [is |-> "whole", rows |-> list]
        /\ touched' = Later("parquet") /\ reader' = InMemory(list)
        /\ UNCHANGED <<nowMinute, csv, lineEnded, filling, mishaps, skipped, appends, raced>>
    BY <1>2 DEF Save
  <1>4. /\ reader.read \in Seq(PriceRows)
        /\ ~Unreadable(reader.read) => NoneIsMissing(reader.read)
        /\ ~raced => reader.read = csv
    BY <1>1, <1>3 DEF PricesBasics, ReadersAreFaithful
  <1>5. list \in Seq(PriceRows) /\ (~Unreadable(list) => HasNoHole(list))
    <2>1. CASE Unreadable(reader.read)
      BY <1>2, <1>4, <2>1
    <2>2. CASE ~Unreadable(reader.read)
      <3>1. list = Cleaned(reader.read) /\ NoneIsMissing(reader.read)
        BY <1>2, <1>4, <2>2
      <3>2. QED
        BY <1>4, <3>1, CleanedIsHoleFree
    <2>3. QED
      BY <2>1, <2>2
  <1>6. reader' \in Readers /\ reader'.at = "idle" /\ HasNoHole(reader'.frame)
    BY <1>3, <1>5, InMemoryIs
  <1>7. touched' \in [{"csv", "parquet"} -> Nat] /\ touched'["csv"] = touched["csv"]
    <2>1. touched \in [{"csv", "parquet"} -> Nat]
      BY <1>1 DEF PricesBasics
    <2>2. QED
      BY <1>3, <2>1, TouchedLater
  <1>8. parquet' \in [is : {"none", "broken", "whole"}, rows : Seq(PriceRows)] /\ parquet'.is = "whole" /\ parquet'.rows = list
    BY <1>3, <1>5
  <1>9. PricesBasics'
    BY <1>1, <1>3, <1>6, <1>7, <1>8 DEF PricesBasics, Readers
  <1>10. CsvIsComplete' /\ FillIsFaithful'
    <2>1. nowMinute \in Nat /\ nowMinute' \in Nat /\ nowMinute <= nowMinute'
      BY <1>1, <1>3, PricesAssumption DEF PricesBasics
    <2>2. QED
      BY <1>1, <1>3, <2>1, CsvStays, FillStays
  <1>11. ReadersAreFaithful'
    <2>1. PICK fr : fr = reader'.frame
      OBVIOUS
    <2>2. HasNoHole(fr)' = HasNoHole(fr) /\ HasNoHole(list)' = HasNoHole(list)
      BY <1>3 DEF HasNoHole
    <2>3. HasNoHole(reader.frame)' = HasNoHole(fr)' /\ HasNoHole(parquet.rows)' = HasNoHole(list)'
      BY <1>8, <2>1 DEF HasNoHole
    <2>4. HasNoHole(reader.frame)' /\ (~Unreadable(parquet'.rows) => HasNoHole(parquet.rows)')
      BY <1>5, <1>6, <1>8, <2>1, <2>2, <2>3
    <2>5. reader'.at # "save"
      BY <1>6
    <2>6. QED
      BY <2>4, <2>5 DEF ReadersAreFaithful, Unreadable
  <1>12. OneUnfinishedPerFetch'
    BY <1>1, <1>3 DEF OneUnfinishedPerFetch
  <1>13. CopyIsCurrent'
    <2>1. ~raced => list = IF Unreadable(csv) THEN csv ELSE Cleaned(csv)
      BY <1>2, <1>4
    <2>2. (IF Unreadable(csv) THEN csv ELSE Cleaned(csv))' = IF Unreadable(csv) THEN csv ELSE Cleaned(csv)
      BY <1>3 DEF Unreadable, Cleaned
    <2>3. QED
      BY <1>3, <1>8, <2>1, <2>2 DEF CopyIsCurrent
  <1>14. QED
    BY <1>9, <1>10, <1>11, <1>12, <1>13 DEF PricesInv

LEMMA UnfilledIs == Unfilled \in Readers /\ Unfilled.at = "idle" /\ Unfilled.frame = <<>>
  BY DEF Unfilled, Readers

LEMMA DieInSaveKeeps ==
    ASSUME PricesInv, DieInSave PROVE PricesInv'
  <1>1. /\ PricesBasics /\ CsvIsComplete /\ FillIsFaithful /\ ReadersAreFaithful
        /\ OneUnfinishedPerFetch /\ CopyIsCurrent
    BY DEF PricesInv
  <1>2. /\ mishaps < MaxFaults /\ mishaps' = mishaps + 1
        /\ parquet' = [is |-> "broken", rows |-> <<>>] /\ touched' = Later("parquet") /\ reader' = Unfilled
        /\ UNCHANGED <<nowMinute, csv, lineEnded, filling, skipped, appends, raced>>
    BY DEF DieInSave
  <1>3. touched' \in [{"csv", "parquet"} -> Nat] /\ touched'["csv"] = touched["csv"]
    <2>1. touched \in [{"csv", "parquet"} -> Nat]
      BY <1>1 DEF PricesBasics
    <2>2. QED
      BY <1>2, <2>1, TouchedLater
  <1>4. parquet' \in [is : {"none", "broken", "whole"}, rows : Seq(PriceRows)] /\ parquet'.is = "broken"
    BY <1>2
  <1>5. mishaps' \in 0 .. MaxFaults
    BY <1>1, <1>2, PricesAssumption DEF PricesBasics
  <1>6. PricesBasics'
    BY <1>1, <1>2, <1>3, <1>4, <1>5, UnfilledIs DEF PricesBasics, Readers
  <1>7. CsvIsComplete' /\ FillIsFaithful'
    <2>1. nowMinute \in Nat /\ nowMinute' \in Nat /\ nowMinute <= nowMinute'
      BY <1>1, <1>2, PricesAssumption DEF PricesBasics
    <2>2. QED
      BY <1>1, <1>2, <2>1, CsvStays, FillStays
  <1>8. ReadersAreFaithful'
    BY <1>2, <1>4, UnfilledIs DEF ReadersAreFaithful, HasNoHole
  <1>9. OneUnfinishedPerFetch' /\ CopyIsCurrent'
    BY <1>1, <1>2, <1>4 DEF OneUnfinishedPerFetch, CopyIsCurrent
  <1>10. QED
    BY <1>6, <1>7, <1>8, <1>9 DEF PricesInv

LEMMA RestartKeeps ==
    ASSUME PricesInv, Restart PROVE PricesInv'
  <1>1. /\ PricesBasics /\ CsvIsComplete /\ FillIsFaithful /\ ReadersAreFaithful
        /\ OneUnfinishedPerFetch /\ CopyIsCurrent
    BY DEF PricesInv
  <1>2. /\ reader' = Unfilled
        /\ UNCHANGED <<nowMinute, csv, lineEnded, filling, touched, parquet, mishaps, skipped, appends, raced>>
    BY DEF Restart
  <1>3. PricesBasics'
    BY <1>1, <1>2, UnfilledIs DEF PricesBasics, Readers
  <1>4. CsvIsComplete' /\ FillIsFaithful'
    <2>1. nowMinute \in Nat /\ nowMinute' \in Nat /\ nowMinute <= nowMinute'
      BY <1>1, <1>2, PricesAssumption DEF PricesBasics
    <2>2. QED
      BY <1>1, <1>2, <2>1, CsvStays, FillStays
  <1>5. ReadersAreFaithful'
    <2>1. HasNoHole(parquet.rows)' = HasNoHole(parquet.rows)
      BY <1>2 DEF HasNoHole
    <2>2. HasNoHole(reader.frame)' /\ reader'.at # "save"
      BY <1>2, UnfilledIs DEF HasNoHole
    <2>3. QED
      BY <1>1, <1>2, <2>1, <2>2 DEF ReadersAreFaithful, Unreadable
  <1>6. OneUnfinishedPerFetch' /\ CopyIsCurrent'
    BY <1>1, <1>2 DEF OneUnfinishedPerFetch, CopyIsCurrent, Unreadable, Cleaned, NeedRebuild
  <1>7. QED
    BY <1>3, <1>4, <1>5, <1>6 DEF PricesInv

LEMMA PricesStutter ==
    ASSUME PricesInv, UNCHANGED pricesVars PROVE PricesInv'
  <1>1. /\ PricesBasics /\ CsvIsComplete /\ FillIsFaithful /\ ReadersAreFaithful
        /\ OneUnfinishedPerFetch /\ CopyIsCurrent
    BY DEF PricesInv
  <1>2. UNCHANGED <<nowMinute, csv, lineEnded, filling, touched, parquet, reader, mishaps, skipped, appends, raced>>
    BY DEF pricesVars
  <1>3. PricesBasics'
    BY <1>1, <1>2 DEF PricesBasics
  <1>4. nowMinute \in Nat /\ nowMinute' \in Nat /\ nowMinute <= nowMinute'
    BY <1>1, <1>2, PricesAssumption DEF PricesBasics
  <1>5. CsvIsComplete' /\ FillIsFaithful' /\ ReadersAreFaithful'
    BY <1>1, <1>2, <1>4, CsvStays, FillStays, ReadersStay
  <1>6. OneUnfinishedPerFetch' /\ CopyIsCurrent'
    BY <1>1, <1>2 DEF OneUnfinishedPerFetch, CopyIsCurrent, Unreadable, Cleaned, NeedRebuild
  <1>7. QED
    BY <1>3, <1>5, <1>6 DEF PricesInv

LEMMA PricesStep ==
    ASSUME PricesInv, [PricesNext]_pricesVars PROVE PricesInv'
  <1>1. CASE Minute
    BY <1>1, MinuteKeeps
  <1>2. CASE StartFill
    BY <1>2, StartFillKeeps
  <1>3. CASE IssPage
    BY <1>3, IssPageKeeps
  <1>4. CASE NothingWritten
    BY <1>4, NothingWrittenKeeps
  <1>5. CASE Append_
    BY <1>5, AppendKeeps
  <1>6. CASE DieInWrite
    BY <1>6, DieInWriteKeeps
  <1>7. CASE Load
    BY <1>7, LoadKeeps
  <1>8. CASE Save
    BY <1>8, SaveKeeps
  <1>9. CASE DieInSave
    BY <1>9, DieInSaveKeeps
  <1>10. CASE Restart
    BY <1>10, RestartKeeps
  <1>11. CASE UNCHANGED pricesVars
    BY <1>11, PricesStutter
  <1>12. QED
    BY <1>1, <1>2, <1>3, <1>4, <1>5, <1>6, <1>7, <1>8, <1>9, <1>10, <1>11 DEF PricesNext

LEMMA PricesInvShows ==
    ASSUME PricesInv PROVE PricesAreWhole
  <1>1. CsvIsComplete /\ ReadersAreFaithful /\ OneUnfinishedPerFetch /\ CopyIsCurrent
    BY DEF PricesInv
  <1>2. FrameHasNoHole
    BY <1>1 DEF ReadersAreFaithful, HasNoHole, FrameHasNoHole
  <1>3. RunsAreIdempotent
    BY <1>1 DEF CsvIsComplete, MinutesRise, RunsAreIdempotent
  <1>4. QED
    BY <1>1, <1>2, <1>3 DEF PricesAreWhole

\* However often the backfill fails, dies or runs again, what a backtest reads has no hole but
\* the minutes the exchange sent malformed, no minute is on the CSV twice, at most one bar of a
\* fetch stays as it was before its minute was over, and the copy is the CSV unless that grew
\* while the copy was being made (backfill_prices, PricesCache).
THEOREM PricesAreWholeHolds == PricesSpec => []PricesAreWhole
  <1>1. PricesInit => PricesInv
    BY PricesStart
  <1>2. PricesInv /\ [PricesNext]_pricesVars => PricesInv'
    BY PricesStep
  <1>3. PricesInv => PricesAreWhole
    BY PricesInvShows
  <1>4. QED
    BY <1>1, <1>2, <1>3, PTL DEF PricesSpec
-------------------------------------------------------------------------------
(* The rules of a decision. *)

SignalCase(x) ==
    \E raw \in Forecasts, i \in Impacts, wealth \in Equities, lot \in LotSizes :
       /\ x = [kind |-> "signal", forecast |-> Clamped(raw), impact |-> i, equity |-> wealth, lot |-> lot]
       /\ answer = {Proposal(Clamped(raw), s, i, wealth, lot) : s \in {EvaluateRr(Clamped(raw))} \ {"none"}}

ClockCase(x) ==
    \E dow \in 0 .. 6, moment \in Moments :
       /\ x = [kind |-> "clock", day |-> dow, minute |-> moment]
       /\ answer = {c \in AssetClasses : IsMarketOpen(dow, moment, c)}

\* One case at a time, and what the rules make of it.
RulesInv == \A x \in input : SignalCase(x) \/ ClockCase(x)

LEMMA RulesStep ==
    ASSUME RulesInv, [RulesNext]_rulesVars PROVE RulesInv'
  <1>1. CASE Decide
    <2>1. PICK raw \in Forecasts, i \in Impacts, wealth \in Equities, lot \in LotSizes :
             /\ input' = {[kind |-> "signal", forecast |-> Clamped(raw), impact |-> i, equity |-> wealth, lot |-> lot]}
             /\ answer' = {Proposal(Clamped(raw), s, i, wealth, lot) : s \in {EvaluateRr(Clamped(raw))} \ {"none"}}
      BY <1>1 DEF Decide
    <2>2. ASSUME NEW x \in input' PROVE SignalCase(x)'
      BY <2>1 DEF SignalCase
    <2>3. QED
      BY <2>2 DEF RulesInv
  <1>2. CASE LookAtClock
    <2>1. PICK dow \in 0 .. 6, moment \in Moments :
             /\ input' = {[kind |-> "clock", day |-> dow, minute |-> moment]}
             /\ answer' = {c \in AssetClasses : IsMarketOpen(dow, moment, c)}
      BY <1>2 DEF LookAtClock
    <2>2. ASSUME NEW x \in input' PROVE ClockCase(x)'
      BY <2>1 DEF ClockCase
    <2>3. QED
      BY <2>2 DEF RulesInv
  <1>3. CASE NextCase
    BY <1>3 DEF NextCase, RulesInv
  <1>4. CASE UNCHANGED rulesVars
    BY <1>4 DEF rulesVars, RulesInv, SignalCase, ClockCase
  <1>5. QED
    BY <1>1, <1>2, <1>3, <1>4 DEF RulesNext

\* Excursions that are not below zero.
ClampedForecasts == [mfeLong : Nat, maeLong : Nat, mfeShort : Nat, maeShort : Nat]

LEMMA ClampedIs ==
    ASSUME NEW raw \in Forecasts PROVE Clamped(raw) \in ClampedForecasts
  <1>1. DOMAIN raw = {"mfeLong", "maeLong", "mfeShort", "maeShort"}
    BY DEF Forecasts
  <1>2. \A k \in DOMAIN raw : raw[k] \in Int
    <2>1. /\ raw["mfeLong"] \in Excursions /\ raw["maeLong"] \in Excursions
          /\ raw["mfeShort"] \in Excursions /\ raw["maeShort"] \in Excursions
      BY DEF Forecasts
    <2>2. \A e \in Excursions : e \in Int
      BY RulesAssumption
    <2>3. QED
      BY <1>1, <2>1, <2>2
  <1>3. \A k \in DOMAIN raw : Larger(0, raw[k]) \in Nat
    BY <1>2 DEF Larger
  <1>4. Clamped(raw) = [mfeLong |-> Larger(0, raw["mfeLong"]), maeLong |-> Larger(0, raw["maeLong"]),
                        mfeShort |-> Larger(0, raw["mfeShort"]), maeShort |-> Larger(0, raw["maeShort"])]
    BY <1>1 DEF Clamped
  <1>5. QED
    BY <1>1, <1>3, <1>4 DEF ClampedForecasts

\* What the ratios of both sides say, as products.
LEMMA RatiosAre ==
    ASSUME NEW f \in ClampedForecasts
    PROVE  /\ InFavour(f, "BUY") \in Nat /\ InFavour(f, "SELL") \in Nat
           /\ Against(f, "BUY") \in Nat \ {0} /\ Against(f, "SELL") \in Nat \ {0}
           /\ AtLeast(f, "BUY", "SELL") \/ AtLeast(f, "SELL", "BUY")
  <1>1. /\ f.mfeLong \in Nat /\ f.maeLong \in Nat /\ f.mfeShort \in Nat /\ f.maeShort \in Nat
        /\ MinMae \in Nat \ {0}
    BY RulesAssumption DEF ClampedForecasts
  <1>2. InFavour(f, "BUY") \in Nat /\ InFavour(f, "SELL") \in Nat
    BY <1>1 DEF InFavour
  <1>3. Against(f, "BUY") \in Nat \ {0} /\ Against(f, "SELL") \in Nat \ {0}
    BY <1>1 DEF Against, Larger
  <1>4. PICK p \in Nat : p = InFavour(f, "BUY") * Against(f, "SELL")
    BY <1>2, <1>3
  <1>5. PICK q \in Nat : q = InFavour(f, "SELL") * Against(f, "BUY")
    BY <1>2, <1>3
  <1>6. (AtLeast(f, "BUY", "SELL") <=> p >= q) /\ (AtLeast(f, "SELL", "BUY") <=> q >= p)
    BY <1>4, <1>5 DEF AtLeast
  <1>7. QED
    BY <1>2, <1>3, <1>6

LEMMA EvaluateRrIs ==
    ASSUME NEW f
    PROVE  /\ EvaluateRr(f) = "BUY" <=> Qualifies(f, "BUY") /\ AtLeast(f, "BUY", "SELL")
           /\ EvaluateRr(f) = "SELL" <=> Qualifies(f, "SELL") /\ ~AtLeast(f, "BUY", "SELL")
           /\ EvaluateRr(f) \in {"BUY", "SELL", "none"}
  <1>1. CASE Qualifies(f, "BUY") /\ AtLeast(f, "BUY", "SELL")
    <2>1. EvaluateRr(f) = "BUY"
      BY <1>1 DEF EvaluateRr
    <2>2. QED
      BY <1>1, <2>1
  <1>2. CASE Qualifies(f, "SELL") /\ ~AtLeast(f, "BUY", "SELL")
    <2>1. EvaluateRr(f) = "SELL"
      BY <1>2 DEF EvaluateRr
    <2>2. QED
      BY <1>2, <2>1
  <1>3. CASE ~(Qualifies(f, "BUY") /\ AtLeast(f, "BUY", "SELL")) /\ ~(Qualifies(f, "SELL") /\ ~AtLeast(f, "BUY", "SELL"))
    <2>1. EvaluateRr(f) = "none"
      BY <1>3 DEF EvaluateRr
    <2>2. QED
      BY <1>3, <2>1
  <1>4. QED
    BY <1>1, <1>2, <1>3

LEMMA SidesMirror ==
    ASSUME NEW f \in ClampedForecasts, NEW g, g = MirrorForecast(f)
    PROVE  /\ ~(AtLeast(f, "BUY", "SELL") /\ AtLeast(f, "SELL", "BUY")) =>
                /\ (EvaluateRr(f) = "BUY") = (EvaluateRr(g) = "SELL")
                /\ (EvaluateRr(f) = "SELL") = (EvaluateRr(g) = "BUY")
           /\ AtLeast(f, "BUY", "SELL") /\ AtLeast(f, "SELL", "BUY") => EvaluateRr(f) # "SELL"
           /\ Qualifies(f, "BUY") /\ EvaluateRr(f) = "none" => AtLeast(f, "SELL", "BUY")
           /\ Qualifies(f, "SELL") /\ EvaluateRr(f) = "none" => AtLeast(f, "BUY", "SELL")
  <1>1. g \in ClampedForecasts
    BY DEF MirrorForecast, ClampedForecasts
  <1>2. /\ InFavour(g, "BUY") = InFavour(f, "SELL") /\ InFavour(g, "SELL") = InFavour(f, "BUY")
        /\ Against(g, "BUY") = Against(f, "SELL") /\ Against(g, "SELL") = Against(f, "BUY")
    BY DEF InFavour, Against, MirrorForecast
  <1>3. /\ Qualifies(g, "BUY") <=> Qualifies(f, "SELL")
        /\ Qualifies(g, "SELL") <=> Qualifies(f, "BUY")
    BY <1>2 DEF Qualifies
  <1>4. /\ AtLeast(g, "BUY", "SELL") <=> AtLeast(f, "SELL", "BUY")
        /\ AtLeast(g, "SELL", "BUY") <=> AtLeast(f, "BUY", "SELL")
    BY <1>2 DEF AtLeast
  <1>5. AtLeast(f, "BUY", "SELL") \/ AtLeast(f, "SELL", "BUY")
    BY RatiosAre
  <1>6. /\ EvaluateRr(f) = "BUY" <=> Qualifies(f, "BUY") /\ AtLeast(f, "BUY", "SELL")
        /\ EvaluateRr(f) = "SELL" <=> Qualifies(f, "SELL") /\ ~AtLeast(f, "BUY", "SELL")
        /\ EvaluateRr(g) = "BUY" <=> Qualifies(g, "BUY") /\ AtLeast(g, "BUY", "SELL")
        /\ EvaluateRr(g) = "SELL" <=> Qualifies(g, "SELL") /\ ~AtLeast(g, "BUY", "SELL")
        /\ EvaluateRr(f) = "none" => EvaluateRr(f) # "BUY" /\ EvaluateRr(f) # "SELL"
    BY EvaluateRrIs
  <1>7. QED
    BY <1>3, <1>4, <1>5, <1>6

LEMMA TargetIsBeyondStop ==
    ASSUME NEW f \in ClampedForecasts, NEW side \in {"BUY", "SELL"}, Qualifies(f, side)
    PROVE  TpDistance(f, side) > SlDistance(f, side) /\ SlDistance(f, side) \in Nat \ {0}
  <1>1. PICK gain \in Nat : gain = InFavour(f, side)
    BY RatiosAre
  <1>2. PICK loss \in Nat : loss = IF side = "BUY" THEN f.maeLong ELSE f.maeShort
    BY DEF ClampedForecasts
  <1>3. PICK risk \in Nat \ {0} : risk = Larger(loss, MinMae) /\ risk = Against(f, side)
    BY <1>2, RulesAssumption DEF Against, Larger
  <1>4. gain >= RrThreshold * risk /\ gain >= MinMfe
    BY <1>1, <1>3 DEF Qualifies
  <1>5. /\ RrThreshold \in Nat /\ TpTenths \in Nat /\ SlTenths \in Nat \ {0} /\ MinMfe \in Nat
        /\ TpFloor \in Nat /\ SlFloor \in Nat \ {0} /\ MinMae \in Nat
    BY RulesAssumption
  <1>6. TpTenths * gain > SlTenths * loss
    <2>1. TpTenths * (RrThreshold * risk) <= TpTenths * gain
      <3>1. RrThreshold * risk \in Nat
        BY <1>5
      <3>2. QED
        BY <1>4, <1>5, <3>1, ProductsKeepOrder
    <2>2. TpTenths * (RrThreshold * risk) = (TpTenths * RrThreshold) * risk
      BY <1>5
    <2>3. (SlTenths + 1) * risk <= (TpTenths * RrThreshold) * risk
      <3>1. TpTenths * RrThreshold \in Nat /\ SlTenths + 1 <= TpTenths * RrThreshold
        BY <1>5, ThresholdsAssumption
      <3>2. QED
        BY <1>5, <3>1, ProductsKeepOrder
    <2>4. loss <= risk
      BY <1>2, <1>3, <1>5 DEF Larger
    <2>5. SlTenths * loss <= SlTenths * risk
      BY <1>5, <2>4, ProductsKeepOrder
    <2>6. (SlTenths + 1) * risk = SlTenths * risk + risk
      BY <1>5
    <2>7. SlTenths * loss \in Nat /\ SlTenths * risk \in Nat /\ TpTenths * gain \in Nat
          /\ (TpTenths * RrThreshold) * risk \in Nat
      BY <1>5
    <2>8. QED
      BY <2>1, <2>2, <2>3, <2>5, <2>6, <2>7
  <1>7. TpTenths * gain > SlFloor \/ TpFloor > SlFloor
    <2>1. TpTenths * MinMfe <= TpTenths * gain
      BY <1>4, <1>5, ProductsKeepOrder
    <2>2. TpTenths * MinMfe \in Nat /\ TpTenths * gain \in Nat
      BY <1>5
    <2>3. QED
      BY <1>5, <2>1, <2>2, ThresholdsAssumption
  <1>8. TpTenths * gain \in Nat /\ SlTenths * loss \in Nat
    BY <1>5
  <1>9. TpDistance(f, side) = Larger(TpTenths * gain, TpFloor) /\ SlDistance(f, side) = Larger(SlTenths * loss, SlFloor)
    BY <1>1, <1>2 DEF TpDistance, SlDistance
  <1>10. \A x, y, u, v \in Nat : x > y /\ (x > v \/ u > v) /\ v # 0 => Larger(x, u) > Larger(y, v) /\ Larger(y, v) \in Nat \ {0}
    BY DEF Larger
  <1>11. QED
    BY <1>5, <1>6, <1>7, <1>8, <1>9, <1>10

\* The size of an order, the largest that is allowed.
LEMMA SizeIs ==
    ASSUME NEW byRisk \in Nat, NEW byLev \in Nat, NEW lots,
           lots = IF Larger(1, byRisk) > byLev THEN Smaller(Larger(1, byRisk), Larger(1, byLev)) ELSE Larger(1, byRisk)
    PROVE  /\ lots \in Nat \ {0}
           /\ lots > 1 => lots <= byRisk /\ lots <= byLev
           /\ ~(lots + 1 <= byRisk /\ lots + 1 <= byLev)
           /\ Smaller(byRisk, byLev) # lots => Smaller(byRisk, byLev) = 0 /\ lots = 1
  BY DEF Larger, Smaller

RightSize(n, backtest, sl, lot, wealth) ==
    LET risk(m) == m * sl * StepOf * lot * 1000 <= wealth * RiskPermille
        notional(m) == m * lot * Price <= wealth * Leverage IN
    /\ n > 1 => risk(n) /\ notional(n)
    /\ ~(risk(n + 1) /\ notional(n + 1))
    /\ backtest # n => backtest = 0 /\ n = 1

LEMMA SizeIsLargest ==
    ASSUME NEW sl \in Nat \ {0}, NEW lot \in Nat \ {0}, NEW wealth \in Nat \ {0},
           NEW lots, lots = ComputeSize(wealth, lot, sl)
    PROVE  RightSize(lots, BacktestSize(wealth, lot, sl), sl, lot, wealth)
  <1>1. Price \in Nat \ {0} /\ Leverage \in Nat /\ RiskPermille \in Nat /\ Price % 20000 = 0
    BY RulesAssumption
  <1>2. PICK st : st \in Nat \ {0} /\ st = StepOf
    <2>1. 20000 <= Price
      BY <1>1
    <2>2. 1 * 20000 <= Price
      BY <2>1
    <2>3. Price \in Nat
      BY <1>1
    <2>4. Price \div 20000 \in Nat /\ 1 <= Price \div 20000
      BY <2>2, <2>3, QuotientIsLargest
    <2>5. QED
      BY <2>4 DEF StepOf
  <1>3. PICK d : d = sl * st * lot /\ d \in Nat \ {0}
    <2>1. sl * st \in Nat \ {0}
      BY <1>2
    <2>2. sl * st * lot \in Nat \ {0}
      BY <2>1
    <2>3. QED
      BY <2>2
  <1>4. PICK x \in Nat : x = wealth * RiskPermille
    BY <1>1
  <1>5. PICK y \in Nat : y = wealth * Leverage
    BY <1>1
  <1>6. PICK l : l = lot * Price /\ l \in Nat \ {0}
    BY <1>1
  <1>7. PICK byRisk : byRisk = (x \div 1000) \div d /\ byRisk \in Nat
    <2>1. x \div 1000 \in Nat
      BY QuotientIsLargest
    <2>2. (x \div 1000) \div d \in Nat
      BY <1>3, <2>1, QuotientIsLargest
    <2>3. QED
      BY <2>2
  <1>8. PICK byLev : byLev = y \div l /\ byLev \in Nat
    BY <1>6, QuotientIsLargest
  <1>9. LotsByRisk(wealth, lot, sl) = byRisk /\ LotsByLeverage(wealth, lot) = byLev
    BY <1>2, <1>3, <1>4, <1>5, <1>6, <1>7, <1>8 DEF LotsByRisk, LotsByLeverage
  <1>10. ASSUME NEW n \in Nat
         PROVE  /\ n <= byRisk <=> n * sl * StepOf * lot * 1000 <= wealth * RiskPermille
                /\ n <= byLev <=> n * lot * Price <= wealth * Leverage
    <2>1. x \div 1000 \in Nat /\ n * d \in Nat
      BY <1>3, QuotientIsLargest
    <2>2. n <= byRisk <=> n * d <= x \div 1000
      BY <1>3, <1>7, <2>1, QuotientIsLargest
    <2>3. n * d <= x \div 1000 <=> (n * d) * 1000 <= x
      BY <2>1, QuotientIsLargest
    <2>4. n * sl * st * lot * 1000 = (n * d) * 1000
      <3>1. n * sl * st * lot = n * d
        BY <1>2, <1>3
      <3>2. QED
        BY <3>1
    <2>5. n <= byLev <=> n * l <= y
      BY <1>6, <1>8, QuotientIsLargest
    <2>6. n * lot * Price = n * l
      BY <1>1, <1>6
    <2>7. QED
      BY <1>2, <1>4, <1>5, <2>2, <2>3, <2>4, <2>5, <2>6
  <1>11. PICK r : r = Larger(1, byRisk) /\ r \in Nat
    BY <1>7 DEF Larger
  <1>12. r * lot * Price > wealth * Leverage <=> r > byLev
    <2>1. r <= byLev <=> r * lot * Price <= wealth * Leverage
      BY <1>10, <1>11
    <2>2. r * lot * Price \in Nat /\ wealth * Leverage \in Nat
      BY <1>1, <1>11
    <2>3. QED
      BY <1>8, <1>11, <2>1, <2>2
  <1>13. lots = IF r * lot * Price > wealth * Leverage THEN Smaller(r, Larger(1, byLev)) ELSE r
    BY <1>9, <1>11 DEF ComputeSize
  <1>14. lots = IF r > byLev THEN Smaller(r, Larger(1, byLev)) ELSE r
    BY <1>12, <1>13
  <1>15. /\ lots \in Nat \ {0}
         /\ lots > 1 => lots <= byRisk /\ lots <= byLev
         /\ ~(lots + 1 <= byRisk /\ lots + 1 <= byLev)
         /\ Smaller(byRisk, byLev) # lots => Smaller(byRisk, byLev) = 0 /\ lots = 1
    BY <1>7, <1>8, <1>11, <1>14, SizeIs
  <1>16. BacktestSize(wealth, lot, sl) = Smaller(byRisk, byLev)
    BY <1>9 DEF BacktestSize
  <1>17. lots + 1 \in Nat
    BY <1>15
  <1>18. /\ lots > 1 => /\ lots * sl * StepOf * lot * 1000 <= wealth * RiskPermille
                        /\ lots * lot * Price <= wealth * Leverage
         /\ ~(/\ (lots + 1) * sl * StepOf * lot * 1000 <= wealth * RiskPermille
              /\ (lots + 1) * lot * Price <= wealth * Leverage)
         /\ BacktestSize(wealth, lot, sl) # lots => BacktestSize(wealth, lot, sl) = 0 /\ lots = 1
    BY <1>10, <1>15, <1>16, <1>17
  <1>19. QED
    BY <1>18 DEF RightSize

LEMMA HoursAreNestedHere ==
    ASSUME RulesInv, NEW x \in input, ClockCase(x)
    PROVE  /\ answer # {} => {"equity", "unknown"} \subseteq answer
           /\ answer \cap {"futures", "commodity", "currency"} # {} =>
                  {"futures", "commodity", "currency"} \subseteq answer
           /\ answer # {} => LET since == x.day * MinutesOfDay + x.minute + Moscow IN
                  since < 5 * MinutesOfDay \/ since >= 7 * MinutesOfDay
  <1>1. PICK dow \in 0 .. 6, moment \in Moments :
           /\ x = [kind |-> "clock", day |-> dow, minute |-> moment]
           /\ answer = {c \in AssetClasses : IsMarketOpen(dow, moment, c)}
    BY DEF ClockCase
  <1>2. moment \in 0 .. 1439
    BY DEF Moments, MinutesOfDay, Moscow, Opens, Closes
  <1>3. x.day = dow /\ x.minute = moment
    BY <1>1
  <1>4. PICK local : local = moment + 180 /\ local \in Nat
    BY <1>2
  <1>5. PICK carry : carry = local \div 1440 /\ carry \in {0, 1} /\ carry * 1440 <= local
                     /\ local < (carry + 1) * 1440
    BY <1>2, <1>4
  <1>6. PICK time : time = local % 1440 /\ time \in Nat
    BY <1>4
  <1>7. ASSUME NEW c
        PROVE  IsMarketOpen(dow, moment, c) <=>
                   (dow + carry) % 7 < 5 /\ time >= Opens(c) /\ time <= Closes
    <2>1. MinutesOfDay = 1440 /\ Moscow = 180
      BY DEF MinutesOfDay, Moscow
    <2>2. QED
      BY <1>4, <1>5, <1>6, <2>1 DEF IsMarketOpen
  <1>8. /\ \A c \in AssetClasses : Opens(c) \in {410, 530}
        /\ Opens("equity") = 410 /\ Opens("unknown") = 410
        /\ Opens("futures") = 530 /\ Opens("commodity") = 530 /\ Opens("currency") = 530
    BY DEF Opens
  <1>9. /\ {"equity", "unknown", "futures", "commodity", "currency"} \subseteq AssetClasses
    BY DEF AssetClasses
  <1>10. ASSUME NEW c \in answer
         PROVE  /\ (dow + carry) % 7 < 5 /\ time >= Opens(c) /\ time <= Closes /\ Opens(c) \in {410, 530}
    BY <1>1, <1>7, <1>8
  <1>11. ASSUME answer # {} PROVE {"equity", "unknown"} \subseteq answer
    <2>1. PICK c : c \in answer
      BY <1>11
    <2>2. (dow + carry) % 7 < 5 /\ time >= 410 /\ time <= Closes
      BY <1>6, <1>10, <2>1
    <2>3. QED
      BY <1>1, <1>7, <1>8, <1>9, <2>2
  <1>12. ASSUME answer \cap {"futures", "commodity", "currency"} # {}
         PROVE  {"futures", "commodity", "currency"} \subseteq answer
    <2>1. PICK c \in {"futures", "commodity", "currency"} : c \in answer
      BY <1>12
    <2>2. (dow + carry) % 7 < 5 /\ time >= 530 /\ time <= Closes
      BY <1>6, <1>8, <1>10, <2>1
    <2>3. QED
      BY <1>1, <1>7, <1>8, <1>9, <2>2
  <1>13. ASSUME answer # {}
         PROVE  dow * 1440 + moment + 180 < 5 * 1440 \/ dow * 1440 + moment + 180 >= 7 * 1440
    <2>1. (dow + carry) % 7 < 5
      BY <1>10, <1>13
    <2>2. QED
      BY <1>2, <1>4, <1>5, <2>1
  <1>14. MinutesOfDay = 1440 /\ Moscow = 180
    BY DEF MinutesOfDay, Moscow
  <1>15. QED
    BY <1>3, <1>11, <1>12, <1>13, <1>14

\* One case of the rules.
LEMMA SignalsAgreeHere ==
    ASSUME RulesInv, NEW x \in input, SignalCase(x)
    PROVE  /\ LET f == x.forecast  g == MirrorForecast(f)
                  tie == AtLeast(f, "BUY", "SELL") /\ AtLeast(f, "SELL", "BUY") IN
              /\ ~tie => /\ (EvaluateRr(f) = "BUY") = (EvaluateRr(g) = "SELL")
                         /\ (EvaluateRr(f) = "SELL") = (EvaluateRr(g) = "BUY")
              /\ tie => EvaluateRr(f) # "SELL"
              /\ Qualifies(f, "BUY") /\ answer = {} => AtLeast(f, "SELL", "BUY")
              /\ Qualifies(f, "SELL") /\ answer = {} => AtLeast(f, "BUY", "SELL")
           /\ \A p \in answer : p.tp > p.sl
           /\ \A p \in answer :
                 LET risk(n) == n * p.sl * StepOf * x.lot * 1000 <= x.equity * RiskPermille
                     notional(n) == n * x.lot * Price <= x.equity * Leverage IN
                 /\ p.lots > 1 => risk(p.lots) /\ notional(p.lots)
                 /\ ~(risk(p.lots + 1) /\ notional(p.lots + 1))
                 /\ p.backtest # p.lots => p.backtest = 0 /\ p.lots = 1
           /\ Select(x.forecast) = {p.side : p \in answer}
           /\ \A p \in answer : p.include = p.keep
  <1>1. PICK raw \in Forecasts, i \in Impacts, wealth \in Equities, lot \in LotSizes :
           /\ x = [kind |-> "signal", forecast |-> Clamped(raw), impact |-> i, equity |-> wealth, lot |-> lot]
           /\ answer = {Proposal(Clamped(raw), s, i, wealth, lot) : s \in {EvaluateRr(Clamped(raw))} \ {"none"}}
    BY DEF SignalCase
  <1>2. PICK f \in ClampedForecasts : f = Clamped(raw)
    BY <1>1, ClampedIs
  <1>3. x.forecast = f /\ x.equity = wealth /\ x.lot = lot
    BY <1>1, <1>2
  <1>4. PICK side : side = EvaluateRr(f)
    OBVIOUS
  <1>5. answer = {Proposal(f, s, i, wealth, lot) : s \in {side} \ {"none"}}
    BY <1>1, <1>2, <1>4
  <1>6. wealth \in Nat \ {0} /\ lot \in Nat \ {0}
    BY <1>1, RulesAssumption
  <1>7. /\ side = "BUY" <=> Qualifies(f, "BUY") /\ AtLeast(f, "BUY", "SELL")
        /\ side = "SELL" <=> Qualifies(f, "SELL") /\ ~AtLeast(f, "BUY", "SELL")
        /\ side \in {"BUY", "SELL", "none"}
    BY <1>4, EvaluateRrIs
  <1>8. answer = {} <=> side = "none"
    BY <1>5
  <1>9. ASSUME NEW p \in answer
        PROVE  /\ side \in {"BUY", "SELL"} /\ Qualifies(f, side) /\ p.side = side
               /\ p.tp = TpDistance(f, side) /\ p.sl = SlDistance(f, side)
               /\ p.lots = ComputeSize(wealth, lot, SlDistance(f, side))
               /\ p.backtest = BacktestSize(wealth, lot, SlDistance(f, side))
               /\ p.include = Include(i, side) /\ p.keep = Keep(i, side)
    <2>1. PICK s \in {side} \ {"none"} : p = Proposal(f, s, i, wealth, lot)
      BY <1>5, <1>9
    <2>2. s = side /\ side # "none"
      BY <2>1
    <2>3. side \in {"BUY", "SELL"} /\ Qualifies(f, side)
      BY <1>7, <2>2
    <2>4. QED
      BY <2>1, <2>2, <2>3 DEF Proposal
  <1>10. PICK g : g = MirrorForecast(f)
    OBVIOUS
  <1>11. /\ ~(AtLeast(f, "BUY", "SELL") /\ AtLeast(f, "SELL", "BUY")) =>
                /\ (EvaluateRr(f) = "BUY") = (EvaluateRr(g) = "SELL")
                /\ (EvaluateRr(f) = "SELL") = (EvaluateRr(g) = "BUY")
         /\ AtLeast(f, "BUY", "SELL") /\ AtLeast(f, "SELL", "BUY") => EvaluateRr(f) # "SELL"
         /\ Qualifies(f, "BUY") /\ EvaluateRr(f) = "none" => AtLeast(f, "SELL", "BUY")
         /\ Qualifies(f, "SELL") /\ EvaluateRr(f) = "none" => AtLeast(f, "BUY", "SELL")
    BY <1>10, SidesMirror
  <1>12. LET tie == AtLeast(f, "BUY", "SELL") /\ AtLeast(f, "SELL", "BUY") IN
         /\ ~tie => /\ (EvaluateRr(f) = "BUY") = (EvaluateRr(MirrorForecast(f)) = "SELL")
                    /\ (EvaluateRr(f) = "SELL") = (EvaluateRr(MirrorForecast(f)) = "BUY")
         /\ tie => EvaluateRr(f) # "SELL"
         /\ Qualifies(f, "BUY") /\ answer = {} => AtLeast(f, "SELL", "BUY")
         /\ Qualifies(f, "SELL") /\ answer = {} => AtLeast(f, "BUY", "SELL")
    BY <1>4, <1>8, <1>10, <1>11
  <1>13. ASSUME NEW p \in answer PROVE p.tp > p.sl
    BY <1>9, TargetIsBeyondStop
  <1>14. ASSUME NEW p \in answer
         PROVE  LET risk(n) == n * p.sl * StepOf * lot * 1000 <= wealth * RiskPermille
                    notional(n) == n * lot * Price <= wealth * Leverage IN
                /\ p.lots > 1 => risk(p.lots) /\ notional(p.lots)
                /\ ~(risk(p.lots + 1) /\ notional(p.lots + 1))
                /\ p.backtest # p.lots => p.backtest = 0 /\ p.lots = 1
    <2>1. PICK sl : sl = p.sl /\ sl \in Nat \ {0} /\ p.lots = ComputeSize(wealth, lot, sl)
                    /\ p.backtest = BacktestSize(wealth, lot, sl)
      BY <1>9, TargetIsBeyondStop
    <2>2. RightSize(p.lots, p.backtest, sl, lot, wealth)
      BY <1>6, <2>1, SizeIsLargest
    <2>3. QED
      BY <2>1, <2>2 DEF RightSize
  <1>15. Select(f) = {p.side : p \in answer}
    <2>1. Select(f) = {side} \ {"none"}
      BY <1>7 DEF Select
    <2>2. {p.side : p \in answer} = {side} \ {"none"}
      <3>1. ASSUME side # "none" PROVE \E p \in answer : p.side = side
        <4>1. Proposal(f, side, i, wealth, lot) \in answer
          BY <1>5, <3>1
        <4>2. QED
          BY <1>9, <4>1
      <3>2. QED
        BY <1>9, <3>1
    <2>3. QED
      BY <2>1, <2>2
  <1>16. ASSUME NEW p \in answer PROVE p.include = p.keep
    <2>1. i.direction \in {"absent", "neutral", "long", "short"}
      BY <1>1 DEF Impacts
    <2>2. Expected(side) \in {"long", "short"}
      BY DEF Expected
    <2>3. Include(i, side) = Keep(i, side)
      BY <2>1, <2>2, Zenon DEF Include, Keep
    <2>4. QED
      BY <1>9, <2>3
  <1>17. QED
    BY <1>3, <1>12, <1>13, <1>14, <1>15, <1>16

\* A case is a prediction or a look at the clock.
LEMMA KindsOfCases ==
    ASSUME NEW x
    PROVE  /\ SignalCase(x) => x.kind = "signal"
           /\ ClockCase(x) => x.kind = "clock"
  BY DEF SignalCase, ClockCase

LEMMA RulesInvSaysAgree ==
    ASSUME RulesInv PROVE RulesAgree
  <1>1. ASSUME NEW x \in Signals PROVE x \in input /\ SignalCase(x)
    BY <1>1, KindsOfCases DEF Signals, RulesInv
  <1>2. ASSUME NEW x \in Clocks PROVE x \in input /\ ClockCase(x)
    BY <1>2, KindsOfCases DEF Clocks, RulesInv
  <1>3. SidesAreMirrored
    <2> SUFFICES ASSUME NEW x \in Signals
        PROVE LET f == x.forecast  g == MirrorForecast(f)
                  tie == AtLeast(f, "BUY", "SELL") /\ AtLeast(f, "SELL", "BUY") IN
              /\ ~tie => /\ (EvaluateRr(f) = "BUY") = (EvaluateRr(g) = "SELL")
                         /\ (EvaluateRr(f) = "SELL") = (EvaluateRr(g) = "BUY")
              /\ tie => EvaluateRr(f) # "SELL"
              /\ Qualifies(f, "BUY") /\ answer = {} => AtLeast(f, "SELL", "BUY")
              /\ Qualifies(f, "SELL") /\ answer = {} => AtLeast(f, "BUY", "SELL")
      BY DEF SidesAreMirrored
    <2>1. QED
      BY <1>1, SignalsAgreeHere
  <1>4. RewardExceedsRisk
    BY <1>1, SignalsAgreeHere DEF RewardExceedsRisk
  <1>5. SizeIsLargestAllowed
    <2> SUFFICES ASSUME NEW x \in Signals, NEW p \in answer
        PROVE LET risk(n) == n * p.sl * StepOf * x.lot * 1000 <= x.equity * RiskPermille
                  notional(n) == n * x.lot * Price <= x.equity * Leverage IN
              /\ p.lots > 1 => risk(p.lots) /\ notional(p.lots)
              /\ ~(risk(p.lots + 1) /\ notional(p.lots + 1))
              /\ p.backtest # p.lots => p.backtest = 0 /\ p.lots = 1
      BY DEF SizeIsLargestAllowed
    <2>1. QED
      BY <1>1, SignalsAgreeHere
  <1>6. ResearchAgrees
    BY <1>1, SignalsAgreeHere DEF ResearchAgrees
  <1>7. HoursAreNested
    <2> SUFFICES ASSUME NEW x \in Clocks
        PROVE /\ answer # {} => {"equity", "unknown"} \subseteq answer
              /\ answer \cap {"futures", "commodity", "currency"} # {} =>
                     {"futures", "commodity", "currency"} \subseteq answer
              /\ answer # {} => LET since == x.day * MinutesOfDay + x.minute + Moscow IN
                     since < 5 * MinutesOfDay \/ since >= 7 * MinutesOfDay
      BY DEF HoursAreNested
    <2>1. QED
      BY <1>2, HoursAreNestedHere
  <1>8. QED
    BY <1>3, <1>4, <1>5, <1>6, <1>7 DEF RulesAgree

\* The rules of the decision service, of a long and of a short, of a size and of the market
\* hours, agree with each other and with the copies the research scripts run.
THEOREM RulesAgreeHolds == RulesSpec => []RulesAgree
  <1>1. RulesInit => RulesInv
    BY DEF RulesInit, RulesInv
  <1>2. RulesInv /\ [RulesNext]_rulesVars => RulesInv'
    BY RulesStep
  <1>3. RulesInv => RulesAgree
    BY RulesInvSaysAgree
  <1>4. QED
    BY <1>1, <1>2, <1>3, PTL DEF RulesSpec

-------------------------------------------------------------------------------
(* The names of instruments. *)

\* The names the old tables use for the instruments that were renamed.
LEMMA LegacyNames ==
    /\ DOMAIN Renamed = {"YDEX", "MIX", "SI", "GLDRUB"}
    /\ LegacyName("YDEX") = "YNDX" /\ LegacyName("MIX") = "MX"
    /\ LegacyName("SI") = "Si" /\ LegacyName("GLDRUB") = "GOLD"
    /\ \A t : t \notin {"YDEX", "MIX", "SI", "GLDRUB"} => LegacyName(t) = t
  <1>1. DOMAIN Renamed = {"YDEX", "MIX", "SI", "GLDRUB"}
    BY DEF Renamed
  <1>2. /\ Renamed["YDEX"] = "YNDX" /\ Renamed["MIX"] = "MX"
        /\ Renamed["SI"] = "Si" /\ Renamed["GLDRUB"] = "GOLD"
    BY DEF Renamed
  <1>3. QED
    BY <1>1, <1>2 DEF LegacyName

\* No old name belongs to two instruments, or is the name of another.
LEMMA SelfCheckHolds == SelfCheck
  <1> SUFFICES ASSUME NEW t \in CanonicalTickers, NEW u \in CanonicalTickers, t # u
      PROVE LegacyName(t) # LegacyName(u) /\ LegacyName(t) # u
    BY DEF SelfCheck
  <1>1. /\ "YNDX" \notin CanonicalTickers /\ "MX" \notin CanonicalTickers
        /\ "Si" \notin CanonicalTickers /\ "GOLD" \notin CanonicalTickers
    BY DEF CanonicalTickers, StockTickers
  <1>2. \A v : LegacyName(v) = v \/ LegacyName(v) \in {"YNDX", "MX", "Si", "GOLD"}
    BY LegacyNames
  <1>3. \A v : LegacyName(v) = v <=> v \notin {"YDEX", "MIX", "SI", "GLDRUB"}
    BY LegacyNames
  <1>4. LegacyName(t) # u
    BY <1>1, <1>2
  <1>5. CASE LegacyName(t) = t
    BY <1>1, <1>2, <1>5
  <1>6. CASE LegacyName(u) = u
    BY <1>1, <1>2, <1>6
  <1>7. CASE LegacyName(t) # t /\ LegacyName(u) # u
    BY <1>3, <1>7, LegacyNames
  <1>8. QED
    BY <1>4, <1>5, <1>6, <1>7

LEMMA NormalizeIs ==
    /\ \A t \in CanonicalTickers : Normalize(t) = t /\ Normalize(LegacyName(t)) = t
    /\ \A n : Normalize(n) \in CanonicalTickers \cup {"unknown"}
    /\ "unknown" \notin CanonicalTickers
  <1>1. ASSUME NEW t \in CanonicalTickers PROVE Normalize(t) = t
    BY DEF Normalize
  <1>2. ASSUME NEW t \in CanonicalTickers PROVE Normalize(LegacyName(t)) = t
    <2>1. CASE LegacyName(t) = t
      BY <1>1, <2>1
    <2>2. CASE LegacyName(t) # t
      <3>1. LegacyName(t) \notin CanonicalTickers
        BY <2>2, SelfCheckHolds DEF SelfCheck
      <3>2. PICK w : w = CHOOSE u \in CanonicalTickers : LegacyName(u) = LegacyName(t)
        OBVIOUS
      <3>3. w \in CanonicalTickers /\ LegacyName(w) = LegacyName(t)
        BY <3>2
      <3>4. w = t
        BY <3>3, SelfCheckHolds DEF SelfCheck
      <3>5. QED
        BY <3>1, <3>2, <3>4 DEF Normalize
    <2>3. QED
      BY <2>1, <2>2
  <1>3. ASSUME NEW n PROVE Normalize(n) \in CanonicalTickers \cup {"unknown"}
    BY DEF Normalize
  <1>4. "unknown" \notin CanonicalTickers
    BY DEF CanonicalTickers, StockTickers
  <1>5. QED
    BY <1>1, <1>2, <1>3, <1>4

\* Each name of the whitelist, and each the prompt asks for, is the old name of an instrument.
LEMMA AllowedNamesAreKnown ==
    /\ Prompted = AllowedTickers
    /\ \A n \in AllowedTickers : Normalize(n) # "unknown"
  <1>1. Prompted = AllowedTickers
    BY DEF Prompted, AllowedTickers
  <1>2. {"YDEX", "MIX", "SI", "GLDRUB"} \subseteq CanonicalTickers
    BY DEF CanonicalTickers, StockTickers
  <1>3. ASSUME NEW n \in AllowedTickers PROVE \E t \in CanonicalTickers : LegacyName(t) = n
    <2>1. CASE n \in CanonicalTickers
      <3>1. n \notin {"YDEX", "MIX", "SI", "GLDRUB"}
        BY <1>3 DEF AllowedTickers
      <3>2. QED
        BY <2>1, <3>1, LegacyNames
    <2>2. CASE n \notin CanonicalTickers
      <3>1. n \in {"YNDX", "MX", "Si", "GOLD"}
        BY <1>3, <2>2 DEF AllowedTickers, CanonicalTickers, StockTickers
      <3>2. QED
        BY <1>2, <3>1, LegacyNames
    <2>3. QED
      BY <2>1, <2>2
  <1>4. QED
    BY <1>1, <1>3, NormalizeIs

\* The table of lots is the registry's.
LEMMA LotsAgree ==
    ASSUME NEW t PROVE TableLot(t) = LotSize(t)
  <1>1. DOMAIN Lots = {"SBER", "GAZP", "ROSN", "MTSS", "VTBR", "USDRUB"}
    BY DEF Lots
  <1>2. /\ Lots["SBER"] = 10 /\ Lots["GAZP"] = 10 /\ Lots["ROSN"] = 10 /\ Lots["MTSS"] = 10
        /\ Lots["VTBR"] = 10000 /\ Lots["USDRUB"] = 1000
    BY DEF Lots
  <1>3. CASE t \in {"SBER", "GAZP", "ROSN", "MTSS"}
    BY <1>1, <1>2, <1>3 DEF TableLot, LotSize
  <1>4. CASE t = "VTBR"
    BY <1>1, <1>2, <1>4 DEF TableLot, LotSize
  <1>5. CASE t = "USDRUB"
    BY <1>1, <1>2, <1>5 DEF TableLot, LotSize
  <1>6. CASE t \notin {"SBER", "GAZP", "ROSN", "MTSS", "VTBR", "USDRUB"}
    BY <1>1, <1>6 DEF TableLot, LotSize
  <1>7. QED
    BY <1>3, <1>4, <1>5, <1>6

\* The securities of the script: a share is named after the instrument, and a name is known.
LEMMA NamesOfSecurities ==
    /\ \A t \in StockTickers : Share(t) \in Securities \ {Expiring, Following} /\ NameOf(Share(t)) = LegacyName(t)
    /\ \A s \in Securities : \E t \in CanonicalTickers : NameOf(s) = LegacyName(t)
    /\ Following \notin Securities /\ Expiring \in Securities /\ NameOf(Expiring) = "NG"
    /\ Expiring[2] = "NGU6" /\ Following[2] = "NGV6"
  <1>1. ASSUME NEW t \in StockTickers
        PROVE  Share(t) \in Securities \ {Expiring, Following} /\ NameOf(Share(t)) = LegacyName(t)
    <2>1. Share(t)[1] = "TQBR" /\ Share(t)[2] = t
      BY DEF Share
    <2>2. \A c : Future(c)[1] = "SPBFUT"
      BY DEF Future
    <2>3. <<"CETS", "USD000UTSTOM">>[1] = "CETS"
      OBVIOUS
    <2>4. /\ \A c : Share(t) # Future(c)
          /\ Share(t) # <<"CETS", "USD000UTSTOM">>
      BY <2>1, <2>2, <2>3
    <2>5. Share(t) \in Securities
      BY DEF Securities
    <2>6. NameOf(Share(t)) = LegacyName(Share(t)[2])
      BY <2>4 DEF NameOf
    <2>7. QED
      BY <2>1, <2>4, <2>5, <2>6 DEF Expiring, Following
  <1>2. /\ \A t \in StockTickers : t \in CanonicalTickers
        /\ "NG" \in CanonicalTickers /\ "BR" \in CanonicalTickers /\ "SI" \in CanonicalTickers
        /\ "MIX" \in CanonicalTickers /\ "CNY" \in CanonicalTickers /\ "GLDRUB" \in CanonicalTickers
        /\ "USDRUB" \in CanonicalTickers
    BY DEF CanonicalTickers
  <1>3. \A c : Future(c)[1] = "SPBFUT" /\ Future(c)[2] = c
    BY DEF Future
  <1>4. /\ NameOf(Future("NGU6")) = "NG" /\ NameOf(Future("BRU6")) = "BR" /\ NameOf(Future("SiU6")) = "Si"
        /\ NameOf(Future("MXU6")) = "MX" /\ NameOf(Future("CRU6")) = "CNY" /\ NameOf(Future("GDU6")) = "GOLD"
        /\ NameOf(<<"CETS", "USD000UTSTOM">>) = "USDRUB"
    <2>1. \A c, d : Future(c) = Future(d) => c = d
      BY <1>3
    <2>2. \A c : Future(c) # <<"CETS", "USD000UTSTOM">>
      BY DEF Future
    <2>3. QED
      BY <2>1, <2>2 DEF NameOf
  <1>5. ASSUME NEW s \in Securities PROVE \E t \in CanonicalTickers : NameOf(s) = LegacyName(t)
    <2>1. CASE \E t \in StockTickers : s = Share(t)
      BY <1>1, <1>2, <2>1
    <2>2. CASE ~\E t \in StockTickers : s = Share(t)
      <3>1. s \in {Future("NGU6"), Future("BRU6"), Future("SiU6"), Future("MXU6"), Future("CRU6"),
                   Future("GDU6"), <<"CETS", "USD000UTSTOM">>}
        BY <1>5, <2>2 DEF Securities
      <3>2. NameOf(s) \in {"NG", "BR", "Si", "MX", "CNY", "GOLD", "USDRUB"}
        BY <1>4, <3>1
      <3>3. QED
        BY <1>2, <3>2, LegacyNames
    <2>3. QED
      BY <2>1, <2>2
  <1>6. Following \notin Securities
    <2>1. Following[1] = "SPBFUT" /\ Following[2] = "NGV6"
      BY <1>3 DEF Following
    <2>2. ASSUME NEW s \in Securities PROVE s # Following
      <3>1. CASE \E t \in StockTickers : s = Share(t)
        BY <2>1, <3>1 DEF Share
      <3>2. CASE ~\E t \in StockTickers : s = Share(t)
        <4>1. s \in {Future("NGU6"), Future("BRU6"), Future("SiU6"), Future("MXU6"), Future("CRU6"),
                     Future("GDU6"), <<"CETS", "USD000UTSTOM">>}
          BY <2>2, <3>2 DEF Securities
        <4>2. s[2] \in {"NGU6", "BRU6", "SiU6", "MXU6", "CRU6", "GDU6", "USD000UTSTOM"}
          BY <1>3, <4>1
        <4>3. QED
          BY <2>1, <4>2
      <3>3. QED
        BY <3>1, <3>2
    <2>3. QED
      BY <2>2
  <1>7. Expiring \in Securities
    BY DEF Expiring, Securities
  <1>8. QED
    BY <1>1, <1>3, <1>4, <1>5, <1>6, <1>7 DEF Expiring, Following

\* A name from the script that the feed accepts is the instrument that is traded.
LEMMA NameIsOfUnderlying ==
    ASSUME NEW s \in Securities \cup {Following}
    PROVE  /\ CanonicalOr(IF s = Following THEN "NG" ELSE NameOf(s)) = Underlying(s)
           /\ s \in {Expiring, Following} => {s[2], CanonicalOr(s[2])} \cap AcceptedTickers = {}
           /\ s # Following => Underlying(s) \in CanonicalTickers
  <1>1. "NG" \in CanonicalTickers
    BY DEF CanonicalTickers
  <1>2. CanonicalOr(IF s = Following THEN "NG" ELSE NameOf(s)) = Underlying(s)
    <2>1. CASE s = Following
      BY <1>1, <2>1, NormalizeIs DEF CanonicalOr, Underlying
    <2>2. CASE s # Following
      <3>1. PICK t \in CanonicalTickers : NameOf(s) = LegacyName(t)
        BY <2>2, NamesOfSecurities
      <3>2. Normalize(NameOf(s)) = t /\ t # "unknown"
        BY <3>1, NormalizeIs
      <3>3. QED
        BY <2>2, <3>2 DEF CanonicalOr, Underlying
    <2>3. QED
      BY <2>1, <2>2
  <1>3. ASSUME NEW n \in {"NGU6", "NGV6"} PROVE {n, CanonicalOr(n)} \cap AcceptedTickers = {}
    <2>1. n \notin CanonicalTickers
      BY DEF CanonicalTickers, StockTickers
    <2>2. \A t \in CanonicalTickers : LegacyName(t) # n
      BY <2>1, LegacyNames
    <2>3. CanonicalOr(n) = n
      BY <2>1, <2>2 DEF CanonicalOr, Normalize
    <2>4. n \notin DOMAIN Renamed
      BY LegacyNames
    <2>5. QED
      BY <2>2, <2>3, <2>4 DEF AcceptedTickers
  <1>4. ASSUME s # Following PROVE Underlying(s) \in CanonicalTickers
    <2>1. PICK t \in CanonicalTickers : NameOf(s) = LegacyName(t)
      BY <1>4, NamesOfSecurities
    <2>2. QED
      BY <1>4, <2>1, NormalizeIs DEF Underlying
  <1>5. s \in {Expiring, Following} => s[2] \in {"NGU6", "NGV6"}
    BY NamesOfSecurities
  <1>6. QED
    BY <1>2, <1>3, <1>4, <1>5

\* What the whitelist keeps of an answer.
LEMMA KeptIs ==
    ASSUME NEW n \in Nat, NEW ns, DOMAIN ns = 1 .. n
    PROVE  Kept(ns) \in Seq(AllowedTickers) /\ ToSet(Kept(ns)) = ToSet(ns) \cap AllowedTickers
  <1> DEFINE at == {i \in DOMAIN ns : ns[i] \in AllowedTickers}
  <1>1. IsFiniteSet(at) /\ at \subseteq 1 .. n /\ at \subseteq Nat
    <2>1. IsFiniteSet(1 .. n)
      BY FS_Interval
    <2>2. QED
      BY <2>1, FS_Subset
  <1>2. PICK m : m = Cardinality(at)
    OBVIOUS
  <1>3. PICK place : place = [i \in at |-> i]
    OBVIOUS
  <1>4. place \in [at -> Nat] /\ \A i \in at : place[i] = i
    BY <1>1, <1>3
  <1>5. Rising(at, place) # {}
    BY <1>1, <1>4, RisingExists
  <1>6. \E s \in Bijection(1 .. m, at) : \A i, j \in DOMAIN s : i < j => s[i] < s[j]
    <2>1. PICK s \in Bijection(1 .. m, at) : \A i, j \in 1 .. m : i < j => place[s[i]] < place[s[j]]
      BY <1>2, <1>5 DEF Rising
    <2>2. s \in [1 .. m -> at]
      BY <2>1 DEF Bijection, Injection
    <2>3. \A i, j \in DOMAIN s : i < j => s[i] < s[j]
      BY <1>4, <2>1, <2>2
    <2>4. QED
      BY <2>1, <2>3
  <1>7. PICK w : w = CHOOSE s \in Bijection(1 .. m, at) : \A i, j \in DOMAIN s : i < j => s[i] < s[j]
    OBVIOUS
  <1>8. w \in Bijection(1 .. m, at)
    BY <1>6, <1>7
  <1>9. w \in [1 .. m -> at] /\ \A i \in at : \E k \in 1 .. m : w[k] = i
    BY <1>8 DEF Bijection, Injection, Surjection
  <1>10. Kept(ns) = [k \in 1 .. m |-> ns[w[k]]]
    BY <1>2, <1>7, <1>9 DEF Kept
  <1>11. m \in Nat
    BY <1>1, <1>2, FS_CardinalityType
  <1>12. \A i \in at : ns[i] \in AllowedTickers /\ i \in DOMAIN ns
    OBVIOUS
  <1>13. \A i \in DOMAIN ns : ns[i] \in AllowedTickers => i \in at
    OBVIOUS
  <1> HIDE DEF at
  <1>14. \A k \in 1 .. m : w[k] \in at /\ ns[w[k]] \in AllowedTickers /\ w[k] \in DOMAIN ns
    BY <1>9, <1>12
  <1>15. Kept(ns) \in Seq(AllowedTickers)
    BY <1>10, <1>11, <1>14
  <1>16. DOMAIN Kept(ns) = 1 .. m /\ \A k \in 1 .. m : Kept(ns)[k] = ns[w[k]]
    BY <1>10
  <1>17. ToSet(Kept(ns)) = ToSet(ns) \cap AllowedTickers
    <2>1. ASSUME NEW v \in ToSet(Kept(ns)) PROVE v \in ToSet(ns) \cap AllowedTickers
      BY <1>14, <1>16, <2>1 DEF ToSet
    <2>2. ASSUME NEW v \in ToSet(ns) \cap AllowedTickers PROVE v \in ToSet(Kept(ns))
      BY <1>9, <1>13, <1>16, <2>2 DEF ToSet
    <2>3. QED
      BY <2>1, <2>2
  <1>18. QED
    BY <1>15, <1>17

-------------------------------------------------------------------------------

\* The tables of the script, in the middle of a roll too: all but the two contracts stays.
TablesFit ==
    /\ Securities \ {Expiring} \subseteq codes /\ codes \subseteq Securities \cup {Following}
    /\ Securities \ {Expiring} \subseteq DOMAIN keys /\ DOMAIN keys \subseteq Securities \cup {Following}
    /\ \A s \in DOMAIN keys : keys[s] = IF s = Following THEN "NG" ELSE NameOf(s)

\* The event, and the places of its names that are left.
EventFits ==
    /\ event.names \in Seq(CanonicalTickers) /\ places \in Seq(DOMAIN event.names)
    /\ event.state = "raw" => event.names = <<>> /\ predicted = {} /\ signals = {} /\ orders = {}

\* A prediction is from the first impact of its ticker.
PredictionsFit ==
    \A p \in predicted : /\ p.impact \in DOMAIN event.names /\ event.names[p.impact] = p.ticker
                         /\ \A j \in DOMAIN event.names : event.names[j] = p.ticker => p.impact <= j

\* One signal for a ticker, filtered by the impact it is from; one order for a signal.
SignalsFit ==
    /\ \A s \in signals : s.impact = s.filtered /\ s.lot = TableLot(s.ticker)
    /\ \A r, s \in signals : r.ticker = s.ticker => r = s

OrdersFit ==
    /\ \A o \in orders : o.signal \in signals /\ o.lot = TableLot(o.signal.ticker) /\ o.security = Codes(o.signal.ticker)
    /\ \A o, q \in orders : o.signal = q.signal => o = q

NamesInv == TablesFit /\ BarsAreOfTheirInstrument /\ NamesArePassedOn
            /\ EventFits /\ PredictionsFit /\ SignalsFit /\ OrdersFit

LEMMA NamesStart ==
    ASSUME InstrumentsInit PROVE NamesInv
  <1>1. TablesFit
    <2>1. codes = Securities /\ DOMAIN keys = Securities /\ \A s \in Securities : keys[s] = NameOf(s)
      BY DEF InstrumentsInit
    <2>2. QED
      BY <2>1, NamesOfSecurities DEF TablesFit
  <1>2. EventFits
    BY DEF InstrumentsInit, EventFits
  <1>3. QED
    BY <1>1, <1>2 DEF InstrumentsInit, NamesInv, BarsAreOfTheirInstrument, NamesArePassedOn,
                      PredictionsFit, SignalsFit, OrdersFit

\* What the steps of the script leave alone, and those of the services.
LEMMA ServicesRest ==
    ASSUME NamesInv, UNCHANGED <<event, places, predicted, signals, orders>>
    PROVE  (NamesArePassedOn /\ EventFits /\ PredictionsFit /\ SignalsFit /\ OrdersFit)'
  BY DEF NamesInv, NamesArePassedOn, EventFits, PredictionsFit, SignalsFit, OrdersFit

LEMMA TablesRest ==
    ASSUME NamesInv, UNCHANGED <<codes, keys, fed>> PROVE (TablesFit /\ BarsAreOfTheirInstrument)'
  BY DEF NamesInv, TablesFit, BarsAreOfTheirInstrument

LEMMA RollsKeep ==
    ASSUME NamesInv, RollCode \/ RollKey PROVE NamesInv'
  <1>1. TablesFit
    BY DEF NamesInv
  <1>2. CASE RollCode
    <2>1. codes' = (codes \ {Expiring}) \cup {Following} /\ UNCHANGED keys
      BY <1>2 DEF RollCode
    <2>2. TablesFit'
      BY <1>1, <2>1 DEF TablesFit
    <2>3. BarsAreOfTheirInstrument'
      BY <1>2 DEF RollCode, NamesInv, BarsAreOfTheirInstrument
    <2>4. UNCHANGED <<event, places, predicted, signals, orders>>
      BY <1>2 DEF RollCode
    <2>5. QED
      BY <2>2, <2>3, <2>4, ServicesRest DEF NamesInv
  <1>3. CASE RollKey
    <2>1. /\ Expiring \in DOMAIN keys
          /\ DOMAIN keys' = (DOMAIN keys \ {Expiring}) \cup {Following} /\ UNCHANGED codes
          /\ \A s \in DOMAIN keys' : keys'[s] = IF s = Following THEN keys[Expiring] ELSE keys[s]
      BY <1>3 DEF RollKey
    <2>2. keys[Expiring] = "NG"
      BY <1>1, <2>1, NamesOfSecurities DEF TablesFit
    <2>3. ASSUME NEW s \in DOMAIN keys' PROVE keys'[s] = IF s = Following THEN "NG" ELSE NameOf(s)
      BY <1>1, <2>1, <2>2 DEF TablesFit
    <2>4. TablesFit'
      <3>1. /\ Securities \ {Expiring} \subseteq codes' /\ codes' \subseteq Securities \cup {Following}
            /\ Securities \ {Expiring} \subseteq DOMAIN keys' /\ DOMAIN keys' \subseteq Securities \cup {Following}
        BY <1>1, <2>1 DEF TablesFit
      <3>2. QED
        BY <2>3, <3>1 DEF TablesFit
    <2>5. BarsAreOfTheirInstrument'
      BY <1>3 DEF RollKey, NamesInv, BarsAreOfTheirInstrument
    <2>6. UNCHANGED <<event, places, predicted, signals, orders>>
      BY <1>3 DEF RollKey
    <2>7. QED
      BY <2>4, <2>5, <2>6, ServicesRest DEF NamesInv
  <1>4. QED
    BY <1>2, <1>3

LEMMA DumpBarKeeps ==
    ASSUME NamesInv, NEW s \in codes, DumpBar(s) PROVE NamesInv'
  <1>1. TablesFit /\ BarsAreOfTheirInstrument
    BY DEF NamesInv
  <1>2. PICK name : name = IF s \in DOMAIN keys THEN keys[s] ELSE s[2]
    OBVIOUS
  <1>3. {name, CanonicalOr(name)} \cap AcceptedTickers # {} /\ fed' = fed \cup {<<CanonicalOr(name), s>>}
    BY <1>2 DEF DumpBar
  <1>4. s \in Securities \cup {Following}
    BY <1>1 DEF TablesFit
  <1>5. CanonicalOr(name) = Underlying(s)
    <2>1. CASE s \in DOMAIN keys
      <3>1. name = IF s = Following THEN "NG" ELSE NameOf(s)
        BY <1>1, <1>2, <2>1 DEF TablesFit
      <3>2. QED
        BY <1>4, <3>1, NameIsOfUnderlying
    <2>2. CASE s \notin DOMAIN keys
      <3>1. s \in {Expiring, Following} /\ name = s[2]
        BY <1>1, <1>2, <1>4, <2>2 DEF TablesFit
      <3>2. QED
        BY <1>3, <1>4, <3>1, NameIsOfUnderlying
    <2>3. QED
      BY <2>1, <2>2
  <1>6. BarsAreOfTheirInstrument'
    <2>1. ASSUME NEW f \in fed' PROVE f[1] = Underlying(f[2])
      BY <1>1, <1>3, <1>5, <2>1 DEF BarsAreOfTheirInstrument
    <2>2. QED
      BY <2>1 DEF BarsAreOfTheirInstrument, Underlying
  <1>7. UNCHANGED <<codes, keys, event, places, predicted, signals, orders>>
    BY DEF DumpBar
  <1>8. TablesFit'
    BY <1>1, <1>7 DEF TablesFit
  <1>9. QED
    BY <1>6, <1>7, <1>8, ServicesRest DEF NamesInv

\* The answer of the model, as the contract leaves it.
LEMMA AnalyseKeeps ==
    ASSUME NamesInv, NEW ns \in NamedTickers, NEW checked \in BOOLEAN, NEW moment,
           Analyse(ns, checked, moment)
    PROVE  NamesInv'
  <1>1. PICK n \in 0 .. MaxNamed : ns \in [1 .. n -> LlmNames]
    BY DEF NamedTickers
  <1>2. n \in Nat /\ DOMAIN ns = 1 .. n
    BY <1>1, InstrumentsAssumption
  <1>3. PICK kept : kept = IF checked THEN Kept(ns) ELSE ns
    OBVIOUS
  <1>4. PICK m : m \in Nat /\ DOMAIN kept = 1 .. m
    <2>1. CASE checked
      <3>1. kept \in Seq(AllowedTickers)
        BY <1>2, <1>3, <2>1, KeptIs
      <3>2. Len(kept) \in Nat /\ DOMAIN kept = 1 .. Len(kept)
        BY <3>1
      <3>3. QED
        BY <3>2
    <2>2. CASE ~checked
      BY <1>2, <1>3, <2>2
    <2>3. QED
      BY <2>1, <2>2
  <1>5. PICK ends : ends = IF \E t \in ToSet(kept) : Normalize(t) = "unknown" THEN "schema_violation"
                           ELSE IF kept = <<>> THEN "empty_financial" ELSE "enriched"
    OBVIOUS
  <1>6. PICK named : named = IF ends = "enriched" THEN [i \in DOMAIN kept |-> Normalize(kept[i])] ELSE <<>>
    OBVIOUS
  <1>7. /\ event.state = "raw"
        /\ event' = [state |-> ends, moment |-> moment, dropped |-> ToSet(ns) \ ToSet(kept), names |-> named]
        /\ places' = [i \in DOMAIN event'.names |-> i]
        /\ UNCHANGED <<codes, keys, fed, predicted, signals, orders>>
    BY <1>3, <1>5, <1>6 DEF Analyse
  <1>8. event'.names = named /\ event'.state = ends /\ event'.dropped = ToSet(ns) \ ToSet(kept)
    BY <1>7
  <1>9. named \in Seq(CanonicalTickers)
    <2>1. CASE ends = "enriched"
      <3>1. ASSUME NEW i \in 1 .. m PROVE Normalize(kept[i]) \in CanonicalTickers
        <4>1. kept[i] \in ToSet(kept)
          BY <1>4 DEF ToSet
        <4>2. Normalize(kept[i]) # "unknown"
          BY <1>5, <2>1, <4>1
        <4>3. QED
          BY <4>2, NormalizeIs
      <3>2. named = [i \in 1 .. m |-> Normalize(kept[i])]
        BY <1>4, <1>6, <2>1
      <3>3. QED
        BY <1>4, <3>1, <3>2
    <2>2. CASE ends # "enriched"
      BY <1>6, <2>2
    <2>3. QED
      BY <2>1, <2>2
  <1>10. PICK k \in Nat : DOMAIN named = 1 .. k
    BY <1>9
  <1>11. places' = [i \in 1 .. k |-> i]
    BY <1>7, <1>8, <1>10
  <1>12. places' \in Seq(DOMAIN named)
    BY <1>10, <1>11
  <1>13. ends # "raw"
    BY <1>5
  <1>14. EventFits'
    BY <1>8, <1>9, <1>12, <1>13 DEF EventFits
  <1>15. predicted = {} /\ signals = {} /\ orders = {}
    BY <1>7 DEF NamesInv, EventFits
  <1>16. PredictionsFit' /\ SignalsFit' /\ OrdersFit'
    <2>1. predicted' = {} /\ signals' = {} /\ orders' = {}
      BY <1>7, <1>15
    <2>2. QED
      BY <2>1 DEF PredictionsFit, SignalsFit, OrdersFit
  <1>17. NamesArePassedOn'
    <2>1. CASE checked
      <3>1. ToSet(kept) = ToSet(ns) \cap AllowedTickers
        BY <1>2, <1>3, <2>1, KeptIs
      <3>2. \A t \in ToSet(kept) : Normalize(t) # "unknown"
        BY <3>1, AllowedNamesAreKnown
      <3>3. ends # "schema_violation"
        BY <1>5, <3>2
      <3>4. (ToSet(ns) \ ToSet(kept)) \cap Prompted = {}
        BY <3>1, AllowedNamesAreKnown
      <3>5. QED
        BY <1>8, <3>3, <3>4 DEF NamesArePassedOn, Prompted
    <2>2. CASE ~checked
      <3>1. event'.dropped = {}
        BY <1>3, <1>8, <2>2
      <3>2. QED
        BY <3>1 DEF NamesArePassedOn
    <2>3. QED
      BY <2>1, <2>2
  <1>18. QED
    BY <1>7, <1>14, <1>16, <1>17, TablesRest DEF NamesInv

\* The predictor takes the names in their order.
LEMMA PredictorKeeps ==
    ASSUME NamesInv, PredictorHandles PROVE NamesInv'
  <1>1. PICK i \in ToSet(places) :
           SkipOffWhitelist(event.names[i], i) \/ LeaveTicker(event.names[i], i) \/ PredictTicker(event.names[i], i)
    BY DEF PredictorHandles
  <1>2. PICK t : t = event.names[i]
    OBVIOUS
  <1>3. /\ places # <<>> /\ i = Head(places) /\ places' = Tail(places)
        /\ UNCHANGED <<codes, keys, fed, event, signals, orders>>
    BY <1>1 DEF SkipOffWhitelist, LeaveTicker, PredictTicker, PredictorStep
  <1>4. \/ UNCHANGED predicted
        \/ /\ t \in WhitelistTickers /\ ~Claimed(t, i)
           /\ predicted' = predicted \cup {[ticker |-> t, impact |-> i]}
    BY <1>1, <1>2 DEF SkipOffWhitelist, LeaveTicker, PredictTicker
  <1>5. /\ event.names \in Seq(CanonicalTickers) /\ places \in Seq(DOMAIN event.names)
        /\ event.state = "raw" => event.names = <<>> /\ predicted = {} /\ signals = {} /\ orders = {}
    BY DEF NamesInv, EventFits
  <1>6. Head(places) \in DOMAIN event.names /\ Tail(places) \in Seq(DOMAIN event.names)
    BY <1>3, <1>5
  <1>7. event.state # "raw"
    <2>1. ASSUME event.names = <<>> PROVE FALSE
      <3>1. DOMAIN event.names = {}
        BY <2>1
      <3>2. QED
        BY <1>6, <3>1
    <2>2. QED
      BY <1>5, <2>1
  <1>8. EventFits'
    BY <1>3, <1>5, <1>6, <1>7 DEF EventFits
  <1>9. i \in DOMAIN event.names /\ DOMAIN event.names \subseteq Nat
    BY <1>3, <1>5, <1>6
  <1>10. PredictionsFit'
    <2>1. ASSUME NEW p \in predicted'
          PROVE  /\ p.impact \in DOMAIN event.names /\ event.names[p.impact] = p.ticker
                 /\ \A j \in DOMAIN event.names : event.names[j] = p.ticker => p.impact <= j
      <3>1. CASE p \in predicted
        BY <3>1 DEF NamesInv, PredictionsFit
      <3>2. CASE p \notin predicted
        <4>1. t \in WhitelistTickers /\ ~Claimed(t, i) /\ p = [ticker |-> t, impact |-> i]
          BY <1>4, <2>1, <3>2
        <4>2. \A j \in DOMAIN event.names : event.names[j] = t => ~(j < i)
          BY <4>1 DEF Claimed
        <4>3. p.ticker = t /\ p.impact = i
          BY <4>1
        <4>4. QED
          BY <1>2, <1>9, <4>2, <4>3
      <3>3. QED
        BY <3>1, <3>2
    <2>2. QED
      BY <1>3, <2>1 DEF PredictionsFit
  <1>11. NamesArePassedOn' /\ SignalsFit' /\ OrdersFit'
    BY <1>3 DEF NamesInv, NamesArePassedOn, SignalsFit, OrdersFit
  <1>12. QED
    BY <1>3, <1>8, <1>10, <1>11, TablesRest DEF NamesInv

LEMMA DecideOnKeeps ==
    ASSUME NamesInv, NEW p \in predicted, DecideOn(p) PROVE NamesInv'
  <1>1. PICK r : r = [ticker |-> p.ticker, impact |-> p.impact,
                      filtered |-> TickerImpact(p.ticker), lot |-> TableLot(p.ticker)]
    OBVIOUS
  <1>2. /\ \A s \in signals : s.ticker # p.ticker
        /\ signals' = signals \cup {r}
        /\ UNCHANGED <<codes, keys, fed, event, places, predicted, orders>>
    BY <1>1 DEF DecideOn
  <1>3. /\ p.impact \in DOMAIN event.names /\ event.names[p.impact] = p.ticker
        /\ \A j \in DOMAIN event.names : event.names[j] = p.ticker => p.impact <= j
    BY DEF NamesInv, PredictionsFit
  <1>4. DOMAIN event.names \subseteq Nat
    <2>1. event.names \in Seq(CanonicalTickers)
      BY DEF NamesInv, EventFits
    <2>2. QED
      BY <2>1
  <1>5. TickerImpact(p.ticker) = p.impact
    <2>1. PICK w : w = TickerImpact(p.ticker)
      OBVIOUS
    <2>2. /\ w \in DOMAIN event.names /\ event.names[w] = p.ticker
          /\ \A j \in DOMAIN event.names : event.names[j] = p.ticker => w <= j
      BY <1>3, <2>1 DEF TickerImpact
    <2>3. w <= p.impact /\ p.impact <= w
      BY <1>3, <2>2
    <2>4. QED
      BY <1>3, <1>4, <2>1, <2>2, <2>3
  <1>6. r.ticker = p.ticker /\ r.impact = r.filtered /\ r.lot = TableLot(r.ticker)
    BY <1>1, <1>5
  <1>7. SignalsFit'
    <2>1. SignalsFit
      BY DEF NamesInv
    <2>2. \A s \in signals' : s.impact = s.filtered /\ s.lot = TableLot(s.ticker)
      BY <1>2, <1>6, <2>1 DEF SignalsFit
    <2>3. \A q, s \in signals' : q.ticker = s.ticker => q = s
      BY <1>2, <1>6, <2>1 DEF SignalsFit
    <2>4. QED
      BY <2>2, <2>3 DEF SignalsFit
  <1>8. OrdersFit'
    BY <1>2 DEF NamesInv, OrdersFit
  <1>9. EventFits'
    <2>1. event.state # "raw"
      BY DEF NamesInv, EventFits
    <2>2. QED
      BY <1>2, <2>1 DEF NamesInv, EventFits
  <1>10. NamesArePassedOn' /\ PredictionsFit'
    BY <1>2 DEF NamesInv, NamesArePassedOn, PredictionsFit
  <1>11. QED
    BY <1>2, <1>7, <1>8, <1>9, <1>10, TablesRest DEF NamesInv

LEMMA OpenKeeps ==
    ASSUME NamesInv, NEW s \in signals, NEW book, Open(s, book) PROVE NamesInv'
  <1>1. PICK r : r = [signal |-> s, mode |-> book, lot |-> TableLot(s.ticker), security |-> Codes(s.ticker)]
    OBVIOUS
  <1>2. /\ \A o \in orders : o.signal # s
        /\ orders' = orders \cup {r}
        /\ UNCHANGED <<codes, keys, fed, event, places, predicted, signals>>
    BY <1>1 DEF Open
  <1>3. r.signal = s /\ r.lot = TableLot(r.signal.ticker) /\ r.security = Codes(r.signal.ticker)
    BY <1>1
  <1>4. OrdersFit'
    <2>1. OrdersFit
      BY DEF NamesInv
    <2>2. \A o \in orders' : o.signal \in signals /\ o.lot = TableLot(o.signal.ticker) /\ o.security = Codes(o.signal.ticker)
      BY <1>2, <1>3, <2>1 DEF OrdersFit
    <2>3. \A o, q \in orders' : o.signal = q.signal => o = q
      BY <1>2, <1>3, <2>1 DEF OrdersFit
    <2>4. QED
      BY <1>2, <2>2, <2>3 DEF OrdersFit
  <1>5. EventFits'
    <2>1. event.state # "raw"
      BY DEF NamesInv, EventFits
    <2>2. QED
      BY <1>2, <2>1 DEF NamesInv, EventFits
  <1>6. NamesArePassedOn' /\ PredictionsFit' /\ SignalsFit'
    BY <1>2 DEF NamesInv, NamesArePassedOn, PredictionsFit, SignalsFit
  <1>7. QED
    BY <1>2, <1>4, <1>5, <1>6, TablesRest DEF NamesInv

LEMMA NamesStep ==
    ASSUME NamesInv, [InstrumentsNext]_instrumentsVars PROVE NamesInv'
  <1>1. CASE UNCHANGED instrumentsVars
    <2>1. UNCHANGED <<codes, keys, fed, event, places, predicted, signals, orders>>
      BY <1>1 DEF instrumentsVars
    <2>2. QED
      BY <2>1, TablesRest, ServicesRest DEF NamesInv
  <1>2. CASE RollCode \/ RollKey
    BY <1>2, RollsKeep
  <1>3. CASE \E s \in codes : DumpBar(s)
    BY <1>3, DumpBarKeeps
  <1>4. CASE \E ns \in NamedTickers, checked \in BOOLEAN, m \in Sessions : Analyse(ns, checked, m)
    BY <1>4, AnalyseKeeps
  <1>5. CASE PredictorHandles
    BY <1>5, PredictorKeeps
  <1>6. CASE \E p \in predicted : DecideOn(p)
    BY <1>6, DecideOnKeeps
  <1>7. CASE \E s \in signals, book \in {"paper", "real"} : Open(s, book)
    BY <1>7, OpenKeeps
  <1>8. QED
    BY <1>1, <1>2, <1>3, <1>4, <1>5, <1>6, <1>7 DEF InstrumentsNext

LEMMA PassedOverIsUnlisted == InstrumentsSpec => [](leftAside \cap WhitelistTickers = {})
  <1>1. InstrumentsInit => leftAside \cap WhitelistTickers = {}
    BY DEF InstrumentsInit
  <1>2. ASSUME leftAside \cap WhitelistTickers = {}, [InstrumentsNext]_instrumentsVars
        PROVE  (leftAside \cap WhitelistTickers = {})'
    <2>1. CASE UNCHANGED leftAside
      BY <1>2, <2>1 DEF WhitelistTickers
    <2>2. CASE \E t, i : SkipOffWhitelist(t, i)
      <3>1. PICK t : t \notin WhitelistTickers /\ leftAside' = leftAside \cup {t}
        BY <2>2 DEF SkipOffWhitelist
      <3>2. QED
        BY <1>2, <3>1 DEF WhitelistTickers
    <2>3. CASE PredictorHandles
      BY <2>1, <2>2, <2>3 DEF PredictorHandles, LeaveTicker, PredictTicker
    <2>4. QED
      BY <1>2, <2>1, <2>3 DEF InstrumentsNext, instrumentsVars, RollCode, RollKey, DumpBar, Analyse,
                              DecideOn, Open
  <1>3. QED
    BY <1>1, <1>2, PTL DEF InstrumentsSpec

LEMMA UnlistedShows ==
    ASSUME leftAside \cap WhitelistTickers = {} PROVE ListedIsTraded
  <1>1. ASSUME NEW n \in WhitelistTickers PROVE Normalize(n) \in WhitelistTickers \cup {"YDEX"}
    <2>1. CASE n = "YNDX"
      <3>1. "YDEX" \in CanonicalTickers /\ LegacyName("YDEX") = "YNDX"
        BY LegacyNames DEF CanonicalTickers, StockTickers
      <3>2. QED
        BY <2>1, <3>1, NormalizeIs
    <2>2. CASE n # "YNDX"
      <3>1. n \in CanonicalTickers
        BY <1>1, <2>2 DEF WhitelistTickers, CanonicalTickers, StockTickers
      <3>2. QED
        BY <1>1, <3>1, NormalizeIs
    <2>3. QED
      BY <2>1, <2>2
  <1>2. QED
    BY <1>1 DEF ListedIsTraded

LEMMA NamesInvShows ==
    ASSUME NamesInv, leftAside \cap WhitelistTickers = {} PROVE InstrumentsAreKept
  <1>1. OrdersAreForTheirInstrument
    <2> SUFFICES ASSUME NEW o \in orders, NEW t, t = o.signal.ticker
        PROVE  /\ \A p \in orders : p.signal.ticker = t => p = o
               /\ o.signal.impact = o.signal.filtered
               /\ o.lot = o.signal.lot /\ o.lot = LotSize(t)
               /\ t \in StockTickers => Underlying(o.security) = t /\ o.security \in codes
      BY DEF OrdersAreForTheirInstrument
    <2>1. o.signal \in signals /\ o.lot = TableLot(t) /\ o.security = Codes(t)
      BY DEF NamesInv, OrdersFit
    <2>2. o.signal.impact = o.signal.filtered /\ o.signal.lot = TableLot(t)
      BY <2>1 DEF NamesInv, SignalsFit
    <2>3. ASSUME NEW p \in orders, p.signal.ticker = t PROVE p = o
      <3>1. p.signal \in signals
        BY DEF NamesInv, OrdersFit
      <3>2. p.signal = o.signal
        BY <2>1, <2>3, <3>1 DEF NamesInv, SignalsFit
      <3>3. QED
        BY <3>2 DEF NamesInv, OrdersFit
    <2>4. ASSUME t \in StockTickers PROVE Underlying(o.security) = t /\ o.security \in codes
      <3>1. o.security = Share(t)
        BY <2>1 DEF Codes, Share
      <3>2. /\ Share(t) \in Securities \ {Expiring, Following}
            /\ NameOf(Share(t)) = LegacyName(t)
        BY <2>4, NamesOfSecurities
      <3>3. t \in CanonicalTickers
        BY <2>4 DEF CanonicalTickers
      <3>4. Underlying(Share(t)) = t
        BY <3>2, <3>3, NormalizeIs DEF Underlying
      <3>5. Share(t) \in codes
        BY <3>2 DEF NamesInv, TablesFit
      <3>6. QED
        BY <3>1, <3>4, <3>5
    <2>5. QED
      BY <2>1, <2>2, <2>3, <2>4, LotsAgree
  <1>2. QED
    BY <1>1, SelfCheckHolds, UnlistedShows DEF InstrumentsAreKept, NamesInv

\* The names of instruments: bars enter the cache of what was traded, in the middle of a roll
\* too, no name the prompt asks for is dropped, an order is for its instrument, and no instrument
\* of the whitelist but Yandex is passed over.
THEOREM InstrumentsAreKeptHolds == InstrumentsSpec => []InstrumentsAreKept
  <1>1. InstrumentsInit => NamesInv
    BY NamesStart
  <1>2. NamesInv /\ [InstrumentsNext]_instrumentsVars => NamesInv'
    BY NamesStep
  <1>3. NamesInv /\ leftAside \cap WhitelistTickers = {} => InstrumentsAreKept
    BY NamesInvShows
  <1>4. QED
    BY <1>1, <1>2, <1>3, PassedOverIsUnlisted, PTL DEF InstrumentsSpec

\* An archive of news has each message once; after a run that was not cut off it misses only
\* messages that share a line with one being written when an earlier run was killed, and after
\* two such runs none; what is extracted then has every text once (the scraper and extract_gap).
THEOREM ArchiveIsWholeHolds == ArchiveSpec => []ArchiveIsWhole
  <1>1. ArchiveInit => ArchiveInv
    BY ArchiveStarts
  <1>2. ArchiveInv /\ [ArchiveNext]_archiveVars => ArchiveInv'
    BY ArchiveStep
  <1>3. ArchiveInv => ArchiveIsWhole
    BY ArchiveInvShows
  <1>4. QED
    BY <1>1, <1>2, <1>3, PTL DEF ArchiveSpec

\* The copy of a stream that goes on has its window in order, none twice and none missing that
\* was there and was not trimmed; no message gets the answer to another text, and one keeps its
\* own only for a reason (pull_enriched_from_vps, swap_vps_enrichment_to_di).
THEOREM ReplayInputIsSoundHolds == EnrichedSwapSpec => []ReplayInputIsSound
  <1>1. EnrichedSwapInit => SwapInv
    BY SwapStarts
  <1>2. SwapInv /\ [EnrichedSwapNext]_swapVars => SwapInv'
    BY SwapStep
  <1>3. SwapInv => ReplayInputIsSound
    BY SwapInvShows
  <1>4. QED
    BY <1>1, <1>2, <1>3, PTL DEF EnrichedSwapSpec

-------------------------------------------------------------------------------
(* One paper trade. *)

\* Minutes that are bounded have a last one.
LEMMA LastOfMinutes ==
    ASSUME NEW S \in SUBSET PaperMinutes, S # {}
    PROVE  Max(S) \in S /\ \A y \in S : y <= Max(S)
  <1>1. LastWall \in Nat
    BY PaperAssumption
  <1> DEFINE Left == {LastWall - x : x \in S}
  <1>2. \A x \in S : x \in Nat /\ x <= LastWall /\ LastWall - x \in Nat
    BY <1>1 DEF PaperMinutes
  <1>3. Left \in SUBSET Nat /\ Left # {}
    BY <1>2
  <1>4. PICK d \in Left : \A y \in Left : d <= y
    BY <1>3, LeastNumber
  <1>5. PICK x \in S : d = LastWall - x
    BY <1>4
  <1>6. \A y \in S : LastWall - y \in Left
    OBVIOUS
  <1> HIDE DEF Left
  <1>7. \A y \in S : x >= y
    BY <1>1, <1>2, <1>4, <1>5, <1>6
  <1>8. Max(S) \in S /\ \A y \in S : Max(S) >= y
    BY <1>7 DEF Max
  <1>9. QED
    BY <1>2, <1>8

\* The fill, from the next bar or from one that was not too old; in a replay nothing follows
\* the latter.
FillsFit ==
    \A f \in fill :
        /\ f.at \in PaperMinutes
        /\ \/ f.at > SignalAt
           \/ SignalAt - f.at <= StaleAfter /\ (source = "replay" => \A m \in Seen : m <= f.at)

\* The exit by a level is by the first bar that met one, of those that are there.
FirstMet(f, o) ==
    /\ o.at \in Seen /\ f.at < o.at /\ o.at <= f.at + HoldFor /\ o = ExitIn(o.at) /\ MeetsLevel(o.at)
    /\ \A n \in Seen : f.at < n /\ n < o.at => ~MeetsLevel(n)

PaperInv ==
    /\ Seen \subseteq PaperMinutes /\ wall \in PaperMinutes /\ reloads \in Nat
    /\ source \in {"live", "replay"}
    /\ order = "signal" => fill = {}
    /\ order \in {"signal", "held"} => outcome = {}
    /\ \A f, g \in fill : f = g
    /\ FillsFit
    /\ ~disorder /\ reloads = 0 => \A f \in fill, o \in outcome : o.reason \in {"sl", "tp"} => FirstMet(f, o)
    /\ \A f \in fill, o \in outcome : o.at \in Nat /\ f.at < o.at /\ (o.at <= SignalAt => source = "live")

LEMMA PaperStarts ==
    ASSUME PaperInit PROVE PaperInv
  <1>1. fill = {} /\ outcome = {}
    BY DEF PaperInit
  <1>2. /\ Seen \subseteq PaperMinutes /\ wall \in PaperMinutes /\ reloads \in Nat
        /\ source \in {"live", "replay"}
    <2>1. LastWall \in Nat /\ reloads = 0
      BY PaperAssumption DEF PaperInit
    <2>2. CASE source = "live" /\ wall = 0 /\ frame = [m \in {} |-> 0]
      BY <2>1, <2>2 DEF Seen, PaperMinutes
    <2>3. CASE /\ source = "replay" /\ wall = LastWall
               /\ \E minutes \in SUBSET PaperMinutes : frame \in [minutes -> PaperBars]
      <3>1. Seen \subseteq PaperMinutes
        BY <2>3 DEF Seen
      <3>2. wall \in PaperMinutes
        BY <2>1, <2>3 DEF PaperMinutes
      <3>3. QED
        BY <2>1, <2>3, <3>1, <3>2
    <2>4. QED
      BY <2>2, <2>3 DEF PaperInit
  <1>3. QED
    BY <1>1, <1>2 DEF PaperInv, FillsFit

\* What a fill may be.
LEMMA FillsOf ==
    ASSUME NEW m \in Seen
    PROVE  (\A f \in FillAt(m) : f.at = m) /\ (\A f, g \in FillAt(m) : f = g)
  BY DEF FillAt

LEMMA NextOpenIs ==
    ASSUME Seen \subseteq PaperMinutes
    PROVE  /\ \A f, g \in NextOpen : f = g
           /\ \A f \in NextOpen :
                /\ f.at \in PaperMinutes
                /\ f.at > SignalAt \/ (SignalAt - f.at <= StaleAfter /\ \A m \in Seen : m <= f.at)
  <1>1. PICK next : next = {m \in Seen : m >= SignalAt + 1}
    OBVIOUS
  <1>2. SignalAt \in Nat /\ StaleAfter \in Nat /\ \A m \in Seen : m \in Nat
    BY PaperAssumption DEF PaperMinutes
  <1>3. CASE Seen = {}
    BY <1>3 DEF NextOpen
  <1>4. CASE Seen # {} /\ next # {}
    <2>1. NextOpen = FillAt(Min(next))
      BY <1>1, <1>4 DEF NextOpen
    <2>2. Min(next) \in next
      <3>1. next \in SUBSET Nat
        BY <1>1, <1>2
      <3>2. QED
        BY <1>4, <3>1, MinOf
    <2>3. PICK m : m = Min(next)
      OBVIOUS
    <2>4. m \in Seen /\ m > SignalAt
      BY <1>1, <1>2, <2>2, <2>3
    <2>5. (\A f \in FillAt(m) : f.at = m) /\ (\A f, g \in FillAt(m) : f = g)
      BY <2>4, FillsOf
    <2>6. QED
      BY <2>1, <2>3, <2>4, <2>5
  <1>5. CASE Seen # {} /\ next = {}
    <2>1. NextOpen = IF SignalAt - Max(Seen) > StaleAfter THEN {} ELSE FillAt(Max(Seen))
      BY <1>1, <1>5 DEF NextOpen
    <2>2. PICK m : m = Max(Seen)
      OBVIOUS
    <2>3. m \in Seen /\ \A n \in Seen : n <= m
      BY <1>5, <2>2, LastOfMinutes
    <2>4. (\A f \in FillAt(m) : f.at = m) /\ (\A f, g \in FillAt(m) : f = g)
      BY <2>3, FillsOf
    <2>5. CASE SignalAt - m > StaleAfter
      BY <2>1, <2>2, <2>5
    <2>6. CASE ~(SignalAt - m > StaleAfter)
      <3>1. NextOpen = FillAt(m)
        BY <2>1, <2>2, <2>6
      <3>2. SignalAt - m <= StaleAfter
        BY <1>2, <2>3, <2>6
      <3>3. QED
        BY <2>3, <2>4, <3>1, <3>2
    <2>7. QED
      BY <2>5, <2>6
  <1>6. QED
    BY <1>3, <1>4, <1>5

LEMMA FillKeeps ==
    ASSUME PaperInv, ProcessSignal PROVE PaperInv'
  <1>1. UNCHANGED <<source, wall, frame, outcome, disorder, reloads>> /\ fill' = NextOpen /\ order = "signal"
        /\ order' \in {"refused", "held"}
    BY DEF ProcessSignal
  <1>2. outcome' = {} /\ Seen' = Seen /\ Seen \subseteq PaperMinutes
    BY <1>1 DEF PaperInv, Seen
  <1>3. FillsFit'
    BY <1>1, <1>2, NextOpenIs DEF FillsFit
  <1>4. QED
    BY <1>1, <1>2, <1>3, NextOpenIs DEF PaperInv

\* A bar in order is newer than all that were seen.
LEMMA BarKeeps ==
    ASSUME PaperInv, NEW m \in PaperMinutes, NEW bar \in PaperBars, BarArrives(m, bar) PROVE PaperInv'
  <1>1. /\ source = "live" /\ m \notin Seen
        /\ frame' = [n \in Seen \cup {m} |-> IF n = m THEN bar ELSE frame[n]]
        /\ disorder' = (disorder \/ \E n \in Seen \cup unread : n > m)
        /\ UNCHANGED <<source, wall, order, fill, outcome, reloads>>
    BY DEF BarArrives
  <1>2. Seen' = Seen \cup {m} /\ \A n \in Seen : frame'[n] = frame[n]
    BY <1>1 DEF Seen
  <1>3. Seen \subseteq PaperMinutes /\ FillsFit
    BY DEF PaperInv
  <1>4. FillsFit'
    <2>1. ASSUME NEW f \in fill
          PROVE  f.at \in PaperMinutes /\ (f.at > SignalAt \/ SignalAt - f.at <= StaleAfter)
      BY <1>3 DEF FillsFit
    <2>2. source' # "replay"
      BY <1>1
    <2>3. QED
      BY <1>1, <2>1, <2>2 DEF FillsFit, PaperMinutes
  <1>5. ASSUME ~disorder', reloads' = 0, NEW f \in fill, NEW o \in outcome, o.reason \in {"sl", "tp"}
        PROVE  FirstMet(f, o)'
    <2>1. ~disorder /\ (\A n \in Seen : ~(n > m)) /\ reloads = 0
      BY <1>1, <1>5
    <2>2. FirstMet(f, o)
      BY <1>5, <2>1 DEF PaperInv
    <2>3. o.at \in Seen /\ o = ExitIn(o.at) /\ MeetsLevel(o.at) /\ f.at < o.at /\ o.at <= f.at + HoldFor
      BY <2>2 DEF FirstMet
    <2>4. o = ExitIn(o.at)' /\ MeetsLevel(o.at)'
      BY <1>2, <2>3 DEF ExitIn, MeetsLevel
    <2>5. ASSUME NEW n \in Seen', f.at < n, n < o.at PROVE ~MeetsLevel(n)'
      <3>1. \A x \in Seen \cup {m} : x \in Nat
        BY <1>3 DEF PaperMinutes
      <3>2. n \in Seen
        BY <1>2, <2>1, <2>3, <2>5, <3>1
      <3>3. ~MeetsLevel(n)
        BY <2>2, <2>5, <3>2 DEF FirstMet
      <3>4. QED
        BY <1>2, <3>2, <3>3 DEF MeetsLevel
    <2>6. QED
      BY <1>2, <2>3, <2>4, <2>5 DEF FirstMet
  <1>6. Seen' \subseteq PaperMinutes
    BY <1>2, <1>3
  <1>7. QED
    BY <1>1, <1>4, <1>5, <1>6 DEF PaperInv

\* The exit a poll finds.
LEMMA ExitFound ==
    ASSUME StaleAfter < HoldFor, PaperInv, NEW f \in fill, NEW o \in CheckExit(f, Until(f))
    PROVE  /\ o.reason \in {"sl", "tp"} => FirstMet(f, o)
           /\ o.at \in Nat /\ f.at < o.at /\ (o.at <= SignalAt => source = "live")
  <1>1. /\ HoldFor \in Nat /\ SignalAt \in Nat /\ StaleAfter \in Nat
        /\ f.at \in Nat /\ \A m \in Seen : m \in Nat
    BY PaperAssumption DEF PaperInv, FillsFit, PaperMinutes
  <1>2. Seen \subseteq PaperMinutes /\ wall \in Nat
    BY PaperAssumption DEF PaperInv, PaperMinutes
  <1>3. PICK until : until = Until(f)
    OBVIOUS
  <1>10. until \in Nat /\ until <= f.at + HoldFor
    <2>1. PICK ends : ends = {f.at + HoldFor, wall}
      OBVIOUS
    <2>2. ends \in SUBSET Nat /\ ends # {} /\ f.at + HoldFor \in ends
      BY <1>1, <1>2, <2>1
    <2>3. Min(ends) \in Nat /\ Min(ends) <= f.at + HoldFor
      BY <2>2, MinOf
    <2>4. QED
      BY <1>3, <2>1, <2>3 DEF Until
  <1>4. ASSUME NEW m \in Seen, f.at < m, m <= until
        PROVE  m <= SignalAt => source = "live"
    BY <1>1, <1>4 DEF PaperInv, FillsFit
  <1>5. PICK window : window = {m \in Seen : f.at < m /\ m <= until}
    OBVIOUS
  <1>6. PICK met : met = {m \in window : MeetsLevel(m)}
    OBVIOUS
  <1>7. CASE met # {}
    <2>1. CheckExit(f, until) = {ExitIn(Min(met))}
      BY <1>5, <1>6, <1>7 DEF CheckExit
    <2>2. PICK m : m = Min(met)
      OBVIOUS
    <2>3. m \in met /\ \A n \in met : m <= n
      <3>1. met \in SUBSET Nat
        BY <1>1, <1>5, <1>6
      <3>2. QED
        BY <1>7, <2>2, <3>1, MinOf
    <2>4. o = ExitIn(m) /\ o.at = m
      BY <1>3, <2>1, <2>2 DEF ExitIn
    <2>5. m \in Seen /\ f.at < m /\ m <= until /\ MeetsLevel(m)
      BY <1>5, <1>6, <2>3
    <2>6. FirstMet(f, o)
      <3>1. m <= f.at + HoldFor
        BY <1>1, <1>10, <2>5
      <3>2. ASSUME NEW n \in Seen, f.at < n, n < m PROVE ~MeetsLevel(n)
        BY <1>1, <1>5, <1>6, <1>10, <2>3, <2>5, <3>2
      <3>3. QED
        BY <2>4, <2>5, <3>1, <3>2 DEF FirstMet
    <2>7. QED
      BY <1>1, <1>4, <2>4, <2>5, <2>6
  <1>8. CASE met = {}
    <2>1. PICK last : last = IF window = {} THEN f.at + HoldFor ELSE Max(window)
      OBVIOUS
    <2>2. PICK price : price = IF window = {} THEN f.price ELSE frame[Max(window)].close
      OBVIOUS
    <2>3. o = [reason |-> "time", at |-> last, price |-> price]
      <3>1. CheckExit(f, until) \in {{}, {[reason |-> "time", at |-> last, price |-> price]}}
        BY <1>5, <1>6, <1>8, <2>1, <2>2 DEF CheckExit
      <3>2. QED
        BY <1>3, <3>1
    <2>4. o.at = last /\ o.reason = "time"
      BY <2>3
    <2>5. CASE window = {}
      <3>1. last = f.at + HoldFor
        BY <2>1, <2>5
      <3>2. f.at > SignalAt \/ SignalAt - f.at <= StaleAfter
        BY DEF PaperInv, FillsFit
      <3>3. last > SignalAt /\ f.at < last
        BY <1>1, <3>1, <3>2
      <3>4. QED
        BY <1>1, <2>4, <3>1, <3>3
    <2>6. CASE window # {}
      <3>1. window \in SUBSET PaperMinutes
        BY <1>2, <1>5
      <3>2. last \in window
        BY <2>1, <2>6, <3>1, LastOfMinutes
      <3>3. last \in Seen /\ f.at < last /\ last <= until
        BY <1>5, <3>2
      <3>4. QED
        BY <1>1, <1>4, <2>4, <3>3
    <2>7. QED
      BY <2>5, <2>6
  <1>9. QED
    BY <1>7, <1>8

LEMMA PollKeeps ==
    ASSUME StaleAfter < HoldFor, PaperInv, PollTrade PROVE PaperInv'
  <1>1. /\ UNCHANGED <<source, wall, frame, fill, disorder, reloads>>
        /\ order = "held" /\ order' = "closed"
    BY DEF PollTrade
  <1>2. PICK f \in fill : outcome' = CheckExit(f, Until(f))
    BY DEF PollTrade
  <1>3. \A g \in fill : g = f
    BY DEF PaperInv
  <1>4. Seen' = Seen /\ FillsFit'
    BY <1>1 DEF PaperInv, FillsFit, Seen
  <1>5. ASSUME NEW o \in outcome'
        PROVE  /\ o.reason \in {"sl", "tp"} => FirstMet(f, o)'
               /\ o.at \in Nat /\ f.at < o.at /\ (o.at <= SignalAt => source' = "live")
    <2>1. o \in CheckExit(f, Until(f))
      BY <1>2, <1>5
    <2>2. o.reason \in {"sl", "tp"} => FirstMet(f, o)
      BY <2>1, ExitFound
    <2>3. FirstMet(f, o)' = FirstMet(f, o)
      BY <1>1, <1>4 DEF FirstMet, ExitIn, MeetsLevel
    <2>4. QED
      BY <1>1, <2>1, <2>2, <2>3, ExitFound
  <1>6. QED
    BY <1>1, <1>3, <1>4, <1>5 DEF PaperInv

LEMMA BridgeRestartKeeps ==
    ASSUME PaperInv, BridgeRestarts PROVE PaperInv'
  <1>1. /\ source = "live" /\ reloads' = reloads + 1 /\ frame' = [m \in {} |-> 0]
        /\ UNCHANGED <<source, wall, order, fill, outcome, disorder>>
    BY DEF BridgeRestarts
  <1>2. Seen' = {} /\ reloads' \in Nat /\ reloads' # 0
    BY <1>1 DEF PaperInv, Seen
  <1>3. FillsFit'
    BY <1>1, <1>2 DEF PaperInv, FillsFit
  <1>4. QED
    BY <1>1, <1>2, <1>3 DEF PaperInv

LEMMA ClockKeeps ==
    ASSUME PaperInv, MinuteEnds PROVE PaperInv'
  <1>1. /\ UNCHANGED <<source, frame, order, fill, outcome, disorder, reloads>>
        /\ wall < LastWall /\ wall' = wall + 1
    BY DEF MinuteEnds
  <1>2. wall' \in PaperMinutes
    BY <1>1, PaperAssumption DEF PaperInv, PaperMinutes
  <1>3. FillsFit' = FillsFit /\ \A f \in fill, o \in outcome : FirstMet(f, o)' = FirstMet(f, o)
    BY <1>1 DEF FillsFit, FirstMet, ExitIn, MeetsLevel, Seen
  <1>4. Seen' = Seen
    BY <1>1 DEF Seen
  <1>5. QED
    BY <1>1, <1>2, <1>3, <1>4 DEF PaperInv

LEMMA PaperStep ==
    ASSUME StaleAfter < HoldFor, PaperInv, [PaperNext]_paperVars PROVE PaperInv'
  <1>1. CASE UNCHANGED paperVars
    <2>1. FillsFit' = FillsFit /\ \A f \in fill, o \in outcome : FirstMet(f, o)' = FirstMet(f, o)
      BY <1>1 DEF paperVars, FillsFit, FirstMet, ExitIn, MeetsLevel, Seen
    <2>2. QED
      BY <1>1, <2>1 DEF paperVars, PaperInv, Seen
  <1>2. QED
    BY <1>1, ClockKeeps, FillKeeps, PollKeeps, BridgeRestartKeeps, BarKeeps DEF PaperNext

LEMMA PaperFair ==
    ASSUME PaperInv PROVE ExitIsFair
  <1>1. PollsMatchWalk
    <2> SUFFICES ASSUME ~disorder, reloads = 0, NEW f \in fill, NEW o \in outcome, o.reason \in {"sl", "tp"}
                 PROVE  WalkFinds(f) = {o}
      BY DEF PollsMatchWalk
    <2>1. FirstMet(f, o)
      BY DEF PaperInv
    <2>2. \A m \in Seen : m \in Nat
      BY DEF PaperInv, PaperMinutes
    <2> DEFINE First(m) == f.at < m /\ m <= f.at + HoldFor /\ MeetsLevel(m)
                           /\ \A n \in Seen : f.at < n /\ n < m => ~MeetsLevel(n)
    <2>3. o.at \in Seen /\ First(o.at) /\ o = ExitIn(o.at)
      BY <2>1 DEF FirstMet
    <2>4. ASSUME NEW m \in Seen, First(m) PROVE m = o.at
      BY <2>2, <2>3, <2>4
    <2>5. WalkFinds(f) = {ExitIn(m) : m \in {m \in Seen : First(m)}}
      BY DEF WalkFinds
    <2> HIDE DEF First
    <2>6. QED
      BY <2>3, <2>4, <2>5
  <1>2. PastNeedsStaleFill
    <2> SUFFICES ASSUME NEW f \in fill, NEW o \in outcome, o.at <= SignalAt
                 PROVE  f.at < o.at /\ f.at <= SignalAt /\ source = "live"
      BY DEF PastNeedsStaleFill
    <2>1. o.at \in Nat /\ f.at < o.at /\ source = "live" /\ f.at \in Nat /\ SignalAt \in Nat
      BY PaperAssumption DEF PaperInv, FillsFit, PaperMinutes
    <2>2. QED
      BY <2>1
  <1>3. QED
    BY <1>1, <1>2 DEF ExitIsFair

\* A paper trade ends as its bars call for: if bars come in order and none is lost, polling finds the
\* stop or the target that one walk over all bars finds; and only a live trade with an old fill is
\* closed by a bar from before its signal.  The horizon (an hour) is longer than a bar may be old
\* (ten minutes).
THEOREM ExitIsFairHolds == PaperSpec => []ExitIsFair
  <1>1. PaperInit => PaperInv
    BY PaperStarts
  <1>2. PaperInv /\ [PaperNext]_paperVars => PaperInv'
    BY PaperStep, StaleAssumption
  <1>3. PaperInv => ExitIsFair
    BY PaperFair
  <1>4. QED
    BY <1>1, <1>2, <1>3, PTL DEF PaperSpec

-------------------------------------------------------------------------------
(* What trades cost. *)

\* The sums a turnover is the last of.
SumsOfLegs(trades, day, section) ==
    {f \in [0 .. Len(trades) -> Nat] :
        f[0] = 0 /\ \A i \in 1 .. Len(trades) : f[i] = f[i - 1] + LegsOn(trades[i], day, section)}

\* The cases of a trade have these kinds of fields.
LEMMA FieldsOfTrade ==
    ASSUME NEW t \in TradeCases
    PROVE  /\ t.section \in Sections /\ t.side \in {"BUY", "SELL"} /\ t.notional \in Nat /\ t.notional > 0
           /\ t.entry \in Nat /\ t.exit \in Nat /\ t.entry <= LastDay /\ t.exit >= t.entry
           /\ NoExit \in Nat /\ t.entry # NoExit
           /\ t.reason \in {"tp", "sl", "time", "kill", "no_bars"}
  <1>1. LastDay \in Nat /\ Notionals \subseteq Nat \ {0} /\ ExitReasons \subseteq {"tp", "sl", "time", "kill"}
    BY CostsAssumption
  <1>2. /\ t.section \in Sections /\ t.side \in {"BUY", "SELL"} /\ t.notional \in Notionals
        /\ t.entry \in 0 .. LastDay /\ t.exit \in 0 .. NoExit /\ t.reason \in ExitReasons \cup {"no_bars"}
        /\ t.exit >= t.entry
    BY DEF TradeCases
  <1>3. NoExit = LastDay + 1
    BY DEF NoExit
  <1>8. t.notional \in Nat \ {0}
    BY <1>1, <1>2
  <1>4. t.notional \in Nat /\ t.notional > 0
    BY <1>8
  <1>7. t.reason \in {"tp", "sl", "time", "kill", "no_bars"}
    BY <1>1, <1>2
  <1>5. t.entry \in Nat /\ t.exit \in Nat /\ t.entry <= LastDay /\ NoExit \in Nat /\ t.entry # NoExit
    BY <1>1, <1>2, <1>3
  <1>6. QED
    BY <1>2, <1>4, <1>5, <1>7

LEMMA LegsAreNat ==
    ASSUME NEW t \in TradeCases, NEW day, NEW section PROVE LegsOn(t, day, section) \in Nat
  BY FieldsOfTrade DEF LegsOn

LEMMA TurnoverIs ==
    ASSUME NEW trades \in Seq(TradeCases), NEW day, NEW section
    PROVE  \E f \in SumsOfLegs(trades, day, section) : Turnover(trades, day, section) = f[Len(trades)]
  <1>1. PICK n \in Nat : n = Len(trades)
    OBVIOUS
  <1>2. \A i \in 1 .. n : trades[i] \in TradeCases
    BY <1>1
  <1> DEFINE legs == [i \in Nat |-> IF i \in 1 .. n THEN LegsOn(trades[i], day, section) ELSE 0]
             next == [p \in Nat \X Nat |-> p[2] + legs[p[1]]]
  <1>3. legs \in [Nat -> Nat] /\ \A i \in 1 .. n : legs[i] = LegsOn(trades[i], day, section)
    BY <1>2, LegsAreNat
  <1> HIDE DEF legs
  <1>17. next \in [Nat \X Nat -> Nat]
    <2>1. \A p \in Nat \X Nat : p[1] \in Nat /\ p[2] \in Nat
      OBVIOUS
    <2>2. \A p \in Nat \X Nat : p[2] + legs[p[1]] \in Nat
      <3> TAKE p \in Nat \X Nat
      <3>1. legs[p[1]] \in Nat /\ p[2] \in Nat
        BY <1>3, <2>1
      <3>2. QED
        BY <3>1
    <2>3. QED
      BY <2>2
  <1>4. \A i \in Nat, x \in Nat : next[<<i, x>>] = x + legs[i]
    OBVIOUS
  <1> HIDE DEF next
  <1>5. PICK g \in [0 .. n -> Nat] : g[0] = 0 /\ \A i \in 1 .. n : g[i] = next[<<i, g[i - 1]>>]
    <2>1. Runs(Nat, 0, next, n) # {}
      BY <1>17, StepByStep
    <2>2. QED
      BY <2>1 DEF Runs
  <1>6. ASSUME NEW i \in 1 .. n PROVE g[i] = g[i - 1] + LegsOn(trades[i], day, section)
    <2>1. i \in Nat /\ i - 1 \in 0 .. n
      OBVIOUS
    <2>2. g[i - 1] \in Nat
      BY <1>5, <2>1
    <2>3. g[i] = next[<<i, g[i - 1]>>]
      BY <1>5
    <2>4. next[<<i, g[i - 1]>>] = g[i - 1] + legs[i]
      BY <1>4, <2>1, <2>2
    <2>5. legs[i] = LegsOn(trades[i], day, section)
      BY <1>3
    <2>6. QED
      BY <2>3, <2>4, <2>5
  <1> DEFINE Sums(f) == f = [i \in 0 .. n |-> IF i = 0 THEN 0 ELSE f[i - 1] + LegsOn(trades[i], day, section)]
  <1>7. Sums(g)
    <2>1. \A i \in 0 .. n : i = 0 \/ i \in 1 .. n
      BY <1>1
    <2>2. \A i \in 0 .. n : g[i] = IF i = 0 THEN 0 ELSE g[i - 1] + LegsOn(trades[i], day, section)
      BY <1>5, <1>6, <2>1
    <2>3. QED
      BY <1>5, <2>2
  <1>8. PICK f : f = CHOOSE f0 : Sums(f0)
    OBVIOUS
  <1>9. Sums(f)
    BY <1>7, <1>8
  <1>10. Turnover(trades, day, section) = f[n]
    BY <1>1, <1>8 DEF Turnover
  <1>11. \A i \in 0 .. n : f[i] = IF i = 0 THEN 0 ELSE f[i - 1] + LegsOn(trades[i], day, section)
    BY <1>9
  <1>12. DOMAIN f = 0 .. n
    BY <1>9
  <1> HIDE DEF Sums
  <1>13. \A i \in Nat : i \in 0 .. n => f[i] = g[i]
    <2> DEFINE Good == {i \in Nat : i \in 0 .. n => f[i] = g[i]}
    <2>1. 0 \in Good
      BY <1>1, <1>5, <1>11
    <2>2. ASSUME NEW i \in Good PROVE i + 1 \in Good
      <3>1. SUFFICES ASSUME i + 1 \in 0 .. n PROVE f[i + 1] = g[i + 1]
        OBVIOUS
      <3>2. i \in 0 .. n /\ i + 1 # 0 /\ i + 1 \in 1 .. n /\ (i + 1) - 1 = i /\ i \in Nat
        BY <1>1, <3>1
      <3>3. f[i] = g[i]
        BY <2>2, <3>2
      <3>4. QED
        BY <1>6, <1>11, <3>1, <3>2, <3>3
    <2>3. Good \in SUBSET Nat
      OBVIOUS
    <2> HIDE DEF Good
    <2>4. \A i \in Nat : i \in Good
      BY <2>1, <2>2, <2>3, AllNumbers
    <2>5. QED
      BY <2>4 DEF Good
  <1>14. n \in 0 .. n
    BY <1>1
  <1>15. g \in SumsOfLegs(trades, day, section) /\ Turnover(trades, day, section) = g[Len(trades)]
    BY <1>1, <1>5, <1>6, <1>10, <1>13, <1>14 DEF SumsOfLegs
  <1>16. QED
    BY <1>15

\* The turnover of a prefix is a sum on the way to the turnover of all, and no greater.
LEMMA TurnoverGrows ==
    ASSUME NEW trades \in Seq(TradeCases), NEW k \in 0 .. Len(trades), NEW day, NEW section
    PROVE  /\ Turnover(trades, day, section) \in Nat /\ Turnover(SubSeq(trades, 1, k), day, section) \in Nat
           /\ Turnover(SubSeq(trades, 1, k), day, section) <= Turnover(trades, day, section)
  <1>1. PICK n \in Nat : n = Len(trades)
    OBVIOUS
  <1>2. PICK part : part = SubSeq(trades, 1, k)
    OBVIOUS
  <1>3. /\ k \in Nat /\ k <= n /\ part \in Seq(TradeCases) /\ Len(part) = k
        /\ \A i \in 1 .. k : part[i] = trades[i] /\ trades[i] \in TradeCases
    BY <1>1, <1>2
  <1>4. PICK f \in SumsOfLegs(trades, day, section) : Turnover(trades, day, section) = f[n]
    BY <1>1, TurnoverIs
  <1>5. PICK g \in SumsOfLegs(part, day, section) : Turnover(part, day, section) = g[k]
    BY <1>3, TurnoverIs
  <1>6. /\ f \in [0 .. n -> Nat] /\ f[0] = 0
        /\ \A i \in 1 .. n : f[i] = f[i - 1] + LegsOn(trades[i], day, section)
    BY <1>1, <1>4 DEF SumsOfLegs
  <1>7. /\ g \in [0 .. k -> Nat] /\ g[0] = 0
        /\ \A i \in 1 .. k : g[i] = g[i - 1] + LegsOn(trades[i], day, section)
    BY <1>3, <1>5 DEF SumsOfLegs
  <1>8. \A i \in 1 .. n : f[i - 1] <= f[i]
    <2> TAKE i \in 1 .. n
    <2>1. i - 1 \in 0 .. n /\ trades[i] \in TradeCases
      BY <1>1
    <2>2. LegsOn(trades[i], day, section) \in Nat
      BY <2>1, LegsAreNat
    <2>3. f[i - 1] \in Nat
      BY <1>6, <2>1
    <2>4. QED
      BY <1>6, <2>2, <2>3
  <1> DEFINE Good == {i \in Nat : (i <= k => f[i] = g[i]) /\ (k <= i /\ i <= n => f[k] <= f[i])}
  <1>9. 0 \in Good
    <2>1. 0 \in 0 .. n /\ 0 <= k /\ (k <= 0 => k = 0)
      BY <1>1, <1>3
    <2>2. f[0] <= f[0]
      BY <1>6
    <2>3. QED
      BY <1>6, <1>7, <2>1, <2>2
  <1>10. ASSUME NEW i \in Good PROVE i + 1 \in Good
    <2>1. i \in Nat /\ (i <= k => f[i] = g[i]) /\ (k <= i /\ i <= n => f[k] <= f[i])
      BY <1>10
    <2> HIDE DEF Good
    <2>2. ASSUME i + 1 <= k PROVE f[i + 1] = g[i + 1]
      <3>1. i + 1 \in 1 .. n /\ i + 1 \in 1 .. k /\ (i + 1) - 1 = i /\ i <= k
        BY <1>3, <2>1, <2>2
      <3>2. QED
        BY <1>6, <1>7, <2>1, <3>1
    <2>3. ASSUME k <= i + 1, i + 1 <= n PROVE f[k] <= f[i + 1]
      <3>1. i + 1 \in 1 .. n /\ (i + 1) - 1 = i /\ i + 1 \in 0 .. n /\ i \in 0 .. n /\ k \in 0 .. n
        BY <1>3, <2>1, <2>3
      <3>2. f[i] <= f[i + 1] /\ f[i] \in Nat /\ f[i + 1] \in Nat /\ f[k] \in Nat
        BY <1>6, <1>8, <3>1
      <3>3. CASE k = i + 1
        BY <3>2, <3>3
      <3>4. CASE k <= i
        BY <2>1, <3>1, <3>2, <3>4
      <3>5. QED
        BY <1>3, <2>1, <2>3, <3>3, <3>4
    <2>4. QED
      BY <2>1, <2>2, <2>3 DEF Good
  <1>11. Good \in SUBSET Nat
    OBVIOUS
  <1> HIDE DEF Good
  <1>12. \A i \in Nat : i \in Good
    BY <1>9, <1>10, <1>11, AllNumbers
  <1>13. f[k] = g[k] /\ f[k] <= f[n]
    BY <1>1, <1>3, <1>12 DEF Good
  <1>14. f[n] \in Nat /\ f[k] \in Nat
    BY <1>1, <1>3, <1>6
  <1>15. QED
    BY <1>2, <1>4, <1>5, <1>13, <1>14

-------------------------------------------------------------------------------
\* Rates: they fall with the turnover, and none is below the cheapest.
LEMMA RatesFall ==
    ASSUME NEW section \in Sections, NEW a \in Nat, NEW b \in Nat
    PROVE  /\ LegRate(section, a) \in Nat /\ CheapestRate(section) \in Nat
           /\ CheapestRate(section) <= LegRate(section, a)
           /\ a <= b => LegRate(section, b) <= LegRate(section, a)
  <1>1. CASE section = "stock"
    BY <1>1 DEF LegRate, CheapestRate
  <1>2. CASE section = "currency"
    BY <1>2 DEF LegRate, CheapestRate
  <1>3. CASE section = "metal"
    BY <1>3 DEF LegRate, CheapestRate
  <1>4. CASE section = "futures"
    BY <1>4 DEF LegRate, CheapestRate
  <1>5. QED
    BY <1>1, <1>2, <1>3, <1>4 DEF Sections

LEMMA TimesKeepsOrder ==
    ASSUME NEW a \in Nat, NEW b \in Nat, NEW c \in Nat
    PROVE  a * b \in Nat /\ (b <= c => a * b <= a * c) /\ (a > 0 /\ b < c => a * b < a * c)
  <1>1. a * b \in Nat /\ a * c \in Nat
    OBVIOUS
  <1>2. ASSUME b <= c PROVE a * b <= a * c
    <2>1. PICK d \in Nat : c = b + d
      BY <1>2
    <2>2. a * c = a * b + a * d /\ a * d \in Nat
      BY <2>1
    <2>3. QED
      BY <1>1, <2>2
  <1>3. ASSUME a > 0, b < c PROVE a * b < a * c
    <2>1. PICK d \in Nat : c = b + d /\ d > 0
      <3>1. c - b \in Nat /\ c = b + (c - b) /\ c - b > 0
        BY <1>3
      <3>2. QED
        BY <3>1
    <2>2. a * c = a * b + a * d /\ a * d \in Nat
      BY <2>1
    <2>3. a * d > 0
      BY <1>3, <2>1
    <2>4. QED
      BY <1>1, <2>2, <2>3
  <1>4. QED
    BY <1>1, <1>2, <1>3

LEMMA NotNegative ==
    ASSUME NEW x \in Int PROVE Max({0, x}) \in Nat /\ (x >= 0 => Max({0, x}) = x) /\ (x <= 0 => Max({0, x}) = 0)
  <1>1. CASE x >= 0
    BY <1>1 DEF Max
  <1>2. CASE x < 0
    BY <1>2 DEF Max
  <1>3. QED
    BY <1>1, <1>2

\* The parts of a cost that are reckoned alike.
LEMMA PartsOfCost ==
    ASSUME NEW t \in TradeCases
    PROVE  /\ Nights(t) \in Nat /\ (t.exit = t.entry => Nights(t) = 0)
           /\ Borrowed(t) \in Nat /\ (t.side = "SELL" => Borrowed(t) = t.notional)
           /\ Exchange(t) \in Int /\ Slippage(t) \in Int
  <1>1. /\ t.section \in Sections /\ t.notional \in Nat /\ t.entry \in Nat /\ t.exit \in Nat
        /\ t.entry # NoExit /\ t.reason \in {"tp", "sl", "time", "kill", "no_bars"} /\ Equity \in Nat
    BY FieldsOfTrade, CostsAssumption
  <1>2. Nights(t) \in Nat /\ (t.exit = t.entry => Nights(t) = 0)
    BY <1>1, NotNegative DEF Nights
  <1>3. Borrowed(t) \in Nat /\ (t.side = "SELL" => Borrowed(t) = t.notional)
    <2>1. Max({0, t.notional - Equity}) \in Nat
      BY <1>1, NotNegative
    <2>2. QED
      BY <1>1, <2>1 DEF Borrowed
  <1>4. ExchangeRate[t.section] \in Int /\ SlippageRate[t.section] \in Int
    BY <1>1 DEF ExchangeRate, SlippageRate
  <1>5. ExitMultiple[t.reason] \in Int
    BY <1>1 DEF ExitMultiple
  <1>6. Exchange(t) \in Int
    BY <1>1, <1>4 DEF Exchange
  <1>7. Slippage(t) \in Int
    <2>1. PICK rate \in Int, multiple \in Int : rate = SlippageRate[t.section] /\ multiple = ExitMultiple[t.reason]
      BY <1>4, <1>5
    <2>2. Slippage(t) = t.notional * rate * (1 + multiple)
      BY <2>1 DEF Slippage
    <2>3. t.notional * rate \in Int /\ 1 + multiple \in Int
      BY <1>1, <2>1
    <2>4. QED
      BY <2>2, <2>3
  <1>8. QED
    BY <1>2, <1>3, <1>6, <1>7

\* The nights: reckoned alike but for futures and great loans.
LEMMA NightsAlike ==
    ASSUME NEW t \in TradeCases
    PROVE  /\ FundingOfOne(t, Borrowed(t)) \in Nat /\ FundingOfAll(t) \in Nat
           /\ ~FuturesNight(t) => FundingOfOne(t, Borrowed(t)) <= FundingOfAll(t)
           /\ ~LoanAboveStep(t) => FundingOfAll(t) <= FundingOfOne(t, Borrowed(t))
  <1>1. PICK n \in Nat, b \in Nat, v \in Nat : n = Nights(t) /\ b = Borrowed(t) /\ v = t.notional
    BY FieldsOfTrade, PartsOfCost
  <1>2. t.side \in {"BUY", "SELL"} /\ (t.side = "SELL" => b = v) /\ LoanStep \in Nat
    BY <1>1, FieldsOfTrade, PartsOfCost, CostsAssumption
  <1>3. PICK rate \in Nat : rate = IF t.side = "SELL" THEN 401 ELSE 593
    OBVIOUS
  <1>4. PICK low \in Nat : low = IF t.side = "SELL" THEN 401 ELSE IF b <= LoanStep THEN 593 ELSE 579
    OBVIOUS
  <1>5. FundingOfOne(t, Borrowed(t)) = (b * low) * n
    <2>1. CASE t.side = "SELL"
      BY <1>1, <1>2, <1>4, <2>1 DEF FundingOfOne, ShortNight
    <2>2. CASE t.side # "SELL"
      BY <1>1, <1>2, <1>4, <2>2 DEF FundingOfOne, LongNight, LongNightAbove
    <2>3. QED
      BY <2>1, <2>2
  <1>6. FundingOfAll(t) = IF t.section = "futures" THEN 0 ELSE (b * rate) * n
    BY <1>1, <1>2, <1>3 DEF FundingOfAll, ShortNight, LongNight
  <1>7. low <= rate
    BY <1>3, <1>4
  <1>8. PICK x \in Nat, y \in Nat : x = b * low /\ y = b * rate /\ x <= y /\ (low = rate => x = y)
    BY <1>7, TimesKeepsOrder
  <1>9. PICK p \in Nat, q \in Nat : p = x * n /\ q = y * n /\ p <= q /\ (x = y => p = q) /\ (n = 0 => p = 0 /\ q = 0)
    <2>1. n * x \in Nat /\ n * y \in Nat /\ n * x <= n * y
      BY <1>8, TimesKeepsOrder
    <2>2. n * x = x * n /\ n * y = y * n
      OBVIOUS
    <2>3. n = 0 => n * x = 0 /\ n * y = 0
      OBVIOUS
    <2>4. QED
      BY <2>1, <2>2, <2>3
  <1>10. FundingOfOne(t, Borrowed(t)) = p /\ FundingOfAll(t) = IF t.section = "futures" THEN 0 ELSE q
    BY <1>5, <1>6, <1>8, <1>9
  <1>11. ASSUME ~FuturesNight(t) PROVE p <= IF t.section = "futures" THEN 0 ELSE q
    <2>1. t.section # "futures" \/ n = 0
      BY <1>1, <1>11 DEF FuturesNight
    <2>2. QED
      BY <1>9, <2>1
  <1>12. ASSUME ~LoanAboveStep(t) PROVE (IF t.section = "futures" THEN 0 ELSE q) <= p
    <2>1. t.side # "BUY" \/ b <= LoanStep \/ n = 0
      BY <1>1, <1>2, <1>12 DEF LoanAboveStep
    <2>2. low = rate \/ n = 0
      BY <1>2, <1>3, <1>4, <2>1
    <2>3. q <= p
      BY <1>8, <1>9, <2>2
    <2>4. QED
      BY <2>3
  <1>13. QED
    BY <1>10, <1>11, <1>12

\* The rate of a leg.
LEMMA RateIs ==
    ASSUME NEW trades \in Seq(TradeCases), NEW t \in TradeCases, NEW day \in {t.entry, t.exit}
    PROVE  /\ Turnover(trades, day, t.section) \in Nat /\ RateOfLeg(trades, t.section, day) \in Nat
           /\ day # NoExit => RateOfLeg(trades, t.section, day) = LegRate(t.section, Turnover(trades, day, t.section))
           /\ day = NoExit => RateOfLeg(trades, t.section, day) = CheapestRate(t.section)
  <1>1. t.section \in Sections
    BY FieldsOfTrade
  <1>2. 0 \in 0 .. Len(trades)
    OBVIOUS
  <1>3. Turnover(trades, day, t.section) \in Nat
    BY <1>2, TurnoverGrows
  <1>4. LegRate(t.section, Turnover(trades, day, t.section)) \in Nat /\ CheapestRate(t.section) \in Nat
    BY <1>1, <1>3, RatesFall
  <1>5. QED
    BY <1>3, <1>4 DEF RateOfLeg

\* Both costs of a trade, from its size, two rates, two fundings and the rest.
CostsFrom(trades, t, v, r1, r2, f1, f2, rest) ==
    /\ v = t.notional /\ v > 0
    /\ r1 = RateOfLeg(trades, t.section, t.entry) /\ r2 = RateOfLeg(trades, t.section, t.exit)
    /\ f1 = FundingOfOne(t, Borrowed(t)) /\ f2 = FundingOfAll(t) /\ rest = Exchange(t) + Slippage(t)
    /\ r1 = LegRate(t.section, Turnover(trades, t.entry, t.section))
    /\ CostOfAll(trades, t) = v * (r1 + r2) + rest + f2
    /\ \A turnover : LegRate(t.section, turnover) \in Nat =>
          CostOfOne(t, turnover, Borrowed(t)) = 2 * v * LegRate(t.section, turnover) + rest + f1

LEMMA CostsAre ==
    ASSUME NEW trades \in Seq(TradeCases), NEW t \in TradeCases
    PROVE  \E v, r1, r2, f1, f2 \in Nat, rest \in Int : CostsFrom(trades, t, v, r1, r2, f1, f2, rest)
  <1>1. PICK v \in Nat : v = t.notional /\ v > 0
    BY FieldsOfTrade
  <1>2. PICK r1 \in Nat, r2 \in Nat : /\ r1 = RateOfLeg(trades, t.section, t.entry)
                                      /\ r2 = RateOfLeg(trades, t.section, t.exit)
    BY RateIs
  <1>3. PICK f1 \in Nat, f2 \in Nat : f1 = FundingOfOne(t, Borrowed(t)) /\ f2 = FundingOfAll(t)
    BY NightsAlike
  <1>4. PICK e \in Int, s \in Int : e = Exchange(t) /\ s = Slippage(t)
    BY PartsOfCost
  <1>5. r1 = LegRate(t.section, Turnover(trades, t.entry, t.section))
    BY <1>2, RateIs, FieldsOfTrade
  <1>6. CostOfAll(trades, t) = v * (r1 + r2) + (e + s) + f2
    <2>1. PICK x \in Int : x = v * (r1 + r2)
      OBVIOUS
    <2>2. CostOfAll(trades, t) = x + e + s + f2
      BY <1>1, <1>2, <1>3, <1>4, <2>1 DEF CostOfAll, Brokerage
    <2>3. QED
      BY <2>1, <2>2
  <1>7. ASSUME NEW turnover, LegRate(t.section, turnover) \in Nat
        PROVE  CostOfOne(t, turnover, Borrowed(t)) = 2 * v * LegRate(t.section, turnover) + (e + s) + f1
    <2>1. PICK rate \in Nat : rate = LegRate(t.section, turnover)
      BY <1>7
    <2>2. PICK x \in Int : x = 2 * v * rate
      OBVIOUS
    <2>3. CostOfOne(t, turnover, Borrowed(t)) = x + e + s + f1
      BY <1>1, <1>3, <1>4, <2>1, <2>2 DEF CostOfOne
    <2>4. QED
      BY <2>1, <2>2, <2>3
  <1>8. e + s \in Int /\ e + s = Exchange(t) + Slippage(t)
    BY <1>4
  <1>9. PICK rest \in Int : rest = e + s
    BY <1>8
  <1>10. CostsFrom(trades, t, v, r1, r2, f1, f2, rest)
    BY <1>1, <1>2, <1>3, <1>5, <1>6, <1>7, <1>8, <1>9 DEF CostsFrom
  <1>11. QED
    BY <1>10

LEMMA TwoRates ==
    ASSUME NEW v \in Nat, v > 0, NEW r1 \in Nat, NEW r2 \in Nat
    PROVE  /\ v * (r1 + r2) \in Nat /\ 2 * v * r1 \in Nat
           /\ r1 = r2 => v * (r1 + r2) = 2 * v * r1
           /\ r1 < r2 => 2 * v * r1 < v * (r1 + r2)
           /\ r2 < r1 => v * (r1 + r2) < 2 * v * r1
  <1>1. PICK x \in Nat, y \in Nat : x = v * r1 /\ y = v * r2 /\ (r1 < r2 => x < y) /\ (r2 < r1 => y < x)
    BY TimesKeepsOrder
  <1>2. v * (r1 + r2) = x + y
    BY <1>1
  <1>3. 2 * v * r1 = 2 * x
    BY <1>1
  <1>4. r1 = r2 => x = y
    BY <1>1
  <1>5. QED
    BY <1>1, <1>2, <1>3, <1>4

TradesFit == selected \in Seq(TradeCases)

LEMMA OneAndAll ==
    ASSUME TradesFit PROVE ReckonedAlike
  <1> SUFFICES ASSUME NEW i \in DOMAIN selected, NEW t, NEW one, NEW all, NEW in, NEW out,
                      t = selected[i],
                      in = Turnover(selected, t.entry, t.section), out = Turnover(selected, t.exit, t.section),
                      one = CostOfOne(t, in, Borrowed(t)), all = CostOfAll(selected, t)
               PROVE  /\ SameTier(t) /\ ~FuturesNight(t) /\ ~LoanAboveStep(t) => one = all
                      /\ all > one => LoanAboveStep(t) \/ (t.exit # NoExit /\ out < in)
                      /\ all < one => FuturesNight(t) \/ t.exit = NoExit \/ out > in
    BY DEF ReckonedAlike
  <1>1. t \in TradeCases /\ selected \in Seq(TradeCases)
    BY DEF TradesFit
  <1>12. PICK v \in Nat, r1 \in Nat, r2 \in Nat, f1 \in Nat, f2 \in Nat, rest \in Int :
            CostsFrom(selected, t, v, r1, r2, f1, f2, rest)
    BY <1>1, CostsAre
  <1>2. /\ v = t.notional /\ v > 0
        /\ r1 = RateOfLeg(selected, t.section, t.entry) /\ r2 = RateOfLeg(selected, t.section, t.exit)
        /\ f1 = FundingOfOne(t, Borrowed(t)) /\ f2 = FundingOfAll(t)
        /\ r1 = LegRate(t.section, in)
        /\ all = v * (r1 + r2) + rest + f2
    BY <1>12 DEF CostsFrom
  <1>3. one = 2 * v * r1 + rest + f1
    BY <1>2, <1>12 DEF CostsFrom
  <1>4. (~FuturesNight(t) => f1 <= f2) /\ (~LoanAboveStep(t) => f2 <= f1)
    BY <1>1, <1>2, NightsAlike
  <1>5. /\ in \in Nat /\ out \in Nat
        /\ t.exit # NoExit => r2 = LegRate(t.section, out)
        /\ t.exit = NoExit => r2 <= r1
    <2>1. t.section \in Sections /\ t.entry # NoExit
      BY <1>1, FieldsOfTrade
    <2>2. in \in Nat /\ out \in Nat
      BY <1>1, RateIs
    <2>3. t.exit # NoExit => r2 = LegRate(t.section, out)
      BY <1>1, <1>2, RateIs
    <2>4. t.exit = NoExit => r2 = CheapestRate(t.section)
      BY <1>1, <1>2, RateIs
    <2>5. CheapestRate(t.section) <= r1
      BY <1>2, <2>1, <2>2, RatesFall
    <2>6. QED
      BY <2>2, <2>3, <2>4, <2>5
  <1>6. PICK p \in Nat, q \in Nat : /\ p = 2 * v * r1 /\ q = v * (r1 + r2)
                                    /\ (r1 = r2 => q = p) /\ (r1 < r2 => p < q) /\ (r2 < r1 => q < p)
    BY <1>2, TwoRates
  <1>7. one = p + rest + f1 /\ all = q + rest + f2
    BY <1>2, <1>3, <1>6
  <1>8. ASSUME SameTier(t), ~FuturesNight(t), ~LoanAboveStep(t) PROVE one = all
    <2>1. r1 = r2
      BY <1>2, <1>8 DEF SameTier
    <2>2. f1 \in Nat /\ f2 \in Nat /\ f1 <= f2 /\ f2 <= f1
      BY <1>4, <1>8, <1>12
    <2>3. f1 = f2
      BY <2>2
    <2>4. p = q
      BY <1>6, <2>1
    <2>5. QED
      BY <1>7, <2>3, <2>4
  <1>9. ASSUME all > one, ~LoanAboveStep(t) PROVE t.exit # NoExit /\ out < in
    <2>1. r1 < r2
      BY <1>4, <1>6, <1>7, <1>9
    <2>2. t.exit # NoExit /\ LegRate(t.section, in) < LegRate(t.section, out)
      BY <1>2, <1>5, <2>1
    <2>3. ~(in <= out)
      <3>1. t.section \in Sections
        BY <1>1, FieldsOfTrade
      <3>2. in <= out => r2 <= r1
        BY <1>2, <1>5, <2>2, <3>1, RatesFall
      <3>3. QED
        BY <2>1, <3>2
    <2>4. QED
      BY <1>5, <2>2, <2>3
  <1>10. ASSUME all < one, ~FuturesNight(t), t.exit # NoExit PROVE out > in
    <2>1. r2 < r1
      BY <1>4, <1>6, <1>7, <1>10
    <2>2. ~(out <= in)
      <3>1. t.section \in Sections
        BY <1>1, FieldsOfTrade
      <3>2. out <= in => r1 <= r2
        BY <1>2, <1>5, <1>10, <3>1, RatesFall
      <3>3. QED
        BY <2>1, <3>2
    <2>3. QED
      BY <1>5, <2>2
  <1>11. QED
    BY <1>8, <1>9, <1>10

LEMMA OneAlone ==
    ASSUME TradesFit PROVE AloneOnItsDay
  <1> SUFFICES ASSUME NEW i \in DOMAIN selected, NEW t, t = selected[i], t.exit = t.entry
               PROVE  CostOfOne(t, 2 * t.notional, Borrowed(t)) = CostOfAll(<<t>>, t)
    BY DEF AloneOnItsDay
  <1>1. t \in TradeCases /\ <<t>> \in Seq(TradeCases) /\ Len(<<t>>) = 1 /\ <<t>>[1] = t
    BY DEF TradesFit
  <1>9. PICK v \in Nat, r1 \in Nat, r2 \in Nat, f1 \in Nat, f2 \in Nat, rest \in Int :
            CostsFrom(<<t>>, t, v, r1, r2, f1, f2, rest)
    BY <1>1, CostsAre
  <1>2. /\ v = t.notional /\ v > 0
        /\ r1 = RateOfLeg(<<t>>, t.section, t.entry) /\ r2 = RateOfLeg(<<t>>, t.section, t.exit)
        /\ f1 = FundingOfOne(t, Borrowed(t)) /\ f2 = FundingOfAll(t)
        /\ r1 = LegRate(t.section, Turnover(<<t>>, t.entry, t.section))
        /\ CostOfAll(<<t>>, t) = v * (r1 + r2) + rest + f2
    BY <1>9 DEF CostsFrom
  <1>3. Turnover(<<t>>, t.entry, t.section) = 2 * v
    <2>7. PICK alone \in Seq(TradeCases) : alone = <<t>>
      BY <1>1
    <2>8. PICK f \in SumsOfLegs(alone, t.entry, t.section) : Turnover(alone, t.entry, t.section) = f[Len(alone)]
      BY TurnoverIs
    <2>1. f \in SumsOfLegs(<<t>>, t.entry, t.section) /\ Turnover(<<t>>, t.entry, t.section) = f[Len(<<t>>)]
      BY <2>7, <2>8
    <2>2. f[0] = 0 /\ f[1] = f[1 - 1] + LegsOn(<<t>>[1], t.entry, t.section)
      BY <1>1, <2>1 DEF SumsOfLegs
    <2>3. LegsOn(t, t.entry, t.section) = v + v
      BY <1>2 DEF LegsOn
    <2>4. 1 - 1 = 0
      OBVIOUS
    <2>5. f[1] = 0 + (v + v)
      BY <1>1, <2>2, <2>3, <2>4
    <2>6. QED
      BY <1>1, <2>1, <2>5
  <1>4. r1 = r2 /\ r1 = LegRate(t.section, 2 * v)
    BY <1>2, <1>3
  <1>5. CostOfOne(t, 2 * t.notional, Borrowed(t)) = 2 * v * r1 + rest + f1
    BY <1>2, <1>4, <1>9 DEF CostsFrom
  <1>6. f1 = f2
    <2>1. Nights(t) = 0
      BY <1>1, PartsOfCost
    <2>2. ~FuturesNight(t) /\ ~LoanAboveStep(t)
      BY <2>1 DEF FuturesNight, LoanAboveStep
    <2>3. f1 \in Nat /\ f2 \in Nat /\ f1 <= f2 /\ f2 <= f1
      BY <1>1, <1>2, <1>9, <2>2, NightsAlike
    <2>4. QED
      BY <2>3
  <1>7. 2 * v * r1 = v * (r1 + r2)
    BY <1>2, <1>4, TwoRates
  <1>8. QED
    BY <1>2, <1>5, <1>6, <1>7

LEMMA MoreTrades ==
    ASSUME TradesFit PROVE MoreIsNotDearer
  <1> SUFFICES ASSUME NEW k \in 0 .. Len(selected), NEW i \in 1 .. k, NEW t, NEW few,
                      t = selected[i], few = SubSeq(selected, 1, k)
               PROVE  CostOfAll(selected, t) <= CostOfAll(few, t)
    BY DEF MoreIsNotDearer
  <1>1. selected \in Seq(TradeCases) /\ i \in 1 .. Len(selected)
    BY DEF TradesFit
  <1>2. few \in Seq(TradeCases) /\ t \in TradeCases
    BY <1>1
  <1>3. \A day \in {t.entry, t.exit} :
            RateOfLeg(selected, t.section, day) <= RateOfLeg(few, t.section, day)
    <2> TAKE day \in {t.entry, t.exit}
    <2>1. /\ Turnover(few, day, t.section) <= Turnover(selected, day, t.section)
          /\ Turnover(few, day, t.section) \in Nat /\ Turnover(selected, day, t.section) \in Nat
      BY <1>1, TurnoverGrows
    <2>5. PICK section \in Sections : section = t.section
      BY <1>2, FieldsOfTrade
    <2>2. CASE day = NoExit
      <3>1. RateOfLeg(selected, section, day) = CheapestRate(section) /\ RateOfLeg(few, section, day) = CheapestRate(section)
        BY <2>2 DEF RateOfLeg
      <3>2. CheapestRate(section) \in Nat
        BY RatesFall
      <3>3. QED
        BY <2>5, <3>1, <3>2
    <2>3. CASE day # NoExit
      <3>1. PICK a \in Nat, b \in Nat : a = Turnover(few, day, section) /\ b = Turnover(selected, day, section) /\ a <= b
        BY <2>1, <2>5
      <3>2. RateOfLeg(selected, section, day) = LegRate(section, b) /\ RateOfLeg(few, section, day) = LegRate(section, a)
        BY <2>3, <3>1 DEF RateOfLeg
      <3>3. LegRate(section, b) <= LegRate(section, a)
        BY <3>1, RatesFall
      <3>4. QED
        BY <2>5, <3>2, <3>3
    <2>4. QED
      BY <2>2, <2>3
  <1>9. PICK v \in Nat, r1 \in Nat, r2 \in Nat, f1 \in Nat, f2 \in Nat, rest \in Int :
            CostsFrom(selected, t, v, r1, r2, f1, f2, rest)
    BY <1>1, <1>2, CostsAre
  <1>10. PICK w \in Nat, r3 \in Nat, r4 \in Nat, f3 \in Nat, f4 \in Nat, rest2 \in Int :
            CostsFrom(few, t, w, r3, r4, f3, f4, rest2)
    BY <1>2, CostsAre
  <1>4. /\ r1 = RateOfLeg(selected, t.section, t.entry) /\ r2 = RateOfLeg(selected, t.section, t.exit)
        /\ CostOfAll(selected, t) = v * (r1 + r2) + rest + f2
    BY <1>9 DEF CostsFrom
  <1>5. /\ r3 = RateOfLeg(few, t.section, t.entry) /\ r4 = RateOfLeg(few, t.section, t.exit)
        /\ CostOfAll(few, t) = v * (r3 + r4) + rest + f2
    BY <1>9, <1>10 DEF CostsFrom
  <1>11. r1 <= r3 /\ r2 <= r4
    BY <1>3, <1>4, <1>5
  <1>6. r1 + r2 \in Nat /\ r3 + r4 \in Nat /\ r1 + r2 <= r3 + r4
    BY <1>11
  <1>7. PICK x \in Nat, y \in Nat : x = v * (r1 + r2) /\ y = v * (r3 + r4) /\ x <= y
    BY <1>6, TimesKeepsOrder
  <1>8. CostOfAll(selected, t) = x + rest + f2
    BY <1>4, <1>7
  <1>12. CostOfAll(few, t) = y + rest + f2
    BY <1>5, <1>7
  <1>13. x + rest + f2 <= y + rest + f2
    <2>1. x \in Nat /\ y \in Nat /\ x <= y /\ rest \in Int /\ f2 \in Nat
      BY <1>7, <1>9
    <2>2. QED
      BY <2>1
  <1>14. QED
    BY <1>8, <1>12, <1>13

\* Whatever the trades, one and all are reckoned alike, but for what is meant to differ.
THEOREM CostsAgreeHolds == CostsSpec => []CostsAgree
  <1>1. CostsInit => TradesFit
    BY DEF CostsInit, TradesFit
  <1>2. TradesFit /\ [CostsNext]_costsVars => TradesFit'
    BY DEF TradesFit, CostsNext, SelectTrade, costsVars
  <1>3. TradesFit => CostsAgree
    BY OneAndAll, OneAlone, MoreTrades DEF CostsAgree
  <1>4. QED
    BY <1>1, <1>2, <1>3, PTL DEF CostsSpec

-------------------------------------------------------------------------------
(* How a trade ends. *)

ExitBarType == [high: Int, low: Int, close: Int]
WalkRecords == [sl: Int, armed: BOOLEAN, half: SUBSET Int, reason: Reasons \cup Strategies, price: Int, at: Int]

LEMMA SameWalk ==
    ASSUME NEW x \in WalkRecords, NEW y \in WalkRecords, x.sl = y.sl, x.armed = y.armed, x.half = y.half,
           x.reason = y.reason, x.price = y.price, x.at = y.at
    PROVE  x = y
  BY DEF WalkRecords

WithResult(x, reason, price, at) == [x EXCEPT !.reason = reason, !.price = price, !.at = at]
WithStop(x, sl) == [x EXCEPT !.armed = TRUE, !.sl = sl]

LEMMA ResultSet ==
    ASSUME NEW x \in WalkRecords, NEW reason \in Reasons \cup Strategies, NEW price \in Int, NEW at \in Int,
           NEW y, y = WithResult(x, reason, price, at)
    PROVE  /\ y \in WalkRecords /\ y.sl = x.sl /\ y.armed = x.armed /\ y.half = x.half
           /\ y.reason = reason /\ y.price = price /\ y.at = at
  <1>1. y.sl = x.sl /\ y.armed = x.armed /\ y.half = x.half
    BY DEF WalkRecords, WithResult
  <1>2. y.reason = reason /\ y.price = price /\ y.at = at
    BY DEF WalkRecords, WithResult
  <1>3. y \in WalkRecords
    BY DEF WalkRecords, WithResult
  <1>4. QED
    BY <1>1, <1>2, <1>3

StopMoved(x, y, sl) ==
    /\ y \in WalkRecords /\ y.sl = sl /\ y.armed = TRUE /\ y.half = x.half
    /\ y.reason = x.reason /\ y.price = x.price /\ y.at = x.at

LEMMA StopSet ==
    ASSUME NEW x \in WalkRecords, NEW sl \in Int, NEW y, y = WithStop(x, sl)
    PROVE  StopMoved(x, y, sl)
  <1>1. y.reason = x.reason /\ y.price = x.price /\ y.at = x.at /\ y.half = x.half
    BY DEF WalkRecords, WithStop
  <1>2. y.sl = sl /\ y.armed = TRUE
    BY DEF WalkRecords, WithStop
  <1>3. y \in WalkRecords
    BY DEF WalkRecords, WithStop
  <1>4. QED
    BY <1>1, <1>2, <1>3 DEF StopMoved

LEMMA LevelsAre ==
    /\ StopLoss(1) = -Stop /\ StopLoss(-1) = Stop /\ TakeProfit(1) = Target /\ TakeProfit(-1) = -Target
    /\ OneR(1) = Stop /\ OneR(-1) = -Stop
    /\ Stop \in Nat /\ Stop > 0 /\ Target \in Nat /\ Target > 0 /\ Step \in Nat /\ Step > 0
    /\ Horizon \in Nat /\ PartialMinute \in Nat /\ LastMinute \in Nat /\ Entry = 0
  <1>1. Stop \in Nat \ {0} /\ Target \in Nat \ {0} /\ Step \in Nat \ {0}
    BY ExitsAssumption
  <1>2. Horizon \in Nat /\ PartialMinute \in Nat /\ LastMinute \in Nat
    BY ExitsAssumption
  <1>3. QED
    BY <1>1, <1>2 DEF StopLoss, TakeProfit, OneR, Entry

\* What a bar does to a walk that is closed, that it hits, and that it does not.
WalkStopped(side, strategy, x, y, hit) ==
    /\ y.reason = (IF hit = "sl" /\ x.armed THEN strategy ELSE hit)
    /\ y.price = (IF hit = "sl" THEN x.sl ELSE TakeProfit(side)) /\ y.at = minute
    /\ y.sl = x.sl /\ y.armed = x.armed /\ y.half = x.half

LEMMA WalkClosed ==
    ASSUME NEW side, NEW strategy, NEW x, NEW bar, x.reason # "open"
    PROVE  Walk(side, strategy, x, bar) = x
  BY DEF Walk

LEMMA WalkHit ==
    ASSUME NEW side \in Sides, NEW strategy \in Strategies, NEW x \in WalkRecords, NEW bar \in ExitBarType,
           x.reason = "open", NEW hit, hit = Hit(side, bar, TakeProfit(side), x.sl), hit # "none", minute \in Nat
    PROVE  /\ WalkStopped(side, strategy, x, Walk(side, strategy, x, bar), hit)
           /\ Walk(side, strategy, x, bar) \in WalkRecords
  <1>1. hit \in {"sl", "tp"}
    BY DEF Hit
  <1>2. PICK reason : reason = IF hit = "sl" /\ x.armed THEN strategy ELSE hit
    OBVIOUS
  <1>3. PICK price : price = IF hit = "sl" THEN x.sl ELSE TakeProfit(side)
    OBVIOUS
  <1>4. reason \in Reasons \cup Strategies /\ price \in Int
    BY <1>1, <1>2, <1>3, LevelsAre DEF WalkRecords, Reasons, Sides
  <1>5. Walk(side, strategy, x, bar) = WithResult(x, reason, price, minute)
    BY <1>2, <1>3 DEF Walk, WithResult
  <1>6. QED
    BY <1>2, <1>3, <1>4, <1>5, ResultSet DEF WalkStopped

\* A bar that meets no level leaves the walk open and what it is worth.
WalkStays(x, y) == y.reason = x.reason /\ y.price = x.price /\ y.at = x.at

LEMMA WalkBaseline ==
    ASSUME NEW side, NEW x, NEW bar, x.reason = "open", Hit(side, bar, TakeProfit(side), x.sl) = "none"
    PROVE  Walk(side, "baseline", x, bar) = x
  BY DEF Walk

BreakevenStep(side, x, y, bar) ==
    /\ y \in WalkRecords /\ WalkStays(x, y) /\ y.half = x.half
    /\ ~x.armed /\ Touched1R(side, bar) => y.armed = TRUE /\ y.sl = 0
    /\ ~(~x.armed /\ Touched1R(side, bar)) => y.armed = x.armed /\ y.sl = x.sl

LEMMA WalkBreakeven ==
    ASSUME NEW side \in Sides, NEW x \in WalkRecords, NEW bar \in ExitBarType, x.reason = "open",
           Hit(side, bar, TakeProfit(side), x.sl) = "none", NEW y, y = Walk(side, "breakeven", x, bar)
    PROVE  BreakevenStep(side, x, y, bar)
  <1>1. y = Breakeven(side, x, bar)
    BY DEF Walk
  <1>2. CASE ~x.armed /\ Touched1R(side, bar)
    <2>1. y = WithStop(x, 0)
      BY <1>1, <1>2 DEF Breakeven, Entry, WithStop
    <2>2. /\ y \in WalkRecords /\ y.sl = 0 /\ y.armed = TRUE /\ y.half = x.half
          /\ y.reason = x.reason /\ y.price = x.price /\ y.at = x.at
      <3>1. StopMoved(x, y, 0)
        BY <2>1, StopSet
      <3>2. QED
        BY <3>1 DEF StopMoved
    <2>3. QED
      BY <1>2, <2>2 DEF WalkStays, BreakevenStep
  <1>3. CASE ~(~x.armed /\ Touched1R(side, bar))
    <2>1. y = x
      BY <1>1, <1>3 DEF Breakeven
    <2>2. QED
      BY <1>3, <2>1 DEF WalkStays, BreakevenStep
  <1>4. QED
    BY <1>2, <1>3 DEF BreakevenStep

\* The stop that the trailing strategy moves to.
TrailedTo(side, x, bar) ==
    LET pulled == IF side = 1 THEN bar.close - Step ELSE bar.close + Step
        first  == IF side = 1 THEN Higher(pulled, Entry) ELSE Lower(pulled, Entry)
        new    == IF x.armed THEN pulled ELSE first
    IN IF side = 1 THEN Higher(x.sl, new) ELSE Lower(x.sl, new)

TrailingStep(side, x, y, bar) ==
    /\ y \in WalkRecords /\ WalkStays(x, y) /\ y.half = x.half
    /\ x.armed \/ Touched1R(side, bar) => y.armed = TRUE /\ y.sl = TrailedTo(side, x, bar)
    /\ ~(x.armed \/ Touched1R(side, bar)) => y.armed = x.armed /\ y.sl = x.sl

LEMMA WalkTrailing ==
    ASSUME NEW side \in Sides, NEW x \in WalkRecords, NEW bar \in ExitBarType, x.reason = "open",
           Hit(side, bar, TakeProfit(side), x.sl) = "none", NEW y, y = Walk(side, "trailing", x, bar)
    PROVE  TrailingStep(side, x, y, bar)
  <1>1. y = Trailing(side, x, bar)
    BY DEF Walk
  <1>2. CASE x.armed \/ Touched1R(side, bar)
    <2>1. y = WithStop(x, TrailedTo(side, x, bar))
      BY <1>1, <1>2 DEF Trailing, TrailedTo, WithStop
    <2>2. TrailedTo(side, x, bar) \in Int
      BY LevelsAre DEF TrailedTo, Higher, Lower, WalkRecords, ExitBarType
    <2>3. PICK to \in Int : to = TrailedTo(side, x, bar)
      BY <2>2
    <2>4. /\ y \in WalkRecords /\ y.sl = to /\ y.armed = TRUE /\ y.half = x.half
          /\ y.reason = x.reason /\ y.price = x.price /\ y.at = x.at
      <3>1. StopMoved(x, y, to)
        BY <2>1, <2>3, StopSet
      <3>2. QED
        BY <3>1 DEF StopMoved
    <2>5. QED
      BY <1>2, <2>3, <2>4 DEF WalkStays, TrailingStep
  <1>3. CASE ~(x.armed \/ Touched1R(side, bar))
    <2>1. y = x
      BY <1>1, <1>3 DEF Trailing
    <2>2. QED
      BY <1>3, <2>1 DEF WalkStays, TrailingStep
  <1>4. QED
    BY <1>2, <1>3 DEF TrailingStep

\* The price at which half is closed by a bar, if it is.
HalfBy(side, strategy, x, bar) ==
    IF strategy = "levels"
    THEN IF x.half = {} /\ Touched1R(side, bar) THEN {OneR(side)} ELSE x.half
    ELSE IF x.half = {} /\ minute >= PartialMinute THEN {bar.close} ELSE x.half

PartialStep(side, strategy, x, y, bar) ==
    /\ y \in WalkRecords /\ WalkStays(x, y) /\ y.armed = x.armed /\ y.sl = x.sl
    /\ y.half = HalfBy(side, strategy, x, bar)

LEMMA WalkPartial ==
    ASSUME NEW side \in Sides, NEW strategy \in {"levels", "timed"}, NEW x \in WalkRecords, NEW bar \in ExitBarType,
           x.reason = "open", Hit(side, bar, TakeProfit(side), x.sl) = "none", NEW y, y = Walk(side, strategy, x, bar)
    PROVE  PartialStep(side, strategy, x, y, bar)
  <1>1. y = IF strategy = "levels" THEN Levels(side, x, bar) ELSE Timed(x, bar)
    BY DEF Walk
  <1>2. PICK half : half = HalfBy(side, strategy, x, bar)
    OBVIOUS
  <1>3. half \in SUBSET Int
    <2>1. {OneR(side)} \in SUBSET Int /\ {bar.close} \in SUBSET Int /\ x.half \in SUBSET Int
      BY LevelsAre DEF Sides, ExitBarType, WalkRecords
    <2>2. QED
      BY <1>2, <2>1 DEF HalfBy
  <1>4. y = [x EXCEPT !.half = half]
    <2>1. [x EXCEPT !.half = x.half] = x
      BY DEF WalkRecords
    <2>2. QED
      BY <1>1, <1>2, <2>1 DEF HalfBy, Levels, Timed
  <1>5. QED
    BY <1>2, <1>3, <1>4 DEF WalkRecords, WalkStays, PartialStep

LEMMA WalkOpen ==
    ASSUME NEW side \in Sides, NEW strategy \in Strategies, NEW x \in WalkRecords, NEW bar \in ExitBarType,
           x.reason = "open", Hit(side, bar, TakeProfit(side), x.sl) = "none",
           NEW y, y = Walk(side, strategy, x, bar)
    PROVE  WalkStays(x, y) /\ y.reason = "open" /\ y.price = x.price /\ y.at = x.at
  <1>1. CASE strategy = "baseline"
    BY <1>1, WalkBaseline DEF WalkStays
  <1>2. CASE strategy = "breakeven"
    <2>1. BreakevenStep(side, x, y, bar)
      BY <1>2, WalkBreakeven
    <2>2. QED
      BY <2>1 DEF BreakevenStep, WalkStays
  <1>3. CASE strategy = "trailing"
    <2>1. TrailingStep(side, x, y, bar)
      BY <1>3, WalkTrailing
    <2>2. QED
      BY <2>1 DEF TrailingStep, WalkStays
  <1>4. CASE strategy \in {"levels", "timed"}
    <2>1. PartialStep(side, strategy, x, y, bar)
      BY <1>4, WalkPartial
    <2>2. QED
      BY <2>1 DEF PartialStep, WalkStays
  <1>5. QED
    BY <1>1, <1>2, <1>3, <1>4 DEF Strategies

LEMMA WalkTyped ==
    ASSUME NEW side \in Sides, NEW strategy \in Strategies, NEW x \in WalkRecords, NEW bar \in ExitBarType,
           minute \in Nat
    PROVE  Walk(side, strategy, x, bar) \in WalkRecords
  <1>1. PICK y : y = Walk(side, strategy, x, bar)
    OBVIOUS
  <1>2. PICK hit : hit = Hit(side, bar, TakeProfit(side), x.sl)
    OBVIOUS
  <1>3. CASE x.reason # "open"
    BY <1>3, WalkClosed
  <1>4. CASE x.reason = "open" /\ hit # "none"
    BY <1>2, <1>4, WalkHit
  <1>5. CASE x.reason = "open" /\ hit = "none" /\ strategy = "baseline"
    BY <1>2, <1>5, WalkBaseline
  <1>6. CASE x.reason = "open" /\ hit = "none" /\ strategy = "breakeven"
    <2>1. BreakevenStep(side, x, y, bar)
      BY <1>1, <1>2, <1>6, WalkBreakeven
    <2>2. QED
      BY <1>1, <2>1 DEF BreakevenStep
  <1>7. CASE x.reason = "open" /\ hit = "none" /\ strategy = "trailing"
    <2>1. TrailingStep(side, x, y, bar)
      BY <1>1, <1>2, <1>7, WalkTrailing
    <2>2. QED
      BY <1>1, <2>1 DEF TrailingStep
  <1>8. CASE x.reason = "open" /\ hit = "none" /\ strategy \in {"levels", "timed"}
    <2>1. PartialStep(side, strategy, x, y, bar)
      BY <1>1, <1>2, <1>8, WalkPartial
    <2>2. QED
      BY <1>1, <2>1 DEF PartialStep
  <1>9. QED
    BY <1>3, <1>4, <1>5, <1>6, <1>7, <1>8 DEF Strategies

\* The end of the bars.
TimedOut(side, x, y, last) ==
    /\ x.reason # "open" => y = x
    /\ x.reason = "open" /\ last = {} => y.reason = "no_bars" /\ y.price = 0 /\ y.at = 0
    /\ \A b \in last : (\A c \in last : c = b) /\ x.reason = "open" =>
          y.reason = "time" /\ y.at = b.m /\ y.price = (IF side = 1 THEN b.close ELSE -b.close)
    /\ y \in WalkRecords /\ y.sl = x.sl /\ y.armed = x.armed /\ y.half = x.half
    /\ y.reason # "open"

LEMMA TimeoutIs ==
    ASSUME NEW side \in Sides, NEW x \in WalkRecords, NEW last \in SUBSET [close: Int, m: Nat],
           NEW y, y = Timeout(side, x, last)
    PROVE  TimedOut(side, x, y, last)
  <1>1. CASE x.reason # "open"
    <2>1. y = x
      BY <1>1 DEF Timeout
    <2>2. QED
      BY <1>1, <2>1 DEF TimedOut
  <1>2. CASE x.reason = "open" /\ last = {}
    <2>1. y = WithResult(x, "no_bars", 0, 0)
      BY <1>2 DEF Timeout, Entry, WithResult
    <2>2. "no_bars" \in Reasons \cup Strategies
      BY DEF Reasons
    <2>3. QED
      BY <1>2, <2>1, <2>2, ResultSet DEF TimedOut
  <1>3. CASE x.reason = "open" /\ last # {}
    <2>1. PICK b : b = CHOOSE b0 \in last : TRUE
      OBVIOUS
    <2>2. b \in last /\ b.m \in Nat /\ b.close \in Int
      BY <1>3, <2>1
    <2>3. PICK price \in Int : price = IF side = 1 THEN b.close ELSE -b.close
      BY <2>2
    <2>7. y = [x EXCEPT !.reason = "time", !.at = b.m, !.price = price]
      BY <1>3, <2>1, <2>3 DEF Timeout
    <2>4. y = WithResult(x, "time", price, b.m) /\ "time" \in Reasons \cup Strategies
      BY <2>7 DEF WalkRecords, Reasons, WithResult
    <2>5. /\ y \in WalkRecords /\ y.sl = x.sl /\ y.armed = x.armed /\ y.half = x.half
          /\ y.reason = "time" /\ y.at = b.m /\ y.price = price
      BY <2>2, <2>4, ResultSet
    <2>6. QED
      BY <1>3, <2>2, <2>3, <2>5 DEF TimedOut
  <1>4. QED
    BY <1>1, <1>2, <1>3 DEF TimedOut

-------------------------------------------------------------------------------
\* One walk and another: mirrored, in part, protected.
MirrorOf(x, y) ==
    /\ x.reason = y.reason /\ x.at = y.at /\ x.price = -y.price
    /\ x.half = {-p : p \in y.half} /\ x.sl = -y.sl /\ x.armed = y.armed

PlainWalk(side, b) == b.armed = FALSE /\ b.sl = StopLoss(side) /\ b.half = {}

PartOf(x, b) ==
    /\ x.reason = b.reason /\ x.at = b.at /\ x.price = b.price /\ x.sl = b.sl /\ x.armed = b.armed
    /\ \A p, q \in x.half : p = q

\* A long walk with a protection, and one with less.
Guarded(x, strategy) ==
    /\ x.half = {} /\ (x.armed => x.sl >= 0) /\ (~x.armed => x.sl = -Stop)
    /\ x.reason = strategy => x.price >= 0
    /\ x.reason \in {"open", "sl", "tp", "time", "no_bars", strategy}

NoLater(x, y) == y.reason # "open" => x.reason # "open" /\ x.at <= y.at

SameLevel(x, b) == x.reason \in {"sl", "tp"} => b.reason = x.reason /\ b.price = x.price /\ b.at = x.at

Protected(b, e, t) ==
    /\ PlainWalk(1, b) /\ Guarded(e, "breakeven") /\ Guarded(t, "trailing")
    /\ NoLater(e, b) /\ NoLater(t, e)
    /\ SameLevel(e, b) /\ SameLevel(t, b)
    /\ e.armed => e.sl = 0
    /\ t.reason = "open" => (t.armed <=> e.armed)

-------------------------------------------------------------------------------
\* Long and short on mirrored bars.
LEMMA MirrorBar ==
    ASSUME NEW bar \in ExitBarType
    PROVE  /\ Mirror(bar) \in ExitBarType /\ Mirror(bar).high = -bar.low /\ Mirror(bar).low = -bar.high
           /\ Mirror(bar).close = -bar.close
  BY DEF ExitBarType, Mirror

LEMMA HitMirrored ==
    ASSUME NEW bar \in ExitBarType, NEW sl \in Int
    PROVE  /\ Hit(1, bar, TakeProfit(1), -sl) = Hit(-1, Mirror(bar), TakeProfit(-1), sl)
           /\ Touched1R(1, bar) <=> Touched1R(-1, Mirror(bar))
  <1>1. PICK high \in Int, low \in Int : high = bar.high /\ low = bar.low
    BY DEF ExitBarType
  <1>2. Mirror(bar).high = -low /\ Mirror(bar).low = -high
    BY <1>1, MirrorBar
  <1>3. /\ low <= -sl <=> -low >= sl
        /\ high >= Target <=> -high <= -Target
        /\ high >= Stop <=> -high <= -Stop
    BY LevelsAre
  <1>4. Hit(1, bar, TakeProfit(1), -sl) = IF low <= -sl THEN "sl" ELSE IF high >= Target THEN "tp" ELSE "none"
    BY <1>1, LevelsAre DEF Hit
  <1>5. Hit(-1, Mirror(bar), TakeProfit(-1), sl) = IF -low >= sl THEN "sl" ELSE IF -high <= -Target THEN "tp" ELSE "none"
    BY <1>2, LevelsAre DEF Hit
  <1>6. Touched1R(1, bar) <=> high >= Stop
    BY <1>1, LevelsAre DEF Touched1R
  <1>7. Touched1R(-1, Mirror(bar)) <=> -high <= -Stop
    BY <1>2, LevelsAre DEF Touched1R
  <1>8. QED
    BY <1>3, <1>4, <1>5, <1>6, <1>7

LEMMA MirrorWalk ==
    ASSUME NEW x \in WalkRecords, NEW y \in WalkRecords, MirrorOf(x, y), NEW s \in Strategies,
           NEW bar \in ExitBarType, minute \in Nat,
           NEW x1, x1 = Walk(1, s, x, bar), NEW y1, y1 = Walk(-1, s, y, Mirror(bar))
    PROVE  MirrorOf(x1, y1)
  <1>1. /\ x.reason = y.reason /\ x.at = y.at /\ x.price = -y.price
        /\ x.half = {-p : p \in y.half} /\ x.sl = -y.sl /\ x.armed = y.armed
    BY DEF MirrorOf
  <1>2. y.sl \in Int /\ y.price \in Int /\ y.half \in SUBSET Int /\ x.sl \in Int
    BY DEF WalkRecords
  <1>3. 1 \in Sides /\ -1 \in Sides /\ Mirror(bar) \in ExitBarType
    BY MirrorBar DEF Sides
  <1>4. CASE x.reason # "open"
    BY <1>1, <1>4, WalkClosed
  <1>5. PICK hit : hit = Hit(1, bar, TakeProfit(1), x.sl)
    OBVIOUS
  <1>6. hit = Hit(-1, Mirror(bar), TakeProfit(-1), y.sl)
    BY <1>1, <1>2, <1>5, HitMirrored
  <1>7. CASE x.reason = "open" /\ hit # "none"
    <2>1. WalkStopped(1, s, x, x1, hit) /\ WalkStopped(-1, s, y, y1, hit)
      BY <1>1, <1>3, <1>5, <1>6, <1>7, WalkHit
    <2>2. TakeProfit(1) = -TakeProfit(-1) /\ TakeProfit(-1) \in Int
      BY LevelsAre
    <2>3. QED
      BY <1>1, <1>2, <2>1, <2>2 DEF WalkStopped, MirrorOf
  <1>8. CASE x.reason = "open" /\ hit = "none"
    <2>1. Touched1R(1, bar) <=> Touched1R(-1, Mirror(bar))
      BY HitMirrored
    <2>2. CASE s = "baseline"
      BY <1>1, <1>5, <1>6, <1>8, <2>2, WalkBaseline
    <2>3. CASE s = "breakeven"
      <3>1. /\ WalkStays(x, x1) /\ x1.half = x.half
            /\ ~x.armed /\ Touched1R(1, bar) => x1.armed = TRUE /\ x1.sl = 0
            /\ ~(~x.armed /\ Touched1R(1, bar)) => x1.armed = x.armed /\ x1.sl = x.sl
        <4>1. BreakevenStep(1, x, x1, bar)
          BY <1>3, <1>5, <1>8, <2>3, WalkBreakeven
        <4>2. QED
          BY <1>3, <1>5, <1>8, <2>3, <4>1 DEF BreakevenStep
      <3>2. /\ WalkStays(y, y1) /\ y1.half = y.half
            /\ ~y.armed /\ Touched1R(-1, Mirror(bar)) => y1.armed = TRUE /\ y1.sl = 0
            /\ ~(~y.armed /\ Touched1R(-1, Mirror(bar))) => y1.armed = y.armed /\ y1.sl = y.sl
        <4>1. BreakevenStep(-1, y, y1, Mirror(bar))
          BY <1>1, <1>3, <1>6, <1>8, <2>3, WalkBreakeven
        <4>2. QED
          BY <1>1, <1>3, <1>6, <1>8, <2>3, <4>1 DEF BreakevenStep
      <3>3. x1.armed = y1.armed /\ x1.sl = -y1.sl
        <4>1. CASE ~x.armed /\ Touched1R(1, bar)
          <5>1. x1.armed = TRUE /\ x1.sl = 0
            BY <3>1, <4>1
          <5>2. y1.armed = TRUE /\ y1.sl = 0
            BY <1>1, <2>1, <3>2, <4>1
          <5>3. x1.sl = -y1.sl
            BY <5>1, <5>2
          <5>4. x1.armed = y1.armed
            BY <5>1, <5>2
          <5>5. QED
            BY <5>3, <5>4
        <4>2. CASE ~(~x.armed /\ Touched1R(1, bar))
          <5>1. x1.armed = x.armed /\ x1.sl = x.sl
            BY <3>1, <4>2
          <5>2. y1.armed = y.armed /\ y1.sl = y.sl
            BY <1>1, <2>1, <3>2, <4>2
          <5>3. QED
            BY <1>1, <5>1, <5>2
        <4>3. QED
          BY <4>1, <4>2
      <3>4. QED
        BY <1>1, <3>1, <3>2, <3>3 DEF WalkStays, MirrorOf
    <2>4. CASE s = "trailing"
      <3>1. /\ WalkStays(x, x1) /\ x1.half = x.half
            /\ x.armed \/ Touched1R(1, bar) => x1.armed = TRUE /\ x1.sl = TrailedTo(1, x, bar)
            /\ ~(x.armed \/ Touched1R(1, bar)) => x1.armed = x.armed /\ x1.sl = x.sl
        <4>1. TrailingStep(1, x, x1, bar)
          BY <1>3, <1>5, <1>8, <2>4, WalkTrailing
        <4>2. QED
          BY <1>3, <1>5, <1>8, <2>4, <4>1 DEF TrailingStep
      <3>2. /\ WalkStays(y, y1) /\ y1.half = y.half
            /\ y.armed \/ Touched1R(-1, Mirror(bar)) => y1.armed = TRUE /\ y1.sl = TrailedTo(-1, y, Mirror(bar))
            /\ ~(y.armed \/ Touched1R(-1, Mirror(bar))) => y1.armed = y.armed /\ y1.sl = y.sl
        <4>1. TrailingStep(-1, y, y1, Mirror(bar))
          BY <1>1, <1>3, <1>6, <1>8, <2>4, WalkTrailing
        <4>2. QED
          BY <1>1, <1>3, <1>6, <1>8, <2>4, <4>1 DEF TrailingStep
      <3>3. TrailedTo(1, x, bar) = -TrailedTo(-1, y, Mirror(bar))
        <4>1. PICK close \in Int : close = bar.close
          BY DEF ExitBarType
        <4>2. Mirror(bar).close = -close
          BY <4>1, MirrorBar
        <4>3. CASE x.armed
          BY <1>1, <1>2, <4>1, <4>2, <4>3, LevelsAre DEF TrailedTo, Higher, Lower
        <4>4. CASE ~x.armed
          BY <1>1, <1>2, <4>1, <4>2, <4>4, LevelsAre DEF TrailedTo, Higher, Lower
        <4>5. QED
          BY <4>3, <4>4
      <3>4. x1.armed = y1.armed /\ x1.sl = -y1.sl
        BY <1>1, <2>1, <3>1, <3>2, <3>3
      <3>5. QED
        BY <1>1, <3>1, <3>2, <3>4 DEF WalkStays, MirrorOf
    <2>5. CASE s \in {"levels", "timed"}
      <3>1. WalkStays(x, x1) /\ x1.armed = x.armed /\ x1.sl = x.sl /\ x1.half = HalfBy(1, s, x, bar)
        <4>1. PartialStep(1, s, x, x1, bar)
          BY <1>3, <1>5, <1>8, <2>5, WalkPartial
        <4>2. QED
          BY <1>3, <1>5, <1>8, <2>5, <4>1 DEF PartialStep
      <3>2. WalkStays(y, y1) /\ y1.armed = y.armed /\ y1.sl = y.sl /\ y1.half = HalfBy(-1, s, y, Mirror(bar))
        <4>1. PartialStep(-1, s, y, y1, Mirror(bar))
          BY <1>1, <1>3, <1>6, <1>8, <2>5, WalkPartial
        <4>2. QED
          BY <1>1, <1>3, <1>6, <1>8, <2>5, <4>1 DEF PartialStep
      <3>3. HalfBy(1, s, x, bar) = {-p : p \in HalfBy(-1, s, y, Mirror(bar))}
        <4>1. x.half = {} <=> y.half = {}
          BY <1>1
        <4>2. OneR(1) = -OneR(-1) /\ bar.close = -Mirror(bar).close
          BY LevelsAre, MirrorBar DEF ExitBarType
        <4>3. {OneR(1)} = {-p : p \in {OneR(-1)}} /\ {bar.close} = {-p : p \in {Mirror(bar).close}}
          BY <4>2
        <4>4. QED
          BY <1>1, <2>1, <4>1, <4>3 DEF HalfBy
      <3>4. QED
        BY <1>1, <3>1, <3>2, <3>3 DEF WalkStays, MirrorOf
    <2>6. QED
      BY <2>2, <2>3, <2>4, <2>5 DEF Strategies
  <1>9. QED
    BY <1>4, <1>7, <1>8

LEMMA MirrorTimeout ==
    ASSUME NEW x \in WalkRecords, NEW y \in WalkRecords, MirrorOf(x, y),
           NEW last \in SUBSET [close: Int, m: Nat], \A b, c \in last : b = c,
           NEW x1, x1 = Timeout(1, x, last), NEW y1, y1 = Timeout(-1, y, last)
    PROVE  MirrorOf(x1, y1)
  <1>1. /\ x.reason = y.reason /\ x.at = y.at /\ x.price = -y.price
        /\ x.half = {-p : p \in y.half} /\ x.sl = -y.sl /\ x.armed = y.armed
    BY DEF MirrorOf
  <1>2. 1 \in Sides /\ -1 \in Sides
    BY DEF Sides
  <1>3. /\ x1.sl = x.sl /\ x1.armed = x.armed /\ x1.half = x.half
        /\ y1.sl = y.sl /\ y1.armed = y.armed /\ y1.half = y.half
    <2>1. TimedOut(1, x, x1, last) /\ TimedOut(-1, y, y1, last)
      BY <1>2, TimeoutIs
    <2>2. QED
      BY <1>2, <2>1 DEF TimedOut
  <1>4. CASE x.reason # "open"
    <2>1. x1 = x /\ y1 = y
      <3>1. TimedOut(1, x, x1, last) /\ TimedOut(-1, y, y1, last)
        BY <1>1, <1>4, <1>2, TimeoutIs
      <3>2. QED
        BY <1>1, <1>4, <1>2, <3>1 DEF TimedOut
    <2>2. QED
      BY <2>1
  <1>5. CASE x.reason = "open" /\ last = {}
    <2>1. x1.reason = "no_bars" /\ x1.price = 0 /\ x1.at = 0 /\ y1.reason = "no_bars" /\ y1.price = 0 /\ y1.at = 0
      <3>1. TimedOut(1, x, x1, last) /\ TimedOut(-1, y, y1, last)
        BY <1>1, <1>2, <1>5, TimeoutIs
      <3>2. QED
        BY <1>1, <1>2, <1>5, <3>1 DEF TimedOut
    <2>2. QED
      BY <1>1, <1>3, <2>1 DEF MirrorOf
  <1>6. CASE x.reason = "open" /\ last # {}
    <2>1. PICK b \in last : TRUE
      BY <1>6
    <2>2. b.close \in Int
      OBVIOUS
    <2>3. x1.reason = "time" /\ x1.at = b.m /\ x1.price = b.close
      <3>1. TimedOut(1, x, x1, last)
        BY <1>2, <1>6, <2>1, TimeoutIs
      <3>2. QED
        BY <1>2, <1>6, <2>1, <3>1 DEF TimedOut
    <2>4. y1.reason = "time" /\ y1.at = b.m /\ y1.price = -b.close
      <3>1. TimedOut(-1, y, y1, last)
        BY <1>1, <1>2, <1>6, <2>1, TimeoutIs
      <3>2. QED
        BY <1>1, <1>2, <1>6, <2>1, <3>1 DEF TimedOut
    <2>5. QED
      BY <1>1, <1>3, <2>2, <2>3, <2>4 DEF MirrorOf
  <1>7. QED
    BY <1>4, <1>5, <1>6

-------------------------------------------------------------------------------
\* A part and the whole on the same bars.
LEMMA PartWalk ==
    ASSUME NEW x \in WalkRecords, NEW b \in WalkRecords, PartOf(x, b), NEW side \in Sides, PlainWalk(side, b),
           NEW s \in {"levels", "timed"}, NEW bar \in ExitBarType, minute \in Nat,
           NEW x1, x1 = Walk(side, s, x, bar), NEW b1, b1 = Walk(side, "baseline", b, bar)
    PROVE  PartOf(x1, b1) /\ PlainWalk(side, b1)
  <1>1. /\ x.reason = b.reason /\ x.at = b.at /\ x.price = b.price /\ x.sl = b.sl /\ x.armed = b.armed
        /\ \A p, q \in x.half : p = q
    BY DEF PartOf
  <1>2. b.armed = FALSE /\ b.sl = StopLoss(side) /\ b.half = {}
    BY DEF PlainWalk
  <1>3. s \in Strategies /\ "baseline" \in Strategies
    BY DEF Strategies
  <1>4. CASE x.reason # "open"
    BY <1>1, <1>4, WalkClosed
  <1>5. PICK hit : hit = Hit(side, bar, TakeProfit(side), x.sl)
    OBVIOUS
  <1>6. CASE x.reason = "open" /\ hit # "none"
    <2>1. WalkStopped(side, s, x, x1, hit) /\ WalkStopped(side, "baseline", b, b1, hit)
      BY <1>1, <1>3, <1>5, <1>6, WalkHit
    <2>2. QED
      BY <1>1, <1>2, <2>1 DEF WalkStopped, PartOf, PlainWalk
  <1>7. CASE x.reason = "open" /\ hit = "none"
    <2>1. b1 = b
      BY <1>1, <1>5, <1>7, WalkBaseline
    <2>2. PartialStep(side, s, x, x1, bar)
      BY <1>5, <1>7, WalkPartial
    <2>3. WalkStays(x, x1) /\ x1.armed = x.armed /\ x1.sl = x.sl /\ x1.half = HalfBy(side, s, x, bar)
      BY <2>2 DEF PartialStep
    <2>4. \A p, q \in HalfBy(side, s, x, bar) : p = q
      BY <1>1 DEF HalfBy
    <2>5. QED
      BY <1>1, <1>2, <2>1, <2>3, <2>4 DEF WalkStays, PartOf, PlainWalk
  <1>8. QED
    BY <1>4, <1>6, <1>7

LEMMA PartTimeout ==
    ASSUME NEW x \in WalkRecords, NEW b \in WalkRecords, PartOf(x, b), NEW side \in Sides, PlainWalk(side, b),
           NEW last \in SUBSET [close: Int, m: Nat], \A c, d \in last : c = d,
           NEW x1, x1 = Timeout(side, x, last), NEW b1, b1 = Timeout(side, b, last)
    PROVE  PartOf(x1, b1) /\ PlainWalk(side, b1)
  <1>1. /\ x.reason = b.reason /\ x.at = b.at /\ x.price = b.price /\ x.sl = b.sl /\ x.armed = b.armed
        /\ \A p, q \in x.half : p = q
    BY DEF PartOf
  <1>2. TimedOut(side, x, x1, last) /\ TimedOut(side, b, b1, last)
    BY TimeoutIs
  <1>3. /\ x1.sl = x.sl /\ x1.armed = x.armed /\ x1.half = x.half
        /\ b1.sl = b.sl /\ b1.armed = b.armed /\ b1.half = b.half
    BY <1>2 DEF TimedOut
  <1>4. x1.reason = b1.reason /\ x1.at = b1.at /\ x1.price = b1.price
    <2>1. CASE x.reason # "open"
      BY <1>1, <1>2, <2>1 DEF TimedOut
    <2>2. CASE x.reason = "open" /\ last = {}
      BY <1>1, <1>2, <2>2 DEF TimedOut
    <2>3. CASE x.reason = "open" /\ last # {}
      <3>1. PICK c \in last : TRUE
        BY <2>3
      <3>2. x1.reason = "time" /\ x1.at = c.m /\ x1.price = (IF side = 1 THEN c.close ELSE -c.close)
        BY <1>2, <2>3, <3>1 DEF TimedOut
      <3>3. b1.reason = "time" /\ b1.at = c.m /\ b1.price = (IF side = 1 THEN c.close ELSE -c.close)
        BY <1>1, <1>2, <2>3, <3>1 DEF TimedOut
      <3>4. QED
        BY <3>2, <3>3
    <2>4. QED
      BY <2>1, <2>2, <2>3
  <1>5. QED
    BY <1>1, <1>3, <1>4 DEF PartOf, PlainWalk

-------------------------------------------------------------------------------
\* Long walks with more and less protection, on the same bars.
HitLong(bar, sl) == IF bar.low <= sl THEN "sl" ELSE IF bar.high >= Target THEN "tp" ELSE "none"

LEMMA HitLongIs ==
    ASSUME NEW bar \in ExitBarType, NEW sl \in Int
    PROVE  /\ Hit(1, bar, TakeProfit(1), sl) = HitLong(bar, sl) /\ HitLong(bar, sl) \in {"sl", "tp", "none"}
           /\ HitLong(bar, sl) = "sl" <=> bar.low <= sl
           /\ HitLong(bar, sl) = "tp" <=> ~(bar.low <= sl) /\ bar.high >= Target
  BY LevelsAre DEF Hit, HitLong

\* A walk guarded before the bar is guarded after it.
LEMMA GuardedWalk ==
    ASSUME NEW s \in {"breakeven", "trailing"}, NEW x \in WalkRecords, Guarded(x, s), NEW bar \in ExitBarType,
           minute \in Nat, NEW x1, x1 = Walk(1, s, x, bar)
    PROVE  Guarded(x1, s) /\ x1 \in WalkRecords
  <1>1. /\ x.half = {} /\ (x.armed => x.sl >= 0) /\ (~x.armed => x.sl = -Stop)
        /\ x.reason = s => x.price >= 0
        /\ x.reason \in {"open", "sl", "tp", "time", "no_bars", s}
    BY DEF Guarded
  <1>2. x.sl \in Int /\ x.price \in Int /\ x.armed \in BOOLEAN /\ 1 \in Sides /\ s \in Strategies
    BY DEF WalkRecords, Sides, Strategies
  <1>3. CASE x.reason # "open"
    BY <1>3, WalkClosed
  <1>4. PICK hit : hit = Hit(1, bar, TakeProfit(1), x.sl)
    OBVIOUS
  <1>5. CASE x.reason = "open" /\ hit # "none"
    <2>1. WalkStopped(1, s, x, x1, hit) /\ x1 \in WalkRecords
      BY <1>2, <1>4, <1>5, WalkHit
    <2>2. hit \in {"sl", "tp"}
      BY <1>2, <1>4, <1>5, HitLongIs
    <2>3. x1.reason = s => hit = "sl" /\ x.armed
      BY <2>1, <2>2 DEF WalkStopped
    <2>4. x1.reason = s => x1.price = x.sl /\ x1.price >= 0
      BY <1>1, <2>1, <2>3 DEF WalkStopped
    <2>5. x1.reason \in {"sl", "tp", s}
      BY <2>1, <2>2 DEF WalkStopped
    <2>6. QED
      BY <1>1, <2>1, <2>4, <2>5 DEF WalkStopped, Guarded
  <1>6. CASE x.reason = "open" /\ hit = "none" /\ s = "breakeven"
    <2>1. BreakevenStep(1, x, x1, bar)
      BY <1>2, <1>4, <1>6, WalkBreakeven
    <2>2. x1 \in WalkRecords /\ WalkStays(x, x1) /\ x1.half = {}
      BY <1>1, <2>1 DEF BreakevenStep
    <2>3. (x1.armed = TRUE /\ x1.sl = 0) \/ (x1.armed = x.armed /\ x1.sl = x.sl)
      BY <2>1 DEF BreakevenStep
    <2>4. (x1.armed => x1.sl >= 0) /\ (~x1.armed => x1.sl = -Stop)
      BY <1>1, <2>3
    <2>5. QED
      BY <1>1, <1>6, <2>2, <2>4 DEF WalkStays, Guarded
  <1>7. CASE x.reason = "open" /\ hit = "none" /\ s = "trailing"
    <2>1. TrailingStep(1, x, x1, bar)
      BY <1>2, <1>4, <1>7, WalkTrailing
    <2>2. x1 \in WalkRecords /\ WalkStays(x, x1) /\ x1.half = {}
      BY <1>1, <2>1 DEF TrailingStep
    <2>3. (x1.armed = TRUE /\ x1.sl = TrailedTo(1, x, bar)) \/ (x1.armed = x.armed /\ x1.sl = x.sl)
      BY <2>1 DEF TrailingStep
    <2>6. TrailedTo(1, x, bar) >= 0
      <3>1. PICK close \in Int : close = bar.close
        BY DEF ExitBarType
      <3>2. CASE x.armed
        BY <1>1, <1>2, <3>1, <3>2, LevelsAre DEF TrailedTo, Higher, Lower
      <3>3. CASE ~x.armed
        BY <1>1, <1>2, <3>1, <3>3, LevelsAre DEF TrailedTo, Higher, Lower
      <3>4. QED
        BY <3>2, <3>3
    <2>4. (x1.armed => x1.sl >= 0) /\ (~x1.armed => x1.sl = -Stop)
      BY <1>1, <2>3, <2>6
    <2>5. QED
      BY <1>1, <1>7, <2>2, <2>4 DEF WalkStays, Guarded
  <1>8. QED
    BY <1>3, <1>5, <1>6, <1>7

\* When both are open, the walk with the higher stop is hit whenever the other is, and the same bar
\* hits the target of both or the stop of the higher.
LEMMA HigherIsHit ==
    ASSUME NEW bar \in ExitBarType, NEW high \in Int, NEW low \in Int, low <= high
    PROVE  /\ HitLong(bar, low) # "none" => HitLong(bar, high) # "none"
           /\ HitLong(bar, high) = "tp" => HitLong(bar, low) = "tp"
  <1>1. bar.low \in Int
    BY DEF ExitBarType
  <1>2. QED
    BY <1>1 DEF HitLong

\* Less of a protection: the baseline beside the breakeven stop, that beside the trailing one.
StopsInOrder(x, y) == x.reason = "open" => y.reason = "open" /\ y.sl <= x.sl

LEMMA WalkInOrder ==
    ASSUME NEW sx \in Strategies, NEW sy \in Strategies, NEW x \in WalkRecords, NEW y \in WalkRecords,
           NoLater(x, y), StopsInOrder(x, y), x.reason # "open" => x.at <= minute,
           NEW bar \in ExitBarType, minute \in Nat,
           NEW x1, x1 = Walk(1, sx, x, bar), NEW y1, y1 = Walk(1, sy, y, bar)
    PROVE  /\ NoLater(x1, y1)
           /\ x1.reason = "open" => x.reason = "open" /\ HitLong(bar, x.sl) = "none" /\ HitLong(bar, y.sl) = "none"
           /\ x1.reason # "open" => x1.at <= minute
  <1>1. y.reason # "open" => x.reason # "open" /\ x.at <= y.at
    BY DEF NoLater
  <1>2. x.sl \in Int /\ y.sl \in Int /\ 1 \in Sides
    BY DEF WalkRecords, Sides
  <1>3. CASE x.reason # "open"
    <2>1. x1 = x
      BY <1>3, WalkClosed
    <2>2. CASE y.reason # "open"
      BY <1>1, <1>3, <2>1, <2>2, WalkClosed DEF NoLater
    <2>3. CASE y.reason = "open" /\ HitLong(bar, y.sl) # "none"
      <3>1. WalkStopped(1, sy, y, y1, HitLong(bar, y.sl))
        BY <1>2, <2>3, HitLongIs, WalkHit
      <3>2. y1.at = minute
        BY <3>1 DEF WalkStopped
      <3>3. QED
        BY <1>3, <2>1, <3>2 DEF NoLater
    <2>4. CASE y.reason = "open" /\ HitLong(bar, y.sl) = "none"
      <3>1. y1.reason = "open"
        BY <1>2, <2>4, HitLongIs, WalkOpen
      <3>2. QED
        BY <1>3, <2>1, <3>1 DEF NoLater
    <2>5. QED
      BY <2>2, <2>3, <2>4
  <1>4. CASE x.reason = "open" /\ HitLong(bar, x.sl) # "none"
    <2>1. WalkStopped(1, sx, x, x1, HitLong(bar, x.sl))
      BY <1>2, <1>4, HitLongIs, WalkHit
    <2>2. x1.at = minute /\ x1.reason # "open"
      <3>1. HitLong(bar, x.sl) \in {"sl", "tp"} /\ "open" \notin Strategies
        BY <1>2, <1>4, HitLongIs DEF Strategies
      <3>2. QED
        BY <2>1, <3>1 DEF WalkStopped
    <2>3. y.reason = "open"
      BY <1>4 DEF StopsInOrder
    <2>4. y1.reason = "open" \/ y1.at = minute
      <3>1. CASE HitLong(bar, y.sl) = "none"
        BY <1>2, <2>3, <3>1, HitLongIs, WalkOpen
      <3>2. CASE HitLong(bar, y.sl) # "none"
        <4>1. WalkStopped(1, sy, y, y1, HitLong(bar, y.sl))
          BY <1>2, <2>3, <3>2, HitLongIs, WalkHit
        <4>2. QED
          BY <4>1 DEF WalkStopped
      <3>3. QED
        BY <3>1, <3>2
    <2>5. QED
      BY <2>2, <2>4 DEF NoLater
  <1>5. CASE x.reason = "open" /\ HitLong(bar, x.sl) = "none"
    <2>1. y.reason = "open" /\ y.sl <= x.sl
      BY <1>5 DEF StopsInOrder
    <2>2. HitLong(bar, y.sl) = "none"
      BY <1>2, <1>5, <2>1, HigherIsHit
    <2>3. x1.reason = "open" /\ x1.price = x.price /\ x1.at = x.at
      BY <1>2, <1>5, HitLongIs, WalkOpen
    <2>4. y1.reason = "open" /\ y1.price = y.price /\ y1.at = y.at
      BY <1>2, <2>1, <2>2, HitLongIs, WalkOpen
    <2>5. QED
      BY <1>1, <1>5, <2>2, <2>3, <2>4 DEF NoLater
  <1>6. QED
    BY <1>3, <1>4, <1>5

\* A walk that ends at a level of its own ends as the baseline.
LEMMA WalkSameLevel ==
    ASSUME NEW s \in {"breakeven", "trailing"}, NEW x \in WalkRecords, NEW b \in WalkRecords,
           SameLevel(x, b), StopsInOrder(x, b), Guarded(x, s), PlainWalk(1, b),
           NEW bar \in ExitBarType, minute \in Nat,
           NEW x1, x1 = Walk(1, s, x, bar), NEW b1, b1 = Walk(1, "baseline", b, bar)
    PROVE  SameLevel(x1, b1)
  <1>1. b.armed = FALSE /\ b.sl = -Stop /\ x.sl \in Int /\ b.sl \in Int /\ 1 \in Sides
    BY LevelsAre DEF PlainWalk, WalkRecords, Sides
  <1>2. s \in Strategies /\ "baseline" \in Strategies
    BY DEF Strategies
  <1>3. CASE x.reason # "open"
    <2>1. x1 = x
      BY <1>3, WalkClosed
    <2>2. CASE x.reason \in {"sl", "tp"}
      <3>1. b.reason = x.reason /\ b.price = x.price /\ b.at = x.at
        BY <2>2 DEF SameLevel
      <3>2. b1 = b
        BY <1>3, <3>1, WalkClosed
      <3>3. QED
        BY <2>1, <3>1, <3>2 DEF SameLevel
    <2>3. CASE x.reason \notin {"sl", "tp"}
      BY <2>1, <2>3 DEF SameLevel
    <2>4. QED
      BY <2>2, <2>3
  <1>4. CASE x.reason = "open" /\ HitLong(bar, x.sl) # "none"
    <2>1. WalkStopped(1, s, x, x1, HitLong(bar, x.sl)) /\ HitLong(bar, x.sl) \in {"sl", "tp"}
      BY <1>1, <1>2, <1>4, HitLongIs, WalkHit
    <2>2. b.reason = "open" /\ b.sl <= x.sl
      BY <1>4 DEF StopsInOrder
    <2>3. ASSUME x1.reason \in {"sl", "tp"}
          PROVE  b1.reason = x1.reason /\ b1.price = x1.price /\ b1.at = x1.at
      <3>1. HitLong(bar, b.sl) = HitLong(bar, x.sl) /\ (HitLong(bar, x.sl) = "sl" => b.sl = x.sl)
        <4>1. CASE HitLong(bar, x.sl) = "sl"
          <5>1. ~x.armed
            BY <2>1, <2>3, <4>1 DEF WalkStopped
          <5>2. b.sl = x.sl
            BY <1>1, <5>1 DEF Guarded
          <5>3. QED
            BY <5>2
        <4>2. CASE HitLong(bar, x.sl) = "tp"
          BY <1>1, <2>2, <4>2, HigherIsHit
        <4>3. QED
          BY <2>1, <4>1, <4>2
      <3>2. WalkStopped(1, "baseline", b, b1, HitLong(bar, b.sl))
        BY <1>1, <1>2, <1>4, <2>2, <3>1, HitLongIs, WalkHit
      <3>3. b1.reason = HitLong(bar, x.sl) /\ b1.at = minute
            /\ b1.price = IF HitLong(bar, x.sl) = "sl" THEN b.sl ELSE TakeProfit(1)
        BY <1>1, <3>1, <3>2 DEF WalkStopped
      <3>4. x1.reason = HitLong(bar, x.sl) /\ x1.at = minute
            /\ x1.price = IF HitLong(bar, x.sl) = "sl" THEN x.sl ELSE TakeProfit(1)
        BY <2>1, <2>3 DEF WalkStopped
      <3>5. QED
        BY <3>1, <3>3, <3>4
    <2>4. QED
      BY <2>3 DEF SameLevel
  <1>5. CASE x.reason = "open" /\ HitLong(bar, x.sl) = "none"
    <2>1. x1.reason = "open"
      BY <1>1, <1>2, <1>5, HitLongIs, WalkOpen
    <2>2. QED
      BY <2>1 DEF SameLevel
  <1>6. QED
    BY <1>3, <1>4, <1>5

LEMMA StopsAre ==
    ASSUME NEW b \in WalkRecords, NEW e \in WalkRecords, NEW t \in WalkRecords, Protected(b, e, t)
    PROVE  StopsInOrder(e, b) /\ StopsInOrder(t, e) /\ StopsInOrder(t, b)
  <1>1. b.sl = -Stop /\ Stop \in Nat /\ e.sl \in Int /\ t.sl \in Int /\ b.sl \in Int
    BY LevelsAre DEF Protected, PlainWalk, WalkRecords
  <1>2. /\ e.armed => e.sl = 0
        /\ ~e.armed => e.sl = -Stop
        /\ t.armed => t.sl >= 0
        /\ ~t.armed => t.sl = -Stop
        /\ t.reason = "open" => (t.armed <=> e.armed)
    BY DEF Protected, Guarded
  <1>3. (e.reason = "open" => b.reason = "open") /\ (t.reason = "open" => e.reason = "open")
    BY DEF Protected, NoLater
  <1>4. b.sl <= e.sl /\ b.sl <= t.sl
    BY <1>1, <1>2
  <1>5. t.reason = "open" => e.sl <= t.sl
    <2>1. CASE t.armed
      BY <1>1, <1>2, <2>1
    <2>2. CASE ~t.armed
      BY <1>1, <1>2, <2>2
    <2>3. QED
      BY <2>1, <2>2
  <1>6. QED
    BY <1>3, <1>4, <1>5 DEF StopsInOrder

LEMMA ProtectWalk ==
    ASSUME NEW b \in WalkRecords, NEW e \in WalkRecords, NEW t \in WalkRecords, Protected(b, e, t),
           b.reason # "open" => b.at <= minute, e.reason # "open" => e.at <= minute,
           t.reason # "open" => t.at <= minute,
           NEW bar \in ExitBarType, minute \in Nat,
           NEW b1, b1 = Walk(1, "baseline", b, bar), NEW e1, e1 = Walk(1, "breakeven", e, bar),
           NEW t1, t1 = Walk(1, "trailing", t, bar)
    PROVE  Protected(b1, e1, t1)
  <1>1. /\ PlainWalk(1, b) /\ Guarded(e, "breakeven") /\ Guarded(t, "trailing")
        /\ NoLater(e, b) /\ NoLater(t, e) /\ SameLevel(e, b) /\ SameLevel(t, b)
    BY DEF Protected
  <1>2. StopsInOrder(e, b) /\ StopsInOrder(t, e) /\ StopsInOrder(t, b)
    BY StopsAre
  <1>3. {"baseline", "breakeven", "trailing"} \subseteq Strategies /\ 1 \in Sides
    BY DEF Strategies, Sides
  <1>4. NoLater(e1, b1)
    BY <1>1, <1>2, <1>3, WalkInOrder
  <1>5. NoLater(t1, e1)
    BY <1>1, <1>2, <1>3, WalkInOrder
  <1>6. SameLevel(e1, b1) /\ SameLevel(t1, b1)
    BY <1>1, <1>2, WalkSameLevel
  <1>7. Guarded(e1, "breakeven") /\ Guarded(t1, "trailing")
    BY <1>1, GuardedWalk
  <1>8. PlainWalk(1, b1)
    <2>1. CASE b.reason # "open"
      BY <1>1, <2>1, WalkClosed
    <2>2. PICK hit : hit = Hit(1, bar, TakeProfit(1), b.sl)
      OBVIOUS
    <2>3. CASE b.reason = "open" /\ hit # "none"
      <3>1. WalkStopped(1, "baseline", b, b1, hit)
        BY <1>3, <2>2, <2>3, WalkHit
      <3>2. QED
        BY <1>1, <3>1 DEF WalkStopped, PlainWalk
    <2>4. CASE b.reason = "open" /\ hit = "none"
      BY <1>1, <2>2, <2>4, WalkBaseline
    <2>5. QED
      BY <2>1, <2>3, <2>4
  <1>9. e.sl \in Int /\ t.sl \in Int /\ e.armed \in BOOLEAN
    BY DEF WalkRecords
  <1>10. e1.armed => e1.sl = 0
    <2>1. e.armed => e.sl = 0
      BY DEF Protected
    <2>2. CASE e.reason # "open"
      BY <2>1, <2>2, WalkClosed
    <2>3. CASE e.reason = "open" /\ HitLong(bar, e.sl) # "none"
      <3>1. WalkStopped(1, "breakeven", e, e1, HitLong(bar, e.sl))
        BY <1>3, <1>9, <2>3, HitLongIs, WalkHit
      <3>2. QED
        BY <2>1, <3>1 DEF WalkStopped
    <2>4. CASE e.reason = "open" /\ HitLong(bar, e.sl) = "none"
      <3>1. BreakevenStep(1, e, e1, bar)
        BY <1>3, <1>9, <2>4, HitLongIs, WalkBreakeven
      <3>2. (e1.armed = TRUE /\ e1.sl = 0) \/ (e1.armed = e.armed /\ e1.sl = e.sl)
        BY <3>1 DEF BreakevenStep
      <3>3. QED
        BY <2>1, <3>2
    <2>5. QED
      BY <2>2, <2>3, <2>4
  <1>11. ASSUME t1.reason = "open" PROVE t1.armed <=> e1.armed
    <2>1. t.reason = "open" /\ HitLong(bar, t.sl) = "none" /\ HitLong(bar, e.sl) = "none"
      BY <1>1, <1>2, <1>3, <1>11, WalkInOrder
    <2>2. e.reason = "open" /\ (t.armed <=> e.armed)
      BY <1>2, <2>1 DEF StopsInOrder, Protected
    <2>3. TrailingStep(1, t, t1, bar)
      BY <1>3, <1>9, <2>1, HitLongIs, WalkTrailing
    <2>4. BreakevenStep(1, e, e1, bar)
      BY <1>3, <1>9, <2>1, <2>2, HitLongIs, WalkBreakeven
    <2>5. CASE Touched1R(1, bar)
      <3>1. t1.armed
        BY <2>3, <2>5 DEF TrailingStep
      <3>2. CASE e.armed
        <4>1. e1.armed = e.armed
          BY <2>4, <3>2 DEF BreakevenStep
        <4>2. QED
          BY <3>1, <3>2, <4>1
      <3>3. CASE ~e.armed
        <4>1. e1.armed = TRUE
          BY <2>4, <2>5, <3>3 DEF BreakevenStep
        <4>2. QED
          BY <3>1, <4>1
      <3>4. QED
        BY <3>2, <3>3
    <2>6. CASE ~Touched1R(1, bar)
      <3>1. e1.armed = e.armed
        BY <2>4, <2>6 DEF BreakevenStep
      <3>2. CASE t.armed
        <4>1. t1.armed = TRUE
          BY <2>3, <3>2 DEF TrailingStep
        <4>2. QED
          BY <2>2, <3>1, <3>2, <4>1
      <3>3. CASE ~t.armed
        <4>1. t1.armed = t.armed
          BY <2>3, <2>6, <3>3 DEF TrailingStep
        <4>2. QED
          BY <2>2, <3>1, <3>3, <4>1
      <3>4. QED
        BY <3>2, <3>3
    <2>7. QED
      BY <2>5, <2>6
  <1>12. QED
    BY <1>4, <1>5, <1>6, <1>7, <1>8, <1>10, <1>11 DEF Protected

\* The end of the bars: what is open ends no earlier than what was closed.
ClosedByLast(x, last) == x.reason # "open" => \E c \in last : x.at <= c.m

LEMMA TimeoutInOrder ==
    ASSUME NEW x \in WalkRecords, NEW y \in WalkRecords, NoLater(x, y),
           NEW last \in SUBSET [close: Int, m: Nat], \A c, d \in last : c = d, ClosedByLast(x, last),
           NEW x1, x1 = Timeout(1, x, last), NEW y1, y1 = Timeout(1, y, last)
    PROVE  NoLater(x1, y1)
  <1>1. TimedOut(1, x, x1, last) /\ TimedOut(1, y, y1, last)
    BY TimeoutIs DEF Sides
  <1>2. x1.reason # "open" /\ y1.reason # "open"
    BY <1>1 DEF TimedOut
  <1>3. CASE x.reason # "open" /\ y.reason # "open"
    <2>1. x1 = x /\ y1 = y
      BY <1>1, <1>3 DEF TimedOut
    <2>2. QED
      BY <2>1
  <1>4. CASE x.reason # "open" /\ y.reason = "open"
    <2>1. PICK c \in last : x.at <= c.m
      BY <1>4 DEF ClosedByLast
    <2>2. x1 = x /\ y1.at = c.m
      BY <1>1, <1>4, <2>1 DEF TimedOut
    <2>3. QED
      BY <1>2, <2>1, <2>2 DEF NoLater
  <1>5. CASE x.reason = "open"
    <2>1. y.reason = "open"
      BY <1>5 DEF NoLater
    <2>2. CASE last = {}
      <3>1. x1.at = 0 /\ y1.at = 0
        BY <1>1, <1>5, <2>1, <2>2 DEF TimedOut
      <3>2. QED
        BY <1>2, <3>1 DEF NoLater
    <2>3. CASE last # {}
      <3>1. PICK c \in last : TRUE
        BY <2>3
      <3>2. x1.at = c.m /\ y1.at = c.m /\ c.m \in Nat
        BY <1>1, <1>5, <2>1, <3>1 DEF TimedOut
      <3>3. QED
        BY <1>2, <3>2 DEF NoLater
    <2>4. QED
      BY <2>2, <2>3
  <1>6. QED
    BY <1>3, <1>4, <1>5

LEMMA TimeoutSameLevel ==
    ASSUME NEW x \in WalkRecords, NEW b \in WalkRecords, SameLevel(x, b), NEW last \in SUBSET [close: Int, m: Nat],
           \A c, d \in last : c = d,
           NEW x1, x1 = Timeout(1, x, last), NEW b1, b1 = Timeout(1, b, last)
    PROVE  /\ SameLevel(x1, b1) /\ (x.reason = "open" => x1.reason \in {"time", "no_bars"})
  <1>1. TimedOut(1, x, x1, last) /\ TimedOut(1, b, b1, last)
    BY TimeoutIs DEF Sides
  <1>2. ASSUME x.reason = "open" PROVE x1.reason \in {"time", "no_bars"}
    <2>1. CASE last = {}
      BY <1>1, <1>2, <2>1 DEF TimedOut
    <2>2. CASE last # {}
      <3>1. PICK c \in last : TRUE
        BY <2>2
      <3>2. QED
        BY <1>1, <1>2, <3>1 DEF TimedOut
    <2>3. QED
      BY <2>1, <2>2
  <1>3. CASE x.reason = "open"
    BY <1>2, <1>3 DEF SameLevel
  <1>4. CASE x.reason # "open"
    <2>1. x1 = x
      BY <1>1, <1>4 DEF TimedOut
    <2>2. CASE x.reason \in {"sl", "tp"}
      <3>1. b.reason \in {"sl", "tp"} /\ b.reason = x.reason /\ b.price = x.price /\ b.at = x.at
        BY <2>2 DEF SameLevel
      <3>2. b1 = b
        BY <1>1, <3>1 DEF TimedOut
      <3>3. QED
        BY <1>4, <2>1, <3>1, <3>2 DEF SameLevel
    <2>3. CASE x.reason \notin {"sl", "tp"}
      BY <1>4, <2>1, <2>3 DEF SameLevel
    <2>4. QED
      BY <2>2, <2>3
  <1>5. QED
    BY <1>2, <1>3, <1>4

LEMMA ProtectTimeout ==
    ASSUME NEW b \in WalkRecords, NEW e \in WalkRecords, NEW t \in WalkRecords, Protected(b, e, t),
           NEW last \in SUBSET [close: Int, m: Nat], \A c, d \in last : c = d,
           ClosedByLast(e, last), ClosedByLast(t, last),
           NEW b1, b1 = Timeout(1, b, last), NEW e1, e1 = Timeout(1, e, last), NEW t1, t1 = Timeout(1, t, last)
    PROVE  Protected(b1, e1, t1)
  <1>1. /\ PlainWalk(1, b) /\ Guarded(e, "breakeven") /\ Guarded(t, "trailing")
        /\ NoLater(e, b) /\ NoLater(t, e) /\ SameLevel(e, b) /\ SameLevel(t, b)
        /\ e.armed => e.sl = 0
    BY DEF Protected
  <1>2. TimedOut(1, b, b1, last) /\ TimedOut(1, e, e1, last) /\ TimedOut(1, t, t1, last)
    BY TimeoutIs DEF Sides
  <1>3. NoLater(e1, b1) /\ NoLater(t1, e1)
    BY <1>1, TimeoutInOrder
  <1>4. /\ SameLevel(e1, b1) /\ SameLevel(t1, b1)
        /\ e.reason = "open" => e1.reason \in {"time", "no_bars"}
        /\ t.reason = "open" => t1.reason \in {"time", "no_bars"}
    BY <1>1, TimeoutSameLevel
  <1>5. /\ b1.sl = b.sl /\ b1.armed = b.armed /\ b1.half = b.half
        /\ e1.sl = e.sl /\ e1.armed = e.armed /\ e1.half = e.half
        /\ t1.sl = t.sl /\ t1.armed = t.armed /\ t1.half = t.half /\ t1.reason # "open"
        /\ e.reason # "open" => e1 = e
        /\ t.reason # "open" => t1 = t
    BY <1>2 DEF TimedOut
  <1>6. Guarded(e1, "breakeven")
    <2>1. CASE e.reason # "open"
      BY <1>1, <1>5, <2>1
    <2>2. CASE e.reason = "open"
      BY <1>1, <1>4, <1>5, <2>2 DEF Guarded
    <2>3. QED
      BY <2>1, <2>2
  <1>7. Guarded(t1, "trailing")
    <2>1. CASE t.reason # "open"
      BY <1>1, <1>5, <2>1
    <2>2. CASE t.reason = "open"
      BY <1>1, <1>4, <1>5, <2>2 DEF Guarded
    <2>3. QED
      BY <2>1, <2>2
  <1>8. PlainWalk(1, b1)
    BY <1>1, <1>5 DEF PlainWalk
  <1>9. e1.armed => e1.sl = 0
    BY <1>1, <1>5
  <1>10. QED
    BY <1>3, <1>4, <1>5, <1>6, <1>7, <1>8, <1>9 DEF Protected

-------------------------------------------------------------------------------
\* The windows against each other while bars come.
HonestSoFar(wide, honest) ==
    \/ wide = honest
    \/ wide.reason # "open" /\ wide.at = 0
    \/ wide.reason # "open" /\ wide.at > Horizon /\ honest.reason = "open"

Phase2SoFar(wide, phase2, same) ==
    \/ same /\ wide = phase2
    \/ (\E c \in lastBar["phase2"] : c.m = Horizon) /\ (wide = phase2 \/ phase2.reason = "open")

WindowsSoFar ==
    /\ \A w \in Windows : \A c \in lastBar[w] : c.m < minute
    /\ \A t \in Trades : ClosedByLast(walks[t], lastBar[t[3]])
    /\ \A c \in lastBar["wide"] : 1 <= c.m /\ c.m <= Horizon => lastBar["honest"] = lastBar["wide"]
    /\ \A side \in Sides :
          /\ HonestSoFar(walks[<<side, "baseline", "wide">>], walks[<<side, "baseline", "honest">>])
          /\ Phase2SoFar(walks[<<side, "baseline", "wide">>], walks[<<side, "baseline", "phase2">>],
                         lastBar["wide"] = lastBar["phase2"])

WalksAgree ==
    \A w \in {"wide", "honest"} :
        /\ \A s \in Strategies : MirrorOf(walks[<<1, s, w>>], walks[<<-1, s, w>>])
        /\ \A side \in Sides, s \in {"levels", "timed"} :
              PartOf(walks[<<side, s, w>>], walks[<<side, "baseline", w>>])
        /\ \A side \in Sides : PlainWalk(side, walks[<<side, "baseline", w>>])
        /\ Protected(walks[<<1, "baseline", w>>], walks[<<1, "breakeven", w>>], walks[<<1, "trailing", w>>])

WalksAre ==
    /\ minute \in Nat /\ walks \in [Trades -> WalkRecords]
    /\ lastBar \in [Windows -> SUBSET [close: Int, m: Nat]]
    /\ \A w \in Windows : \A c, d \in lastBar[w] : c = d

ExitsInv ==
    /\ WalksAre
    /\ WalksAgree
    /\ ~ended => WindowsSoFar
    /\ ended => minute > LastMinute /\ WindowsDifferAtTheEdges

LEMMA TradesAre ==
    /\ \A side \in Sides, s \in Strategies, w \in {"wide", "honest"} : <<side, s, w>> \in Trades
    /\ \A side \in Sides, w \in Windows : <<side, "baseline", w>> \in Trades
    /\ \A t \in Trades : t[1] \in Sides /\ t[2] \in Strategies /\ t[3] \in Windows
    /\ 1 \in Sides /\ -1 \in Sides /\ {"wide", "honest", "phase2"} = Windows
    /\ Strategies = {"baseline", "breakeven", "trailing", "levels", "timed"}
  <1>1. Strategies = {"baseline", "breakeven", "trailing", "levels", "timed"} /\ {"wide", "honest", "phase2"} = Windows
    BY DEF Strategies, Windows
  <1>2. \A side \in Sides, s \in Strategies, w \in {"wide", "honest"} : <<side, s, w>> \in Trades
    BY DEF Trades
  <1>3. \A side \in Sides : <<side, "baseline", "phase2">> \in Trades
    BY DEF Trades
  <1>4. \A side \in Sides, w \in Windows : <<side, "baseline", w>> \in Trades
    BY <1>1, <1>2, <1>3
  <1>5. \A t \in Trades : t[1] \in Sides /\ t[2] \in Strategies /\ t[3] \in Windows
    BY <1>1 DEF Trades
  <1>6. 1 \in Sides /\ -1 \in Sides
    BY DEF Sides
  <1>7. QED
    BY <1>1, <1>2, <1>4, <1>5, <1>6

LEMMA ZeroMirrored == \E zero \in Int : zero = 0 /\ zero = -zero
  <1>1. PICK zero \in Int : zero + zero = 0
    OBVIOUS
  <1>2. zero = -zero
    BY <1>1
  <1>3. zero = 0
    BY <1>1
  <1>4. QED
    BY <1>2, <1>3

LEMMA ExitsStart ==
    ASSUME ExitsInit PROVE ExitsInv
  <1>1. minute = 0 /\ ended = FALSE
    BY DEF ExitsInit
  <1>2. \A side \in Sides : FreshWalk(side) \in WalkRecords
    BY LevelsAre DEF FreshWalk, WalkRecords, Sides, Reasons
  <1>3. \A t \in Trades : walks[t] = FreshWalk(t[1])
    BY DEF ExitsInit
  <1>4. walks \in [Trades -> WalkRecords]
    BY <1>2, TradesAre DEF ExitsInit
  <1>5. \A side \in Sides, s \in Strategies, w \in {"wide", "honest"} : walks[<<side, s, w>>] = FreshWalk(side)
    <2> TAKE side \in Sides, s \in Strategies, w \in {"wide", "honest"}
    <2>1. <<side, s, w>> \in Trades
      BY TradesAre
    <2>2. <<side, s, w>>[1] = side
      OBVIOUS
    <2>3. QED
      BY <1>3, <2>1, <2>2
  <1>6. \A side \in Sides, w \in Windows : walks[<<side, "baseline", w>>] = FreshWalk(side)
    BY <1>3, TradesAre
  <1>7. \A w \in Windows : lastBar[w] = {}
    BY DEF ExitsInit
  <1>8. WalksAre
    BY <1>1, <1>4, <1>7 DEF ExitsInit, WalksAre
  <1>9. \A side \in Sides : /\ FreshWalk(side).sl = StopLoss(side) /\ FreshWalk(side).armed = FALSE
                           /\ FreshWalk(side).half = {} /\ FreshWalk(side).reason = "open"
                           /\ FreshWalk(side).price = 0 /\ FreshWalk(side).at = -1
    BY LevelsAre DEF FreshWalk
  <1>10. MirrorOf(FreshWalk(1), FreshWalk(-1))
    <2>1. /\ FreshWalk(1).sl = -Stop /\ FreshWalk(1).armed = FALSE
          /\ FreshWalk(1).half = {} /\ FreshWalk(1).reason = "open"
          /\ FreshWalk(1).price = 0 /\ FreshWalk(1).at = -1
      BY <1>9, TradesAre, LevelsAre
    <2>2. /\ FreshWalk(-1).sl = Stop /\ FreshWalk(-1).armed = FALSE
          /\ FreshWalk(-1).half = {} /\ FreshWalk(-1).reason = "open"
          /\ FreshWalk(-1).price = 0 /\ FreshWalk(-1).at = -1
      BY <1>9, TradesAre, LevelsAre
    <2>3. {-p : p \in {}} = {}
      OBVIOUS
    <2>4. PICK zero \in Int : zero = 0 /\ zero = -zero
      BY ZeroMirrored
    <2>5. FreshWalk(1).price = zero /\ FreshWalk(-1).price = zero
      BY <2>1, <2>2, <2>4
    <2>6. FreshWalk(1).price = -FreshWalk(-1).price
      BY <2>4, <2>5, Zenon
    <2>7. QED
      BY <2>1, <2>2, <2>3, <2>6, LevelsAre DEF MirrorOf
  <1>11. \A side \in Sides : PlainWalk(side, FreshWalk(side)) /\ PartOf(FreshWalk(side), FreshWalk(side))
    BY <1>9 DEF PlainWalk, PartOf
  <1>12. Protected(FreshWalk(1), FreshWalk(1), FreshWalk(1))
    <2>1. Guarded(FreshWalk(1), "breakeven") /\ Guarded(FreshWalk(1), "trailing")
      BY <1>9, TradesAre, LevelsAre DEF Guarded
    <2>2. NoLater(FreshWalk(1), FreshWalk(1)) /\ SameLevel(FreshWalk(1), FreshWalk(1))
      BY <1>9, TradesAre DEF NoLater, SameLevel
    <2>3. ~FreshWalk(1).armed
      BY <1>9, TradesAre
    <2>4. QED
      BY <1>11, <2>1, <2>2, <2>3, TradesAre DEF Protected
  <1>13. WalksAgree
    <2> SUFFICES ASSUME NEW w \in {"wide", "honest"}
                 PROVE  /\ \A s \in Strategies : MirrorOf(walks[<<1, s, w>>], walks[<<-1, s, w>>])
                        /\ \A side \in Sides, s \in {"levels", "timed"} :
                              PartOf(walks[<<side, s, w>>], walks[<<side, "baseline", w>>])
                        /\ \A side \in Sides : PlainWalk(side, walks[<<side, "baseline", w>>])
                        /\ Protected(walks[<<1, "baseline", w>>], walks[<<1, "breakeven", w>>],
                                     walks[<<1, "trailing", w>>])
      BY DEF WalksAgree
    <2>1. \A side \in Sides, s \in Strategies : walks[<<side, s, w>>] = FreshWalk(side)
      BY <1>5
    <2>2. \A s \in Strategies : walks[<<1, s, w>>] = FreshWalk(1) /\ walks[<<-1, s, w>>] = FreshWalk(-1)
      BY <2>1, TradesAre
    <2>3. \A side \in Sides, s \in {"levels", "timed"} :
              PartOf(walks[<<side, s, w>>], walks[<<side, "baseline", w>>])
      BY <1>11, <2>1, TradesAre
    <2>4. \A side \in Sides : PlainWalk(side, walks[<<side, "baseline", w>>])
      BY <1>11, <2>1, TradesAre
    <2>5. Protected(walks[<<1, "baseline", w>>], walks[<<1, "breakeven", w>>], walks[<<1, "trailing", w>>])
      BY <1>12, <2>2, TradesAre
    <2>6. QED
      BY <1>10, <2>2, <2>3, <2>4, <2>5
  <1>14. WindowsSoFar
    <2>1. \A t \in Trades : ClosedByLast(walks[t], lastBar[t[3]])
      BY <1>3, <1>9, TradesAre DEF ClosedByLast
    <2>2. QED
      BY <1>6, <1>7, <2>1, TradesAre DEF WindowsSoFar, HonestSoFar, Phase2SoFar
  <1>15. QED
    BY <1>1, <1>8, <1>13, <1>14 DEF ExitsInv

-------------------------------------------------------------------------------
\* A bar, seen from a side.
BarFor(side, bar) == IF side = 1 THEN bar ELSE Mirror(bar)

\* What it does to one trade.
BarMoved(side, s, w, bar) ==
    walks'[<<side, s, w>>] = IF InWindow(w) THEN Walk(side, s, walks[<<side, s, w>>], BarFor(side, bar))
                                            ELSE walks[<<side, s, w>>]

LEMMA BarMoves ==
    ASSUME WalksAre, NEW bar \in ExitBars,
           walks' = [t \in Trades |->
                        IF InWindow(t[3])
                        THEN Walk(t[1], t[2], walks[t], IF t[1] = 1 THEN bar ELSE Mirror(bar))
                        ELSE walks[t]]
    PROVE  /\ bar \in ExitBarType /\ \A side \in Sides : BarFor(side, bar) \in ExitBarType
           /\ walks' \in [Trades -> WalkRecords]
           /\ \A side \in Sides, s \in Strategies, w \in {"wide", "honest"} : BarMoved(side, s, w, bar)
           /\ \A side \in Sides, w \in Windows : BarMoved(side, "baseline", w, bar)
  <1>1. bar \in ExitBarType
    BY ExitsAssumption DEF ExitBarType
  <1>2. \A side \in Sides : BarFor(side, bar) \in ExitBarType
    BY <1>1, MirrorBar DEF BarFor
  <1>3. \A side \in Sides, s \in Strategies, w \in Windows : <<side, s, w>> \in Trades => BarMoved(side, s, w, bar)
    BY DEF BarMoved, BarFor
  <1>4. ASSUME NEW t \in Trades
        PROVE  (IF InWindow(t[3])
                THEN Walk(t[1], t[2], walks[t], IF t[1] = 1 THEN bar ELSE Mirror(bar))
                ELSE walks[t]) \in WalkRecords
    <2>1. t[1] \in Sides /\ t[2] \in Strategies /\ walks[t] \in WalkRecords /\ minute \in Nat
      BY TradesAre DEF WalksAre
    <2>2. Walk(t[1], t[2], walks[t], BarFor(t[1], bar)) \in WalkRecords
      BY <1>2, <2>1, WalkTyped
    <2>3. QED
      BY <2>1, <2>2 DEF BarFor
  <1>5. walks' \in [Trades -> WalkRecords]
    BY <1>4
  <1>6. QED
    BY <1>1, <1>2, <1>3, <1>5, TradesAre

LEMMA BarKeepsAgreement ==
    ASSUME WalksAre, WalksAgree, WindowsSoFar, NEW bar \in ExitBars,
           walks' = [t \in Trades |->
                        IF InWindow(t[3])
                        THEN Walk(t[1], t[2], walks[t], IF t[1] = 1 THEN bar ELSE Mirror(bar))
                        ELSE walks[t]]
    PROVE  WalksAgree'
  <1> SUFFICES ASSUME NEW w \in {"wide", "honest"}
               PROVE  /\ \A s \in Strategies : MirrorOf(walks'[<<1, s, w>>], walks'[<<-1, s, w>>])
                      /\ \A side \in Sides, s \in {"levels", "timed"} :
                            PartOf(walks'[<<side, s, w>>], walks'[<<side, "baseline", w>>])
                      /\ \A side \in Sides : PlainWalk(side, walks'[<<side, "baseline", w>>])
                      /\ Protected(walks'[<<1, "baseline", w>>], walks'[<<1, "breakeven", w>>],
                                   walks'[<<1, "trailing", w>>])
    BY DEF WalksAgree
  <1>1. /\ bar \in ExitBarType /\ \A side \in Sides : BarFor(side, bar) \in ExitBarType
        /\ \A side \in Sides, s \in Strategies : BarMoved(side, s, w, bar)
    BY BarMoves
  <1>2. /\ \A s \in Strategies : MirrorOf(walks[<<1, s, w>>], walks[<<-1, s, w>>])
        /\ \A side \in Sides, s \in {"levels", "timed"} : PartOf(walks[<<side, s, w>>], walks[<<side, "baseline", w>>])
        /\ \A side \in Sides : PlainWalk(side, walks[<<side, "baseline", w>>])
        /\ Protected(walks[<<1, "baseline", w>>], walks[<<1, "breakeven", w>>], walks[<<1, "trailing", w>>])
    BY DEF WalksAgree
  <1>3. \A side \in Sides, s \in Strategies : walks[<<side, s, w>>] \in WalkRecords
    BY TradesAre DEF WalksAre
  <1>4. minute \in Nat /\ \A c \in lastBar[w] : c.m < minute /\ c.m \in Nat
    <2>1. w \in Windows /\ lastBar[w] \in SUBSET [close: Int, m: Nat]
      BY TradesAre DEF WalksAre
    <2>2. \A c \in lastBar[w] : c.m \in Nat
      BY <2>1
    <2>3. QED
      BY <2>1, <2>2 DEF WalksAre, WindowsSoFar
  <1>5. {"levels", "timed"} \subseteq Strategies /\ "baseline" \in Strategies /\ "breakeven" \in Strategies
        /\ "trailing" \in Strategies /\ 1 \in Sides /\ -1 \in Sides
    BY TradesAre
  <1>6. CASE ~InWindow(w)
    <2>1. \A side \in Sides, s \in Strategies : walks'[<<side, s, w>>] = walks[<<side, s, w>>]
      BY <1>1, <1>6 DEF BarMoved
    <2>2. QED
      BY <1>2, <1>5, <2>1
  <1>7. CASE InWindow(w)
    <2>1. \A side \in Sides, s \in Strategies :
             walks'[<<side, s, w>>] = Walk(side, s, walks[<<side, s, w>>], BarFor(side, bar))
      BY <1>1, <1>7 DEF BarMoved
    <2>2. BarFor(1, bar) = bar /\ BarFor(-1, bar) = Mirror(bar)
      BY DEF BarFor
    <2>3. ASSUME NEW s \in Strategies PROVE MirrorOf(walks'[<<1, s, w>>], walks'[<<-1, s, w>>])
      <3>1. walks'[<<1, s, w>>] = Walk(1, s, walks[<<1, s, w>>], bar)
        BY <1>5, <2>1, <2>2
      <3>2. walks'[<<-1, s, w>>] = Walk(-1, s, walks[<<-1, s, w>>], Mirror(bar))
        BY <1>5, <2>1, <2>2
      <3>3. PICK x \in WalkRecords, y \in WalkRecords : x = walks[<<1, s, w>>] /\ y = walks[<<-1, s, w>>]
        BY <1>3, <1>5
      <3>4. MirrorOf(x, y)
        BY <1>2, <3>3
      <3>5. MirrorOf(Walk(1, s, x, bar), Walk(-1, s, y, Mirror(bar)))
        BY <1>1, <1>4, <3>4, MirrorWalk
      <3>6. QED
        BY <3>1, <3>2, <3>3, <3>5
    <2>4. ASSUME NEW side \in Sides, NEW s \in {"levels", "timed"}
          PROVE  /\ PartOf(walks'[<<side, s, w>>], walks'[<<side, "baseline", w>>])
                 /\ PlainWalk(side, walks'[<<side, "baseline", w>>])
      <3>1. PICK x \in WalkRecords, b \in WalkRecords : x = walks[<<side, s, w>>] /\ b = walks[<<side, "baseline", w>>]
        BY <1>3, <1>5
      <3>2. PartOf(x, b) /\ PlainWalk(side, b)
        BY <1>2, <3>1
      <3>3. walks'[<<side, s, w>>] = Walk(side, s, x, BarFor(side, bar))
        BY <1>5, <2>1, <3>1
      <3>4. walks'[<<side, "baseline", w>>] = Walk(side, "baseline", b, BarFor(side, bar))
        BY <1>5, <2>1, <3>1
      <3>5. BarFor(side, bar) \in ExitBarType
        BY <1>1
      <3>6. QED
        BY <1>4, <3>2, <3>3, <3>4, <3>5, PartWalk
    <2>5. Protected(walks'[<<1, "baseline", w>>], walks'[<<1, "breakeven", w>>], walks'[<<1, "trailing", w>>])
      <3>1. PICK b \in WalkRecords, e \in WalkRecords, t \in WalkRecords :
               b = walks[<<1, "baseline", w>>] /\ e = walks[<<1, "breakeven", w>>] /\ t = walks[<<1, "trailing", w>>]
        BY <1>3, <1>5
      <3>2. Protected(b, e, t)
        BY <1>2, <3>1
      <3>3. ClosedByLast(b, lastBar[w]) /\ ClosedByLast(e, lastBar[w]) /\ ClosedByLast(t, lastBar[w])
        <4>1. \A s \in Strategies : <<1, s, w>> \in Trades
          BY <1>5, TradesAre
        <4>2. \A s \in Strategies : ClosedByLast(walks[<<1, s, w>>], lastBar[w])
          BY <4>1 DEF WindowsSoFar
        <4>3. QED
          BY <1>5, <3>1, <4>2
      <3>4. /\ b.reason # "open" => b.at <= minute
            /\ e.reason # "open" => e.at <= minute
            /\ t.reason # "open" => t.at <= minute
        <4>1. b.at \in Int /\ e.at \in Int /\ t.at \in Int
          BY DEF WalkRecords
        <4>2. QED
          BY <1>4, <3>3, <4>1 DEF ClosedByLast
      <3>5. Protected(Walk(1, "baseline", b, bar), Walk(1, "breakeven", e, bar), Walk(1, "trailing", t, bar))
        BY <1>1, <1>4, <3>2, <3>4, ProtectWalk
      <3>6. QED
        BY <1>5, <2>1, <2>2, <3>1, <3>5
    <2>6. QED
      BY <2>3, <2>4, <2>5
  <1>8. QED
    BY <1>6, <1>7

LEMMA BarKeepsBars ==
    ASSUME WalksAre, WindowsSoFar, NEW bar \in ExitBars, minute' = minute + 1,
           lastBar' = [w \in Windows |-> IF InWindow(w) THEN {[close |-> bar.close, m |-> minute]}
                                                        ELSE lastBar[w]]
    PROVE  /\ minute' \in Nat /\ lastBar' \in [Windows -> SUBSET [close: Int, m: Nat]]
           /\ \A w \in Windows : \A c, d \in lastBar'[w] : c = d
           /\ \A w \in Windows : \A c \in lastBar'[w] : c.m < minute'
           /\ \A w \in Windows : ~InWindow(w) => lastBar'[w] = lastBar[w]
           /\ \A w \in Windows : InWindow(w) => lastBar'[w] = {[close |-> bar.close, m |-> minute]}
  <1>1. bar.close \in Int /\ minute \in Nat
    BY ExitsAssumption DEF WalksAre
  <1>2. PICK new : new = [close |-> bar.close, m |-> minute]
    OBVIOUS
  <1>3. new \in [close: Int, m: Nat] /\ new.m = minute
    BY <1>1, <1>2
  <1>4. \A w \in Windows : lastBar'[w] = IF InWindow(w) THEN {new} ELSE lastBar[w]
    BY <1>2
  <1>5. \A w \in Windows : lastBar[w] \in SUBSET [close: Int, m: Nat]
    BY DEF WalksAre
  <1>6. \A w \in Windows : lastBar'[w] \in SUBSET [close: Int, m: Nat]
    BY <1>3, <1>4, <1>5
  <1>7. lastBar' \in [Windows -> SUBSET [close: Int, m: Nat]]
    BY <1>6
  <1>8. \A w \in Windows : \A c, d \in lastBar'[w] : c = d
    BY <1>4 DEF WalksAre
  <1>9. \A w \in Windows : \A c \in lastBar'[w] : c.m < minute'
    <2> TAKE w \in Windows
    <2>1. CASE InWindow(w)
      BY <1>1, <1>3, <1>4, <2>1
    <2>2. CASE ~InWindow(w)
      <3>1. \A c \in lastBar[w] : c.m < minute /\ c.m \in Nat
        BY <1>5 DEF WindowsSoFar
      <3>2. QED
        BY <1>1, <1>4, <2>2, <3>1
    <2>3. QED
      BY <2>1, <2>2
  <1>10. QED
    BY <1>1, <1>2, <1>4, <1>7, <1>8, <1>9

\* What one bar may do to a walk: nothing, unless it is open; then it may end it at this minute.
LEMMA WalkEnds ==
    ASSUME NEW side \in Sides, NEW strategy \in Strategies, NEW x \in WalkRecords, NEW bar \in ExitBarType,
           minute \in Nat, NEW y, y = Walk(side, strategy, x, bar)
    PROVE  /\ x.reason # "open" => y = x
           /\ x.reason = "open" => y.reason = "open" \/ y.at = minute
           /\ strategy = "baseline" /\ y.reason = "open" => y = x
  <1>1. PICK hit : hit = Hit(side, bar, TakeProfit(side), x.sl)
    OBVIOUS
  <1>2. CASE x.reason # "open"
    BY <1>2, WalkClosed
  <1>3. CASE x.reason = "open" /\ hit # "none"
    <2>1. WalkStopped(side, strategy, x, y, hit)
      BY <1>1, <1>3, WalkHit
    <2>2. hit \in {"sl", "tp"} /\ "open" \notin Strategies
      BY <1>1, <1>3 DEF Hit, Strategies
    <2>3. y.at = minute /\ y.reason # "open"
      BY <2>1, <2>2 DEF WalkStopped
    <2>4. QED
      BY <1>3, <2>3
  <1>4. CASE x.reason = "open" /\ hit = "none"
    <2>1. y.reason = "open"
      BY <1>1, <1>4, WalkOpen
    <2>2. strategy = "baseline" => y = x
      BY <1>1, <1>4, WalkBaseline
    <2>3. QED
      BY <1>4, <2>1, <2>2
  <1>5. QED
    BY <1>2, <1>3, <1>4

\* A closed walk was closed before this bar.
LEMMA ClosedBefore ==
    ASSUME WalksAre, WindowsSoFar, NEW t \in Trades
    PROVE  walks[t] \in WalkRecords /\ walks[t].at \in Int /\ (walks[t].reason # "open" => walks[t].at < minute)
  <1>1. t[3] \in Windows /\ walks[t] \in WalkRecords /\ walks[t].at \in Int /\ minute \in Nat
    BY TradesAre DEF WalksAre, WalkRecords
  <1>2. ASSUME walks[t].reason # "open" PROVE walks[t].at < minute
    <2>1. PICK c \in lastBar[t[3]] : walks[t].at <= c.m
      BY <1>2 DEF WindowsSoFar, ClosedByLast
    <2>2. c.m < minute /\ c.m \in Nat
      BY <1>1 DEF WindowsSoFar, WalksAre
    <2>3. QED
      BY <1>1, <2>1, <2>2
  <1>3. QED
    BY <1>1, <1>2

LEMMA BarKeepsWindows ==
    ASSUME WalksAre, WalksAgree, WindowsSoFar, NEW bar \in ExitBars, minute' = minute + 1,
           walks' = [t \in Trades |->
                        IF InWindow(t[3])
                        THEN Walk(t[1], t[2], walks[t], IF t[1] = 1 THEN bar ELSE Mirror(bar))
                        ELSE walks[t]],
           lastBar' = [w \in Windows |-> IF InWindow(w) THEN {[close |-> bar.close, m |-> minute]}
                                                        ELSE lastBar[w]]
    PROVE  WindowsSoFar'
  <1>1. minute \in Nat /\ Horizon \in Nat
    BY LevelsAre DEF WalksAre
  <1>2. PICK new : new = [close |-> bar.close, m |-> minute]
    OBVIOUS
  <1>3. new.m = minute
    BY <1>2
  <1>4. /\ \A w \in Windows : \A c \in lastBar'[w] : c.m < minute'
        /\ \A w \in Windows : ~InWindow(w) => lastBar'[w] = lastBar[w]
        /\ \A w \in Windows : InWindow(w) => lastBar'[w] = {new}
    BY <1>2, BarKeepsBars
  <1>5. bar \in ExitBarType /\ \A side \in Sides : BarFor(side, bar) \in ExitBarType
    BY BarMoves
  <1>6. \A t \in Trades : ClosedByLast(walks'[t], lastBar'[t[3]])
    <2> TAKE t \in Trades
    <2>1. /\ t[1] \in Sides /\ t[2] \in Strategies /\ t[3] \in Windows
          /\ walks[t] \in WalkRecords /\ walks[t].at \in Int /\ (walks[t].reason # "open" => walks[t].at < minute)
      BY TradesAre, ClosedBefore
    <2>2. CASE ~InWindow(t[3])
      <3>1. walks'[t] = walks[t] /\ lastBar'[t[3]] = lastBar[t[3]]
        BY <1>4, <2>1, <2>2
      <3>2. QED
        BY <3>1 DEF WindowsSoFar
    <2>3. CASE InWindow(t[3])
      <3>1. walks'[t] = Walk(t[1], t[2], walks[t], BarFor(t[1], bar)) /\ lastBar'[t[3]] = {new}
        BY <1>4, <2>1, <2>3 DEF BarFor
      <3>2. PICK x \in WalkRecords : x = walks[t]
        BY <2>1
      <3>3. PICK y : y = walks'[t]
        OBVIOUS
      <3>4. y = Walk(t[1], t[2], x, BarFor(t[1], bar)) /\ BarFor(t[1], bar) \in ExitBarType
        BY <1>5, <2>1, <3>1, <3>2, <3>3
      <3>5. y.reason # "open" => y = x \/ y.at = minute
        BY <1>1, <2>1, <3>4, WalkEnds
      <3>6. y.reason # "open" => y.at <= minute
        <4>1. CASE y = x
          BY <1>1, <2>1, <3>2, <4>1
        <4>2. CASE y # x
          BY <1>1, <3>5, <4>2
        <4>3. QED
          BY <4>1, <4>2
      <3>7. QED
        BY <1>3, <3>1, <3>3, <3>6 DEF ClosedByLast
    <2>4. QED
      BY <2>2, <2>3
  <1>7. /\ InWindow("wide") <=> minute <= Horizon \/ \A c \in lastBar["wide"] : c.m <= Horizon
        /\ InWindow("honest") <=> minute > 0 /\ minute <= Horizon
        /\ InWindow("phase2") <=> \A c \in lastBar["phase2"] : c.m < Horizon
    BY DEF InWindow, InPhase2
  <1>8. {"wide", "honest", "phase2"} \subseteq Windows
    BY TradesAre
  <1>9. ASSUME NEW c \in lastBar'["wide"], 1 <= c.m, c.m <= Horizon PROVE lastBar'["honest"] = lastBar'["wide"]
    <2>1. CASE InWindow("wide")
      <3>1. c = new /\ minute >= 1 /\ minute <= Horizon
        BY <1>3, <1>4, <1>8, <1>9, <2>1
      <3>2. InWindow("honest")
        BY <1>1, <1>7, <3>1
      <3>3. QED
        BY <1>4, <1>8, <2>1, <3>2
    <2>2. CASE ~InWindow("wide")
      <3>1. ~(minute <= Horizon)
        BY <1>7, <2>2
      <3>2. ~InWindow("honest")
        BY <1>7, <3>1
      <3>3. QED
        BY <1>4, <1>8, <1>9, <2>2, <3>2 DEF WindowsSoFar
    <2>3. QED
      BY <2>1, <2>2
  <1>10. ASSUME NEW side \in Sides
         PROVE  /\ HonestSoFar(walks'[<<side, "baseline", "wide">>], walks'[<<side, "baseline", "honest">>])
                /\ Phase2SoFar(walks[<<side, "baseline", "wide">>], walks[<<side, "baseline", "phase2">>],
                               lastBar["wide"] = lastBar["phase2"])'
    <2>1. PICK wide, honest, phase2 : /\ wide = walks[<<side, "baseline", "wide">>]
                                      /\ honest = walks[<<side, "baseline", "honest">>]
                                      /\ phase2 = walks[<<side, "baseline", "phase2">>]
      OBVIOUS
    <2>2. PICK wide1, honest1, phase21 : /\ wide1 = walks'[<<side, "baseline", "wide">>]
                                         /\ honest1 = walks'[<<side, "baseline", "honest">>]
                                         /\ phase21 = walks'[<<side, "baseline", "phase2">>]
      OBVIOUS
    <2>3. PICK b \in ExitBarType : b = BarFor(side, bar)
      BY <1>5
    <2>4. \A w \in Windows : <<side, "baseline", w>> \in Trades /\ BarMoved(side, "baseline", w, bar)
      BY TradesAre, BarMoves
    <2>5. /\ wide1 = IF InWindow("wide") THEN Walk(side, "baseline", wide, b) ELSE wide
          /\ honest1 = IF InWindow("honest") THEN Walk(side, "baseline", honest, b) ELSE honest
          /\ phase21 = IF InWindow("phase2") THEN Walk(side, "baseline", phase2, b) ELSE phase2
      BY <1>8, <2>1, <2>2, <2>3, <2>4 DEF BarMoved
    <2>6. /\ wide \in WalkRecords /\ honest \in WalkRecords /\ phase2 \in WalkRecords
          /\ wide.at \in Int /\ (wide.reason # "open" => wide.at < minute)
      BY <1>8, <2>1, <2>4, ClosedBefore
    <2>7. /\ HonestSoFar(wide, honest)
          /\ Phase2SoFar(wide, phase2, lastBar["wide"] = lastBar["phase2"])
      BY <2>1 DEF WindowsSoFar
    <2>8. "baseline" \in Strategies
      BY TradesAre
    <2>9. \A x \in WalkRecords : LET y == Walk(side, "baseline", x, b) IN
             /\ x.reason # "open" => y = x
             /\ x.reason = "open" => y.reason = "open" \/ y.at = minute
             /\ y.reason = "open" => y = x
      BY <1>1, <2>8, WalkEnds
    <2>10. /\ wide.reason # "open" => wide1 = wide
           /\ wide1 = wide \/ (wide1.reason # "open" /\ wide1.at = minute)
           /\ honest1 = honest \/ (honest1.reason # "open" /\ honest1.at = minute)
           /\ phase2.reason # "open" => phase21 = phase2
      BY <2>5, <2>6, <2>9
    <2>11. HonestSoFar(wide1, honest1)
      <3>1. CASE minute = 0
        <4>1. honest1 = honest
          BY <1>7, <2>5, <3>1
        <4>2. CASE wide1 = wide
          BY <2>7, <4>1, <4>2
        <4>3. CASE wide1 # wide
          BY <2>10, <3>1, <4>3 DEF HonestSoFar
        <4>4. QED
          BY <4>2, <4>3
      <3>2. CASE minute # 0 /\ minute <= Horizon
        <4>1. InWindow("wide") /\ InWindow("honest")
          BY <1>1, <1>7, <3>2
        <4>2. CASE wide = honest
          BY <2>5, <4>1, <4>2 DEF HonestSoFar
        <4>3. CASE wide.reason # "open" /\ wide.at = 0
          BY <2>10, <4>3 DEF HonestSoFar
        <4>4. CASE wide.reason # "open" /\ wide.at > Horizon
          BY <1>1, <2>6, <3>2, <4>4
        <4>5. QED
          BY <2>7, <4>2, <4>3, <4>4 DEF HonestSoFar
      <3>3. CASE minute > Horizon
        <4>1. honest1 = honest
          BY <1>1, <1>7, <2>5, <3>3
        <4>2. CASE wide1 = wide
          BY <2>7, <4>1, <4>2
        <4>3. CASE wide1 # wide
          <5>1. wide.reason = "open" /\ wide1.reason # "open" /\ wide1.at = minute
            BY <2>10, <4>3
          <5>2. honest = wide
            BY <2>7, <5>1 DEF HonestSoFar
          <5>3. QED
            BY <3>3, <4>1, <5>1, <5>2 DEF HonestSoFar
        <4>4. QED
          BY <4>2, <4>3
      <3>4. QED
        BY <1>1, <3>1, <3>2, <3>3
    <2>12. Phase2SoFar(wide1, phase21, lastBar["wide"] = lastBar["phase2"])'
      <3>1. CASE lastBar["wide"] = lastBar["phase2"] /\ wide = phase2
        <4>1. CASE InWindow("phase2")
          <5>4. \A c \in lastBar["phase2"] : c.m \in Nat /\ c.m < Horizon
            BY <1>7, <1>8, <4>1 DEF WalksAre
          <5>1. InWindow("wide")
            BY <1>1, <1>7, <3>1, <5>4
          <5>2. lastBar'["wide"] = lastBar'["phase2"] /\ wide1 = phase21
            BY <1>4, <1>8, <2>5, <3>1, <4>1, <5>1
          <5>3. QED
            BY <5>2 DEF Phase2SoFar
        <4>2. CASE ~InWindow("phase2")
          <5>1. phase21 = phase2 /\ lastBar'["phase2"] = lastBar["phase2"]
            BY <1>4, <1>8, <2>5, <4>2
          <5>2. PICK c \in lastBar["phase2"] : ~(c.m < Horizon)
            BY <1>7, <4>2
          <5>3. c.m \in Nat /\ c.m < minute
            BY <1>8 DEF WalksAre, WindowsSoFar
          <5>4. CASE InWindow("wide")
            <6>1. c.m = Horizon
              BY <1>1, <1>7, <3>1, <5>2, <5>3, <5>4
            <6>2. \E d \in lastBar'["phase2"] : d.m = Horizon
              BY <5>1, <6>1
            <6>3. wide1 = phase21 \/ phase21.reason = "open"
              BY <2>10, <3>1, <5>1
            <6>4. QED
              BY <6>2, <6>3 DEF Phase2SoFar
          <5>5. CASE ~InWindow("wide")
            <6>1. wide1 = phase21 /\ lastBar'["wide"] = lastBar'["phase2"]
              BY <1>4, <1>8, <2>5, <3>1, <5>1, <5>5
            <6>2. QED
              BY <6>1 DEF Phase2SoFar
          <5>6. QED
            BY <5>4, <5>5
        <4>3. QED
          BY <4>1, <4>2
      <3>2. CASE (\E c \in lastBar["phase2"] : c.m = Horizon) /\ (wide = phase2 \/ phase2.reason = "open")
        <4>1. ~InWindow("phase2")
          BY <1>1, <1>7, <3>2
        <4>2. phase21 = phase2 /\ lastBar'["phase2"] = lastBar["phase2"]
          BY <1>4, <1>8, <2>5, <4>1
        <4>3. wide1 = phase21 \/ phase21.reason = "open"
          BY <2>10, <3>2, <4>2
        <4>4. QED
          BY <3>2, <4>2, <4>3 DEF Phase2SoFar
      <3>3. QED
        BY <2>7, <3>1, <3>2 DEF Phase2SoFar
    <2>13. QED
      BY <2>2, <2>11, <2>12 DEF Phase2SoFar
  <1>11. QED
    BY <1>4, <1>6, <1>9, <1>10 DEF WindowsSoFar

-------------------------------------------------------------------------------
\* The end of the bars, for every trade.
LEMMA EndMoves ==
    ASSUME WalksAre, walks' = [t \in Trades |-> Timeout(t[1], walks[t], lastBar[t[3]])]
    PROVE  /\ walks' \in [Trades -> WalkRecords]
           /\ \A side \in Sides, s \in Strategies, w \in {"wide", "honest"} :
                 walks'[<<side, s, w>>] = Timeout(side, walks[<<side, s, w>>], lastBar[w])
           /\ \A side \in Sides, w \in Windows :
                 walks'[<<side, "baseline", w>>] = Timeout(side, walks[<<side, "baseline", w>>], lastBar[w])
  <1>1. \A side \in Sides, s \in Strategies, w \in Windows : <<side, s, w>> \in Trades =>
            walks'[<<side, s, w>>] = Timeout(side, walks[<<side, s, w>>], lastBar[w])
    OBVIOUS
  <1>2. ASSUME NEW t \in Trades PROVE Timeout(t[1], walks[t], lastBar[t[3]]) \in WalkRecords
    <2>1. t[1] \in Sides /\ walks[t] \in WalkRecords /\ lastBar[t[3]] \in SUBSET [close: Int, m: Nat]
      BY TradesAre DEF WalksAre
    <2>2. TimedOut(t[1], walks[t], Timeout(t[1], walks[t], lastBar[t[3]]), lastBar[t[3]])
      BY <2>1, TimeoutIs
    <2>3. QED
      BY <2>2 DEF TimedOut
  <1>3. walks' \in [Trades -> WalkRecords]
    BY <1>2
  <1>4. QED
    BY <1>1, <1>3, TradesAre

LEMMA EndKeepsAgreement ==
    ASSUME WalksAre, WalksAgree, WindowsSoFar,
           walks' = [t \in Trades |-> Timeout(t[1], walks[t], lastBar[t[3]])]
    PROVE  WalksAgree'
  <1> SUFFICES ASSUME NEW w \in {"wide", "honest"}
               PROVE  /\ \A s \in Strategies : MirrorOf(walks'[<<1, s, w>>], walks'[<<-1, s, w>>])
                      /\ \A side \in Sides, s \in {"levels", "timed"} :
                            PartOf(walks'[<<side, s, w>>], walks'[<<side, "baseline", w>>])
                      /\ \A side \in Sides : PlainWalk(side, walks'[<<side, "baseline", w>>])
                      /\ Protected(walks'[<<1, "baseline", w>>], walks'[<<1, "breakeven", w>>],
                                   walks'[<<1, "trailing", w>>])
    BY DEF WalksAgree
  <1>1. \A side \in Sides, s \in Strategies :
            walks'[<<side, s, w>>] = Timeout(side, walks[<<side, s, w>>], lastBar[w])
    BY EndMoves
  <1>2. /\ \A s \in Strategies : MirrorOf(walks[<<1, s, w>>], walks[<<-1, s, w>>])
        /\ \A side \in Sides, s \in {"levels", "timed"} : PartOf(walks[<<side, s, w>>], walks[<<side, "baseline", w>>])
        /\ \A side \in Sides : PlainWalk(side, walks[<<side, "baseline", w>>])
        /\ Protected(walks[<<1, "baseline", w>>], walks[<<1, "breakeven", w>>], walks[<<1, "trailing", w>>])
    BY DEF WalksAgree
  <1>3. \A side \in Sides, s \in Strategies : walks[<<side, s, w>>] \in WalkRecords
    BY TradesAre DEF WalksAre
  <1>4. PICK last \in SUBSET [close: Int, m: Nat] : last = lastBar[w] /\ \A c, d \in last : c = d
    BY TradesAre DEF WalksAre
  <1>5. {"levels", "timed"} \subseteq Strategies /\ "baseline" \in Strategies /\ "breakeven" \in Strategies
        /\ "trailing" \in Strategies /\ 1 \in Sides /\ -1 \in Sides
    BY TradesAre
  <1>6. ASSUME NEW s \in Strategies PROVE MirrorOf(walks'[<<1, s, w>>], walks'[<<-1, s, w>>])
    <2>1. PICK x \in WalkRecords, y \in WalkRecords : x = walks[<<1, s, w>>] /\ y = walks[<<-1, s, w>>]
      BY <1>3, <1>5
    <2>2. MirrorOf(x, y)
      BY <1>2, <2>1
    <2>3. MirrorOf(Timeout(1, x, last), Timeout(-1, y, last))
      BY <1>4, <2>2, MirrorTimeout
    <2>4. QED
      BY <1>1, <1>4, <1>5, <2>1, <2>3
  <1>7. ASSUME NEW side \in Sides, NEW s \in {"levels", "timed"}
        PROVE  /\ PartOf(walks'[<<side, s, w>>], walks'[<<side, "baseline", w>>])
               /\ PlainWalk(side, walks'[<<side, "baseline", w>>])
    <2>1. PICK x \in WalkRecords, b \in WalkRecords : x = walks[<<side, s, w>>] /\ b = walks[<<side, "baseline", w>>]
      BY <1>3, <1>5
    <2>2. PartOf(x, b) /\ PlainWalk(side, b)
      BY <1>2, <2>1
    <2>3. PartOf(Timeout(side, x, last), Timeout(side, b, last)) /\ PlainWalk(side, Timeout(side, b, last))
      BY <1>4, <2>2, PartTimeout
    <2>4. QED
      BY <1>1, <1>4, <1>5, <2>1, <2>3
  <1>8. Protected(walks'[<<1, "baseline", w>>], walks'[<<1, "breakeven", w>>], walks'[<<1, "trailing", w>>])
    <2>1. PICK b \in WalkRecords, e \in WalkRecords, t \in WalkRecords :
               b = walks[<<1, "baseline", w>>] /\ e = walks[<<1, "breakeven", w>>] /\ t = walks[<<1, "trailing", w>>]
      BY <1>3, <1>5
    <2>2. Protected(b, e, t)
      BY <1>2, <2>1
    <2>3. ClosedByLast(e, last) /\ ClosedByLast(t, last)
      <3>1. \A s \in Strategies : <<1, s, w>> \in Trades
        BY <1>5, TradesAre
      <3>2. \A s \in Strategies : ClosedByLast(walks[<<1, s, w>>], lastBar[w])
        BY <3>1 DEF WindowsSoFar
      <3>3. QED
        BY <1>4, <1>5, <2>1, <3>2
    <2>4. Protected(Timeout(1, b, last), Timeout(1, e, last), Timeout(1, t, last))
      BY <1>4, <2>2, <2>3, ProtectTimeout
    <2>5. QED
      BY <1>1, <1>4, <1>5, <2>1, <2>4
  <1>9. QED
    BY <1>6, <1>7, <1>8

LEMMA EndTellsWindows ==
    ASSUME WalksAre, WindowsSoFar, walks' = [t \in Trades |-> Timeout(t[1], walks[t], lastBar[t[3]])]
    PROVE  WindowsDifferAtTheEdges'
  <1> SUFFICES ASSUME NEW side \in Sides, NEW wide, NEW honest, NEW phase2,
                      wide = walks'[<<side, "baseline", "wide">>], honest = walks'[<<side, "baseline", "honest">>],
                      phase2 = walks'[<<side, "baseline", "phase2">>]
               PROVE  /\ wide # honest =>
                            wide.at = 0 \/ (wide.at > Horizon /\ honest.reason \in {"time", "no_bars"})
                      /\ wide # phase2 => phase2.reason = "time" /\ phase2.at = Horizon
    BY DEF WindowsDifferAtTheEdges
  <1>1. PICK wide0, honest0, phase20 : /\ wide0 = walks[<<side, "baseline", "wide">>]
                                       /\ honest0 = walks[<<side, "baseline", "honest">>]
                                       /\ phase20 = walks[<<side, "baseline", "phase2">>]
    OBVIOUS
  <1>2. \A w \in Windows : <<side, "baseline", w>> \in Trades /\ lastBar[w] \in SUBSET [close: Int, m: Nat]
    BY TradesAre DEF WalksAre
  <1>3. {"wide", "honest", "phase2"} \subseteq Windows
    BY TradesAre
  <1>4. wide0 \in WalkRecords /\ honest0 \in WalkRecords /\ phase20 \in WalkRecords
    BY <1>1, <1>2, <1>3 DEF WalksAre
  <1>5. PICK inWide, inHonest, inPhase2 : inWide = lastBar["wide"] /\ inHonest = lastBar["honest"] /\ inPhase2 = lastBar["phase2"]
    OBVIOUS
  <1>6. /\ inWide \in SUBSET [close: Int, m: Nat] /\ \A c, d \in inWide : c = d
        /\ inHonest \in SUBSET [close: Int, m: Nat] /\ \A c, d \in inHonest : c = d
        /\ inPhase2 \in SUBSET [close: Int, m: Nat] /\ \A c, d \in inPhase2 : c = d
    BY <1>2, <1>3, <1>5 DEF WalksAre
  <1>7. /\ wide = Timeout(side, wide0, inWide) /\ honest = Timeout(side, honest0, inHonest)
        /\ phase2 = Timeout(side, phase20, inPhase2)
    BY <1>1, <1>3, <1>5, EndMoves
  <1>8. /\ TimedOut(side, wide0, wide, inWide) /\ TimedOut(side, honest0, honest, inHonest)
        /\ TimedOut(side, phase20, phase2, inPhase2)
    BY <1>4, <1>6, <1>7, TimeoutIs
  <1>9. /\ HonestSoFar(wide0, honest0)
        /\ Phase2SoFar(wide0, phase20, inWide = inPhase2)
    BY <1>1, <1>5 DEF WindowsSoFar
  <1>10. ASSUME wide # honest
         PROVE  wide.at = 0 \/ (wide.at > Horizon /\ honest.reason \in {"time", "no_bars"})
    <2>1. ASSUME honest0.reason = "open" PROVE honest.reason \in {"time", "no_bars"}
      <3>1. CASE inHonest = {}
        BY <1>8, <2>1, <3>1 DEF TimedOut
      <3>2. CASE inHonest # {}
        <4>1. PICK c \in inHonest : TRUE
          BY <3>2
        <4>2. QED
          BY <1>6, <1>8, <2>1, <4>1 DEF TimedOut
      <3>3. QED
        BY <3>1, <3>2
    <2>2. CASE wide0.reason # "open" /\ wide0.at = 0
      BY <1>8, <2>2 DEF TimedOut
    <2>3. CASE wide0.reason # "open" /\ wide0.at > Horizon /\ honest0.reason = "open"
      <3>1. wide = wide0
        BY <1>8, <2>3 DEF TimedOut
      <3>2. QED
        BY <2>1, <2>3, <3>1
    <2>4. CASE wide0 = honest0
      <3>1. wide0.reason = "open"
        <4>1. wide0.reason # "open" => wide = wide0
          BY <1>8 DEF TimedOut
        <4>2. honest0.reason # "open" => honest = honest0
          BY <1>8 DEF TimedOut
        <4>3. QED
          BY <1>10, <2>4, <4>1, <4>2
      <3>2. inWide # inHonest
        BY <1>7, <1>10, <2>4
      <3>3. CASE inWide = {}
        BY <1>8, <3>1, <3>3 DEF TimedOut
      <3>4. CASE inWide # {}
        <4>1. PICK c \in inWide : TRUE
          BY <3>4
        <4>2. wide.at = c.m /\ c.m \in Nat
          BY <1>6, <1>8, <3>1, <4>1 DEF TimedOut
        <4>3. ~(1 <= c.m /\ c.m <= Horizon)
          BY <1>5, <3>2, <4>1 DEF WindowsSoFar
        <4>4. honest.reason \in {"time", "no_bars"}
          BY <2>1, <2>4, <3>1
        <4>5. QED
          BY <4>2, <4>3, <4>4, LevelsAre
      <3>5. QED
        BY <3>3, <3>4
    <2>5. QED
      BY <1>9, <2>2, <2>3, <2>4 DEF HonestSoFar
  <1>11. ASSUME wide # phase2 PROVE phase2.reason = "time" /\ phase2.at = Horizon
    <2>1. ~(inWide = inPhase2 /\ wide0 = phase20)
      BY <1>7, <1>11
    <2>2. (\E c \in inPhase2 : c.m = Horizon) /\ (wide0 = phase20 \/ phase20.reason = "open")
      BY <1>5, <1>9, <2>1 DEF Phase2SoFar
    <2>3. phase20.reason = "open"
      <3>1. CASE wide0 = phase20 /\ phase20.reason # "open"
        <4>1. wide = wide0
          BY <1>8, <3>1 DEF TimedOut
        <4>2. phase2 = phase20
          BY <1>8, <3>1 DEF TimedOut
        <4>3. QED
          BY <1>11, <3>1, <4>1, <4>2
      <3>2. QED
        BY <2>2, <3>1
    <2>4. PICK c \in inPhase2 : c.m = Horizon
      BY <2>2
    <2>5. QED
      BY <1>6, <1>8, <2>3, <2>4 DEF TimedOut
  <1>12. QED
    BY <1>10, <1>11

-------------------------------------------------------------------------------
LEMMA ExitsStep ==
    ASSUME ExitsInv, [ExitsNext]_exitsVars PROVE ExitsInv'
  <1>1. WalksAre /\ WalksAgree /\ (~ended => WindowsSoFar) /\ (ended => minute > LastMinute /\ WindowsDifferAtTheEdges)
    BY DEF ExitsInv
  <1>2. minute \in Nat /\ LastMinute \in Nat
    BY <1>1, LevelsAre DEF WalksAre
  <1>3. CASE Bar
    <2>1. PICK bar \in ExitBars :
             /\ minute <= LastMinute /\ minute' = minute + 1
             /\ walks' = [t \in Trades |->
                             IF InWindow(t[3])
                             THEN Walk(t[1], t[2], walks[t], IF t[1] = 1 THEN bar ELSE Mirror(bar))
                             ELSE walks[t]]
             /\ lastBar' = [w \in Windows |-> IF InWindow(w) THEN {[close |-> bar.close, m |-> minute]}
                                                             ELSE lastBar[w]]
             /\ UNCHANGED ended
      BY <1>3 DEF Bar
    <2>2. ~ended /\ ~ended' /\ WindowsSoFar
      BY <1>1, <1>2, <2>1
    <2>3. WalksAre'
      BY <1>1, <2>1, <2>2, BarMoves, BarKeepsBars DEF WalksAre
    <2>4. WalksAgree'
      BY <1>1, <2>1, <2>2, BarKeepsAgreement
    <2>5. WindowsSoFar'
      BY <1>1, <2>1, <2>2, BarKeepsWindows
    <2>6. QED
      BY <2>2, <2>3, <2>4, <2>5 DEF ExitsInv
  <1>4. CASE Gap
    <2>1. minute <= LastMinute /\ minute' = minute + 1 /\ UNCHANGED <<walks, lastBar, ended>>
      BY <1>4 DEF Gap
    <2>2. ~ended /\ ~ended' /\ WindowsSoFar
      BY <1>1, <1>2, <2>1
    <2>3. WalksAre' /\ WalksAgree'
      BY <1>1, <1>2, <2>1 DEF WalksAre, WalksAgree
    <2>4. \A w \in Windows : \A c \in lastBar[w] : c.m < minute'
      <3>1. \A w \in Windows : \A c \in lastBar[w] : c.m < minute /\ c.m \in Nat
        BY <1>1, <2>2 DEF WalksAre, WindowsSoFar
      <3>2. QED
        BY <1>2, <2>1, <3>1
    <2>5. WindowsSoFar'
      BY <2>1, <2>2, <2>4 DEF WindowsSoFar, HonestSoFar, Phase2SoFar
    <2>6. QED
      BY <2>2, <2>3, <2>5 DEF ExitsInv
  <1>5. CASE EndOfBars
    <2>1. /\ minute > LastMinute /\ ~ended /\ ended' = TRUE /\ UNCHANGED <<minute, lastBar>>
          /\ walks' = [t \in Trades |-> Timeout(t[1], walks[t], lastBar[t[3]])]
      BY <1>5 DEF EndOfBars
    <2>2. WalksAre'
      BY <1>1, <2>1, EndMoves DEF WalksAre
    <2>3. WalksAgree'
      BY <1>1, <2>1, EndKeepsAgreement
    <2>4. WindowsDifferAtTheEdges'
      BY <1>1, <2>1, EndTellsWindows
    <2>5. QED
      BY <2>1, <2>2, <2>3, <2>4 DEF ExitsInv
  <1>6. CASE UNCHANGED exitsVars
    <2>1. WalksAre' /\ WalksAgree'
      BY <1>1, <1>6 DEF exitsVars, WalksAre, WalksAgree
    <2>2. WindowsSoFar' = WindowsSoFar
      BY <1>6 DEF exitsVars, WindowsSoFar, HonestSoFar, Phase2SoFar
    <2>3. WindowsDifferAtTheEdges' = WindowsDifferAtTheEdges
      BY <1>6 DEF exitsVars, WindowsDifferAtTheEdges
    <2>4. QED
      BY <1>1, <1>6, <2>1, <2>2, <2>3 DEF exitsVars, ExitsInv
  <1>7. QED
    BY <1>3, <1>4, <1>5, <1>6 DEF ExitsNext


-------------------------------------------------------------------------------
\* What the walks agree on says what the strategies are to agree on.
LEMMA RestFollows ==
    ASSUME NEW side \in Sides, NEW x \in WalkRecords, NEW b \in WalkRecords, PartOf(x, b), PlainWalk(side, b),
           NEW p \in x.half
    PROVE  2 * Result(side, x) = 2 * side * (p - Entry) + Result(side, b)
  <1>1. x.half = {p} /\ p \in Int /\ b.price \in Int /\ x.price = b.price
    BY DEF PartOf, WalkRecords
  <1>2. PICK chosen : chosen = CHOOSE q \in x.half : TRUE
    OBVIOUS
  <1>3. chosen = p
    BY <1>1, <1>2
  <1>4. Result(side, x) = side * (p + b.price - 2 * 0)
    BY <1>1, <1>2, <1>3 DEF Result, Entry
  <1>5. Result(side, b) = side * (2 * (b.price - 0))
    BY DEF Result, PlainWalk, Entry
  <1>6. CASE side = 1
    BY <1>1, <1>4, <1>5, <1>6 DEF Entry
  <1>7. CASE side = -1
    <2>1. Result(side, x) = -(p + b.price)
      BY <1>1, <1>4, <1>7
    <2>2. Result(side, b) = -(2 * b.price)
      BY <1>1, <1>5, <1>7
    <2>3. 2 * side * (p - Entry) = -(2 * p)
      BY <1>1, <1>7 DEF Entry
    <2>4. QED
      BY <1>1, <2>1, <2>2, <2>3
  <1>8. QED
    BY <1>6, <1>7 DEF Sides

\* What a protection is to keep, of one side in one window.
ProtectedSide(side, base, even, trail) ==
    /\ \A x \in {even, trail} : x.reason \in {"breakeven", "trailing"} => Result(side, x) >= 0
    /\ Closed(base) => Closed(even) /\ even.at <= base.at
    /\ Closed(even) => Closed(trail) /\ trail.at <= even.at
    /\ \A x \in {even, trail} : x.reason \in {"sl", "tp"} => x = [base EXCEPT !.armed = x.armed, !.sl = x.sl]

LEMMA SameBesideStop ==
    ASSUME NEW x \in WalkRecords, NEW b \in WalkRecords, x.half = b.half, x.reason = b.reason,
           x.price = b.price, x.at = b.at
    PROVE  x = [b EXCEPT !.armed = x.armed, !.sl = x.sl]
  <1>1. PICK y : y = [b EXCEPT !.armed = x.armed, !.sl = x.sl]
    OBVIOUS
  <1>2. y.armed = x.armed /\ y.sl = x.sl /\ y.half = b.half /\ y.reason = b.reason /\ y.price = b.price /\ y.at = b.at
    BY <1>1 DEF WalkRecords
  <1>3. y \in WalkRecords
    BY <1>1 DEF WalkRecords
  <1>4. x = y
    BY <1>2, <1>3, SameWalk
  <1>5. QED
    BY <1>1, <1>4

LEMMA LongProtected ==
    ASSUME NEW b \in WalkRecords, NEW e \in WalkRecords, NEW t \in WalkRecords, Protected(b, e, t)
    PROVE  ProtectedSide(1, b, e, t)
  <1>1. /\ PlainWalk(1, b) /\ Guarded(e, "breakeven") /\ Guarded(t, "trailing")
        /\ NoLater(e, b) /\ NoLater(t, e) /\ SameLevel(e, b) /\ SameLevel(t, b)
    BY DEF Protected
  <1>2. b.half = {} /\ e.half = {} /\ t.half = {}
    BY <1>1 DEF PlainWalk, Guarded
  <1>3. ASSUME NEW x \in {e, t}, x.reason \in {"breakeven", "trailing"} PROVE Result(1, x) >= 0
    <2>1. x.price >= 0
      BY <1>1, <1>3 DEF Guarded
    <2>2. x.half = {} /\ x.price \in Int
      BY <1>2 DEF WalkRecords
    <2>3. Result(1, x) = 1 * (2 * (x.price - 0))
      BY <2>2 DEF Result, Entry
    <2>4. QED
      BY <2>1, <2>2, <2>3
  <1>4. ASSUME NEW x \in {e, t}, x.reason \in {"sl", "tp"} PROVE x = [b EXCEPT !.armed = x.armed, !.sl = x.sl]
    <2>1. b.reason = x.reason /\ b.price = x.price /\ b.at = x.at
      BY <1>1, <1>4 DEF SameLevel
    <2>2. QED
      BY <1>2, <2>1, SameBesideStop
  <1>5. (Closed(b) => Closed(e) /\ e.at <= b.at) /\ (Closed(e) => Closed(t) /\ t.at <= e.at)
    BY <1>1 DEF NoLater, Closed
  <1>6. QED
    BY <1>3, <1>4, <1>5 DEF ProtectedSide

\* A short walk is as well protected as the long one it mirrors.
LEMMA ShortProtected ==
    ASSUME NEW b \in WalkRecords, NEW e \in WalkRecords, NEW t \in WalkRecords,
           NEW c \in WalkRecords, NEW f \in WalkRecords, NEW u \in WalkRecords,
           Protected(b, e, t), MirrorOf(b, c), MirrorOf(e, f), MirrorOf(t, u)
    PROVE  ProtectedSide(-1, c, f, u)
  <1>1. ProtectedSide(1, b, e, t)
    BY LongProtected
  <1>2. b.half = {} /\ e.half = {} /\ t.half = {}
    BY DEF Protected, PlainWalk, Guarded
  <1>3. /\ b.reason = c.reason /\ b.at = c.at /\ b.price = -c.price /\ b.half = {-p : p \in c.half}
        /\ e.reason = f.reason /\ e.at = f.at /\ e.price = -f.price /\ e.half = {-p : p \in f.half}
        /\ t.reason = u.reason /\ t.at = u.at /\ t.price = -u.price /\ t.half = {-p : p \in u.half}
    BY DEF MirrorOf
  <1>4. c.half = {} /\ f.half = {} /\ u.half = {}
    BY <1>2, <1>3
  <1>5. ASSUME NEW x \in {e, t}, NEW y \in {f, u}, MirrorOf(x, y), y.reason \in {"breakeven", "trailing"}
        PROVE  Result(-1, y) >= 0
    <2>1. Result(1, x) >= 0
      BY <1>1, <1>5 DEF MirrorOf, ProtectedSide
    <2>2. Result(1, x) = 1 * (2 * (x.price - 0))
      BY <1>2 DEF Result, Entry
    <2>3. Result(-1, y) = -(2 * y.price)
      <3>1. PICK side \in Int : side = -1
        OBVIOUS
      <3>2. Result(side, y) = side * (2 * (y.price - 0))
        BY <1>4 DEF Result, Entry
      <3>3. y.price \in Int
        BY DEF WalkRecords
      <3>4. Result(side, y) = -(2 * y.price)
        BY <3>1, <3>2, <3>3
      <3>5. QED
        BY <3>1, <3>4, Zenon
    <2>4. x.price \in Int /\ y.price \in Int /\ x.price = -y.price
      BY <1>5 DEF WalkRecords, MirrorOf
    <2>5. QED
      BY <2>1, <2>2, <2>3, <2>4
  <1>6. ASSUME NEW x \in {e, t}, NEW y \in {f, u}, MirrorOf(x, y), y.reason \in {"sl", "tp"}
        PROVE  y = [c EXCEPT !.armed = y.armed, !.sl = y.sl]
    <2>1. SameLevel(e, b) /\ SameLevel(t, b)
      BY DEF Protected
    <2>2. b.reason = x.reason /\ b.price = x.price /\ b.at = x.at
      BY <1>6, <2>1 DEF MirrorOf, SameLevel
    <2>3. c.reason = y.reason /\ c.at = y.at
      BY <1>3, <1>6, <2>2 DEF MirrorOf
    <2>4. c.price = y.price
      <3>1. c.price \in Int /\ y.price \in Int /\ -c.price = -y.price
        BY <1>3, <1>6, <2>2 DEF WalkRecords, MirrorOf
      <3>2. QED
        BY <3>1
    <2>5. QED
      BY <1>4, <2>3, <2>4, SameBesideStop
  <1>7. (Closed(c) => Closed(f) /\ f.at <= c.at) /\ (Closed(f) => Closed(u) /\ u.at <= f.at)
    BY <1>1, <1>3 DEF ProtectedSide, Closed
  <1>8. QED
    BY <1>5, <1>6, <1>7 DEF ProtectedSide

\* What a partial exit leaves, of one side in one window.
RestLeft(side, part, whole) ==
    /\ part.reason = whole.reason /\ part.at = whole.at /\ part.price = whole.price
    /\ \A p \in part.half : 2 * Result(side, part) = 2 * side * (p - Entry) + Result(side, whole)

LEMMA WalksSay ==
    ASSUME WalksAre, WalksAgree PROVE MirrorAgrees /\ RestFollowsBaseline /\ ProtectedAfter1R
  <1>1. \A side \in Sides, s \in Strategies, w \in {"wide", "honest"} : walks[<<side, s, w>>] \in WalkRecords
    BY TradesAre DEF WalksAre
  <1>2. MirrorAgrees
    BY DEF WalksAgree, MirrorOf, MirrorAgrees
  <1>3. RestFollowsBaseline
    <2>1. ASSUME NEW side \in Sides, NEW s \in {"levels", "timed"}, NEW w \in {"wide", "honest"}
          PROVE  RestLeft(side, walks[<<side, s, w>>], walks[<<side, "baseline", w>>])
      <3>1. PICK x \in WalkRecords, b \in WalkRecords : x = walks[<<side, s, w>>] /\ b = walks[<<side, "baseline", w>>]
        BY <1>1, TradesAre
      <3>2. PartOf(x, b) /\ PlainWalk(side, b)
        BY <3>1 DEF WalksAgree
      <3>3. \A p \in x.half : 2 * Result(side, x) = 2 * side * (p - Entry) + Result(side, b)
        BY <3>2, RestFollows
      <3>4. RestLeft(side, x, b)
        BY <3>2, <3>3 DEF PartOf, RestLeft
      <3>5. QED
        BY <3>1, <3>4
    <2>2. QED
      BY <2>1 DEF RestLeft, RestFollowsBaseline
  <1>4. \A side \in Sides, w \in {"wide", "honest"} :
            ProtectedSide(side, walks[<<side, "baseline", w>>], walks[<<side, "breakeven", w>>],
                          walks[<<side, "trailing", w>>])
    <2> SUFFICES ASSUME NEW w \in {"wide", "honest"}
                 PROVE  \A side \in Sides :
                            ProtectedSide(side, walks[<<side, "baseline", w>>], walks[<<side, "breakeven", w>>],
                                          walks[<<side, "trailing", w>>])
      OBVIOUS
    <2>1. "baseline" \in Strategies /\ "breakeven" \in Strategies /\ "trailing" \in Strategies
          /\ 1 \in Sides /\ -1 \in Sides
      BY TradesAre
    <2>2. PICK b \in WalkRecords, e \in WalkRecords, t \in WalkRecords :
             b = walks[<<1, "baseline", w>>] /\ e = walks[<<1, "breakeven", w>>] /\ t = walks[<<1, "trailing", w>>]
      BY <1>1, <2>1
    <2>3. PICK c \in WalkRecords, f \in WalkRecords, u \in WalkRecords :
             c = walks[<<-1, "baseline", w>>] /\ f = walks[<<-1, "breakeven", w>>] /\ u = walks[<<-1, "trailing", w>>]
      BY <1>1, <2>1
    <2>4. Protected(b, e, t) /\ MirrorOf(b, c) /\ MirrorOf(e, f) /\ MirrorOf(t, u)
      BY <2>1, <2>2, <2>3 DEF WalksAgree
    <2>5. ProtectedSide(1, b, e, t)
      BY <2>2, <2>4, LongProtected
    <2>6. ProtectedSide(-1, c, f, u)
      BY <2>2, <2>3, <2>4, ShortProtected
    <2>7. QED
      BY <2>2, <2>3, <2>5, <2>6 DEF Sides
  <1>5. ProtectedAfter1R
    BY <1>4 DEF ProtectedSide, ProtectedAfter1R
  <1>6. QED
    BY <1>2, <1>3, <1>5

LEMMA ExitsSay ==
    ASSUME ExitsInv PROVE StrategiesAgree
  <1>1. WalksAre /\ WalksAgree
    BY DEF ExitsInv
  <1>2. WindowsDifferAtTheEdges
    <2>1. CASE ended
      BY <2>1 DEF ExitsInv
    <2>2. CASE ~ended
      BY <2>2 DEF WindowsDifferAtTheEdges
    <2>3. QED
      BY <2>1, <2>2
  <1>3. QED
    BY <1>1, <1>2, WalksSay DEF StrategiesAgree

\* The strategies of exits/, whatever the bars and the levels: the branches for shorts mirror
\* those for longs, the rest of a partial exit ends where the baseline does, a position that
\* was at 1R never ends in a loss by its stop and never later than with less protection, and
\* the windows differ only at the bar of the entry and after the time stop.
THEOREM StrategiesAgreeHolds == ExitsSpec => []StrategiesAgree
  <1>1. ExitsInit => ExitsInv
    BY ExitsStart
  <1>2. ExitsInv /\ [ExitsNext]_exitsVars => ExitsInv'
    BY ExitsStep
  <1>3. ExitsInv => StrategiesAgree
    BY ExitsSay
  <1>4. QED
    BY <1>1, <1>2, <1>3, PTL DEF ExitsSpec
===============================================================================
