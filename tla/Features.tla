------------------------------- MODULE Features --------------------------------
(***************************************************************************)
(* The features of a news and a ticker, and the targets a model learns     *)
(* for them.  build_features runs in the predictor, on the bars and the    *)
(* news that have arrived, and again in build_features_for_y6_corpus.py,   *)
(* on all bars and all news; rebuild_features_with_70b*.py put what the    *)
(* language model said into the rows of an older corpus; derive_targets*   *)
(* measure what came after the news.  The corpora are trained on together. *)
(*                                                                         *)
(* A feature made of bars is the set of bars that it reads.  Time is in    *)
(* half minutes; a bar is the minute it starts in.                         *)
(***************************************************************************)
EXTENDS Integers, Sequences, FiniteSets, FiniteSetsExt, SequencesExt

CONSTANTS
    Named,              \* the tickers
    Histories,          \* sets of minutes with a bar
    Answers,            \* what the language model may say of a news
    LastHalf,           \* bound: of the clock, in half minutes
    MaxNews,            \* bound
    Back,               \* minutes a feature looks back
    Day,                \* the 24 hours of the news history, in half minutes
    Ahead,              \* minutes of a target's horizon
    MaxGap              \* minutes a target may wait for its first bar

\* An impact of an answer; how strong it is is in percent.
ImpactShape == [ticker: Named, sentiment: STRING, direction: STRING, strength: Nat]

ASSUME FeaturesAssumption ==
    /\ {LastHalf, MaxNews, Back, Day, Ahead} \subseteq Nat \ {0} /\ MaxGap \in Nat /\ LastHalf > 1
    /\ \A h \in Histories : IsFiniteSet(h) /\ h \subseteq Nat
    /\ \A a \in Answers : /\ a \in [category: STRING, timeframe: STRING, impacts: Seq(ImpactShape)]
                          /\ a.impacts # <<>>

VARIABLES
    bars,               \* the minutes that have a bar, in the end
    halves,
    cached,             \* the bars the predictor has
    published,          \* the news, in the order of their time
    stream,             \* the order and the time in which they came out of the enricher
    taken,              \* how many of them the predictor has taken
    built               \* the rows it has built for the last one, one for each ticker

featuresVars == <<bars, halves, cached, published, stream, taken, built>>

MinuteOf(t) == t \div 2
Now == MinuteOf(halves)

-------------------------------------------------------------------------------
(* What the bars give. *)

\* _return: the close before the minute of the news, over the close Back minutes earlier.
\* Nothing unless there is a bar from the minute of the news on.
BarReturn(known, t) ==
    LET before(m) == {b \in known : b < m} IN
    IF \/ \A b \in known : b < MinuteOf(t)
       \/ before(MinuteOf(t) - Back) = {}
    THEN {} ELSE {Max(before(MinuteOf(t))), Max(before(MinuteOf(t) - Back))}

\* Mutant: with the bar of the next minute.
LiveWindowAhead(known, t) == known \cap (MinuteOf(t) - Back .. MinuteOf(t) + 1)

\* _atr, _rsi, _bollinger_position, _distance_to_extremes, _volume_intensity: loc takes
\* both ends of the window.
LiveWindow(known, t) == known \cap (MinuteOf(t) - Back .. MinuteOf(t))

\* compute_mfe_mae and compute_targets: from the first bar after the minute of the news
\* to the one that starts at the horizon; none if that bar is missing or late.
MaxMove(t) ==
    LET later == {b \in bars : b >= MinuteOf(t) + 1} IN
    IF later = {} THEN {}
    ELSE IF Min(later) - (MinuteOf(t) + 1) > MaxGap THEN {}
    ELSE bars \cap (Min(later) .. Min(later) + Ahead)

-------------------------------------------------------------------------------
(* What the language model gives. *)

ImpactOf(answer, ticker) ==
    answer.impacts[Min({i \in DOMAIN answer.impacts : answer.impacts[i].ticker = ticker})]

\* build_per_ticker_lookup: a ticker that is named again replaces what was there.
LastImpactOf(answer, ticker) ==
    answer.impacts[Max({i \in DOMAIN answer.impacts : answer.impacts[i].ticker = ticker})]

TickersOf(answer) == {answer.impacts[i].ticker : i \in DOMAIN answer.impacts}

SellTheNews(impact) ==
    <<impact.sentiment, impact.direction>> \in {<<"positive", "short">>, <<"negative", "long">>}

\* build_features: no column for the category "market" nor for the timeframe "short".
Columns(answer, ticker) ==
    [sentiment |-> ImpactOf(answer, ticker).sentiment,
     direction |-> ImpactOf(answer, ticker).direction,
     sells     |-> SellTheNews(ImpactOf(answer, ticker)),
     category  |-> IF answer.category = "market" THEN "none" ELSE answer.category,
     timeframe |-> IF answer.timeframe = "short" THEN "none" ELSE answer.timeframe,
     affected  |-> Len(answer.impacts)]

\* What the contract of an enriched news allows.
NewsCategories == {"geopolitics", "macro", "cbr", "corporate", "commodity", "currency", "market", "other"}
NewsTimeframes == {"instant", "short", "medium", "slow"}

\* reconstruct_event: answers of the batch runs, brought to the contract.
Reconstructed(answer) ==
    [answer EXCEPT !.category  = IF @ \in NewsCategories THEN @ ELSE "other",
                   !.timeframe = CASE @ = "fast" -> "short" [] @ = "long" -> "slow"
                                   [] @ \in NewsTimeframes -> @ [] OTHER -> "medium"]

\* The ticker with the largest impact, the first one of equals.
Top(answer) ==
    LET strongest == Max({answer.impacts[i].strength : i \in DOMAIN answer.impacts}) IN
    answer.impacts[Min({i \in DOMAIN answer.impacts : answer.impacts[i].strength = strongest})]

\* compute_event_features and per_ticker_features: sentiment is that of the news, the
\* other columns of a ticker are its own.
RebuiltColumns(answer, ticker) ==
    LET own == LastImpactOf(answer, ticker) IN
    [sentiment |-> Top(answer).sentiment,
     direction |-> own.direction,
     sells     |-> SellTheNews(own),
     category  |-> IF answer.category \in (NewsCategories \ {"market"}) \cup {"regulatory"}
                   THEN answer.category ELSE "other",
     timeframe |-> IF answer.timeframe \in {"instant", "fast", "medium", "slow"}
                   THEN answer.timeframe ELSE "medium",
     affected  |-> Len(answer.impacts) - 1]

-------------------------------------------------------------------------------
(* What the other news give: those that count for news i. *)

About(ticker) == {j \in DOMAIN published : ticker \in TickersOf(published[j].says)}

\* build_features: the age of a news is taken from when it came out of the enricher.
\* Its history is what was handled before.
Recent(i, ticker, before) ==
    {j \in About(ticker) : \E k \in 1 .. before :
        /\ stream[k].news = j
        /\ published[i].at - stream[k].at \in 1 .. Day}

\* StubHistory, and the timeline of recompute_cum_sentiment_24h.
RecentInCorpus(i, ticker) == {j \in About(ticker) : published[i].at - published[j].at \in 1 .. Day}

-------------------------------------------------------------------------------

FeaturesTypeOK ==
    /\ bars \in Histories /\ cached \subseteq bars /\ halves \in 2 .. LastHalf
    /\ Len(published) <= MaxNews
    /\ \A i, j \in DOMAIN published : i < j => published[i].at <= published[j].at
    /\ \A i \in DOMAIN published : published[i].says \in Answers
    /\ {stream[k].news : k \in DOMAIN stream} \subseteq DOMAIN published
    /\ IsInjective([k \in DOMAIN stream |-> stream[k].news])
    /\ taken \in 0 .. Len(stream)
    /\ \A r \in built : r.window \cup r.return \subseteq bars /\ r.news \notin r.recent

FeaturesInit ==
    /\ bars \in Histories /\ halves = 2 /\ cached = {}
    /\ published = <<>> /\ stream = <<>> /\ taken = 0 /\ built = {}

TimePasses ==
    /\ halves < LastHalf /\ halves' = halves + 1
    /\ UNCHANGED <<bars, cached, published, stream, taken, built>>

\* A bar reaches the predictor when its minute is over.
NextBar ==
    \E b \in bars \ cached :
        /\ b < Now /\ \A c \in bars \ cached : b <= c
        /\ cached' = cached \cup {b}
        /\ UNCHANGED <<bars, halves, published, stream, taken, built>>

NewsPublished ==
    /\ Len(published) < MaxNews
    /\ \E a \in Answers : published' = Append(published, [at |-> halves, says |-> a])
    /\ UNCHANGED <<bars, halves, cached, stream, taken, built>>

\* The enricher has workers: a later news may come first.
Enriched ==
    \E i \in DOMAIN published :
        /\ \A k \in DOMAIN stream : stream[k].news # i
        /\ stream' = Append(stream, [news |-> i, at |-> halves])
        /\ UNCHANGED <<bars, halves, cached, published, taken, built>>

FeatureRow(i, ticker, known, recent) ==
    [news |-> i, ticker |-> ticker, return |-> BarReturn(known, published[i].at),
     window |-> LiveWindow(known, published[i].at), recent |-> recent,
     columns |-> Columns(published[i].says, ticker), had |-> known]

\* The predictor takes the next event; the stale-candles gate has let it through.
Predict ==
    LET k == taken + 1  i == stream[k].news IN
    /\ k <= Len(stream) /\ cached # {} /\ taken' = k
    /\ built' = {FeatureRow(i, t, cached, Recent(i, t, k)) : t \in TickersOf(published[i].says)}
    /\ UNCHANGED <<bars, halves, cached, published, stream>>

FeaturesNext == TimePasses \/ NextBar \/ NewsPublished \/ Enriched \/ Predict

FeaturesSpec == FeaturesInit /\ [][FeaturesNext]_featuresVars

-------------------------------------------------------------------------------
(* Properties. *)

\* A row of the corpus, for the same news.
CorpusRow(i, ticker) ==
    [FeatureRow(i, ticker, bars, RecentInCorpus(i, ticker)) EXCEPT
        !.columns = Columns(Reconstructed(published[i].says), ticker)]

\* What a model learns from does not reach into what it learns: the bars of the features
\* start before the bars of the target, which are after the news.
FeaturesPrecedeTargets ==
    \A i \in DOMAIN published : LET t == published[i].at IN
        \A b \in LiveWindow(bars, t) \cup BarReturn(bars, t), l \in MaxMove(t) : b < l /\ 2 * l > t

\* The predictor reads no bar the corpus would not, and lacks those of a window only that
\* had not arrived.  It has the returns of the corpus or none; none for a news in whose
\* minute or after it no bar had arrived, that is for all that it handles at once.
LiveBarsAreFewer ==
    \A r \in built : LET c == CorpusRow(r.news, r.ticker) IN
        /\ r.window = c.window \cap r.had
        /\ r.return \in {{}, c.return}
        /\ r.return # {} => \E b \in r.had : b >= MinuteOf(published[r.news].at)

\* News that count for the predictor count in the corpus, but for those of a day and more
\* ago that took long to enrich; it misses those that were in the enricher when this one
\* was published.
LiveNewsAreFewer ==
    \A r \in built : LET c == CorpusRow(r.news, r.ticker) IN
        /\ \A j \in r.recent \ c.recent : published[r.news].at - published[j].at > Day
        /\ \A j \in c.recent \ r.recent :
              ~\E k \in DOMAIN stream : stream[k].news = j /\ stream[k].at < published[r.news].at

NamedOnce(answer, ticker) ==
    \A k, l \in DOMAIN answer.impacts :
        answer.impacts[k].ticker = ticker /\ answer.impacts[l].ticker = ticker => k = l

\* The two corpora and the predictor see one answer alike but for: the category "market"
\* and "regulatory", a timeframe "short", "fast" or "long", the number of tickers, the
\* sentiment of a ticker that is not the strongest, and a ticker that is named twice.
ColumnsAgree ==
    \A i \in DOMAIN published : LET a == published[i].says IN \A t \in TickersOf(a) :
        LET new == Columns(Reconstructed(a), t)  old == RebuiltColumns(a, t) IN
        /\ new.category # old.category => a.category \in {"market", "regulatory"}
        /\ new.timeframe # old.timeframe => a.timeframe \in {"short", "fast", "long"}
        /\ new.affected = old.affected + 1
        /\ NamedOnce(a, t) =>
              /\ new.sentiment # old.sentiment => Top(a).ticker # t
              /\ new.direction = old.direction /\ new.sells = old.sells

\* Features of training and of the live service: honest, and alike but for what is known.
FeaturesAreHonest ==
    /\ FeaturesPrecedeTargets
    /\ LiveBarsAreFewer
    /\ LiveNewsAreFewer
    /\ ColumnsAgree
===============================================================================
