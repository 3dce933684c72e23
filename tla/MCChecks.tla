------------------------------- MODULE MCChecks --------------------------------
(***************************************************************************)
(* Parts of the system that share no state and are checked for safety      *)
(* only: the candle feed, the monitor, the calls of a language model, the  *)
(* rules, the simulations of trades, the scripts and what is learned from  *)
(* their files.  One of them, chosen at the start, takes steps; the others *)
(* stay as they were, and only its properties are looked at.               *)
(***************************************************************************)
EXTENDS QuikFeed, Monitoring, LlmClients, TradingRules, PaperTrade, Exits, Backtest,
        CleanRestart, BatchEnrichment, Prices, Archive, EnrichedSwap, HoldoutSplit,
        CategorySubset, Features, WalkForward, ModelFiles, Costs, Instruments,
        WindowReplay, Republish

MCScripts    == {<<"GAZP">>, <<"YNDX">>}
MCExcursions == -1 .. 5
MCPnls       == {-21, 25}
MCExitBars   == {b \in [high: -3 .. 3, low: -3 .. 3, close: {-3, -1, 0, 2}] :
                    b.low <= b.close /\ b.close <= b.high}

OfPrices(o, h, l, c) == [open |-> o, high |-> h, low |-> l, close |-> c]
MCPaperBars  == {OfPrices(0, 0, 0, 0), OfPrices(0, 1, -2, -1), OfPrices(1, 2, 0, 2),
                 OfPrices(2, 2, 1, 1), OfPrices(0, 2, -2, 0)}

OfPost(c, m, t, x, n) == [channel |-> c, msg |-> m, at |-> t, text |-> x, news |-> n]
MCPosts == {OfPost("tass", 1, 1, 1, TRUE), OfPost("tass", 2, 2, 2, TRUE),
            OfPost("tass", 3, 3, 3, TRUE), OfPost("rbc", 1, 2, 4, FALSE),
            OfPost("rbc", 2, 3, 2, TRUE)}
MCChannelOrder == <<"tass", "rbc">>

OfText(k, t, p) == [key |-> k, at |-> t, plain |-> p]
MCTexts      == {OfText(1, 1, TRUE), OfText(2, 1, FALSE), OfText(3, 1, TRUE), OfText(4, 2, TRUE)}
MCReanswered == [x \in {y \in MCTexts : y.key < 4} |-> x.key # 3]

OfMessage(i, x, t, s, c) == [id |-> i, text |-> x, at |-> t, session |-> s, channel |-> c]
MCMessages == {OfMessage(1, 1, 2, TRUE, "tass"), OfMessage(2, 2, 2, TRUE, "tass"),
               OfMessage(3, 3, 3, TRUE, "tass"), OfMessage(4, 1, 4, TRUE, "tass"),
               OfMessage(5, 3, 4, FALSE, "other"), OfMessage(6, 4, 5, TRUE, "tass")}

MCSamples == {{1, 2, 3}, {1, 3, 4}}
MCLegacy  == [r \in 1 .. 4 |-> CASE r < 3 -> "cbr" [] r = 3 -> "other" [] r = 4 -> "none"]
MCTarget  == [c \in {"cbr", "other"} |-> IF c = "cbr" THEN 1 ELSE 2]

OfImpact(t, s, d, n) == [ticker |-> t, sentiment |-> s, direction |-> d, strength |-> n]
MCAnswers ==
    {[category |-> "market", timeframe |-> "short",
      impacts |-> <<OfImpact("a", "positive", "short", 1)>>],
     [category |-> "regulatory", timeframe |-> "fast",
      impacts |-> <<OfImpact("b", "negative", "short", 1), OfImpact("a", "positive", "long", 2),
                    OfImpact("a", "negative", "short", 1)>>]}
MCHistories == {{1, 2, 3}, {1, 3}, {2, 3}}

\* The corpora: the first; with the hole filled; with more rows at the end.
OfRow(i, t, n) == [id |-> i, at |-> t, name |-> n]
OfTarget(i, n, k) == [id |-> i, name |-> n, known |-> k]
MCCanonical == [SBER |-> "SBER", MX |-> "MIX", MIX |-> "MIX", XX |-> "none"]
MCFirst ==
    [phase2 |-> [features |-> {OfRow(1, 0, "SBER"), OfRow(2, 2, "MX"), OfRow(3, 3, "SBER")},
                 targets  |-> {OfTarget(1, "SBER", TRUE), OfTarget(2, "MX", FALSE),
                               OfTarget(3, "SBER", TRUE)}],
     y6     |-> [features |-> {OfRow(2, 2, "MIX"), OfRow(6, 6, "SBER"), OfRow(6, 6, "MIX"),
                               OfRow(8, 8, "XX"), OfRow(8, 8, "SBER"), OfRow(9, 9, "SBER")},
                 targets  |-> {OfTarget(2, "MIX", TRUE), OfTarget(6, "SBER", TRUE),
                               OfTarget(6, "MIX", TRUE), OfTarget(8, "SBER", TRUE),
                               OfTarget(9, "SBER", FALSE)}]]
And(corpus, f, t) ==
    [corpus EXCEPT !.y6 = [features |-> @.features \cup f, targets |-> @.targets \cup t]]
MCFilled == And(MCFirst, {OfRow(4, 4, "SBER"), OfRow(5, 5, "MIX")},
                {OfTarget(4, "SBER", TRUE), OfTarget(5, "MIX", TRUE)})
MCLonger == And(MCFilled, {OfRow(10, 9, "SBER"), OfRow(11, 11, "SBER")},
                {OfTarget(10, "SBER", TRUE), OfTarget(11, "SBER", TRUE)})
MCCorpora == <<MCFirst, MCFilled, MCLonger>>

MCOutputs == <<"mfe">>

MCCharts == {Share("GAZP"), Expiring, Following}

\* A window: torn lines, a file in the order of the enricher and one that is not.
OfReplay(t, m, f, s) ==
    [valid |-> TRUE, at |-> t, made |-> m, financial |-> f, impacts |-> s]
OfSide(t, d, n) == [ticker |-> t, direction |-> d, sure |-> n]
MCReplayTorn  == [OfReplay(0, 0, FALSE, <<>>) EXCEPT !.valid = FALSE]
MCReplayBoth  == OfReplay(1, 2, TRUE, <<OfSide("a", "long", 1), OfSide("b", "short", 0)>>)
MCReplayTwice == OfReplay(3, 5, TRUE, <<OfSide("a", "short", 1), OfSide("a", "neutral", 0)>>)
MCReplayLate  == OfReplay(4, 4, TRUE, <<OfSide("b", "long", 1), OfSide("c", "long", 1)>>)
MCReplayQuiet == OfReplay(3, 3, FALSE, <<OfSide("a", "long", 1)>>)
MCReplayFiles == {<<MCReplayTorn>>,
                  <<MCReplayLate, MCReplayBoth, MCReplayTorn, MCReplayTwice>>,
                  <<MCReplayBoth, MCReplayQuiet, MCReplayTwice>>}

OfOld(v, t, w) == [valid |-> v, at |-> t, whole |-> w]
MCSources == {<<OfOld(TRUE, 3, TRUE), OfOld(TRUE, 1, TRUE), OfOld(FALSE, 2, FALSE),
                OfOld(TRUE, 2, TRUE), OfOld(TRUE, 2, FALSE), OfOld(TRUE, 1, TRUE)>>}

VARIABLE part

checksVars == <<part, feedVars, monitorVars, llmVars, rulesVars, paperVars, exitsVars,
                backtestVars, cleanVars, batchVars, pricesVars, archiveVars, swapVars,
                holdoutSplitVars, categorySubsetVars, featuresVars, walkVars, modelFilesVars,
                costsVars, instrumentsVars, windowReplayVars, republishVars>>

Parts == {"feed", "monitor", "llm", "rules", "paper", "exits", "backtest", "clean", "batch",
          "prices", "archive", "swap", "holdout", "subset", "features", "walk", "models", "costs",
          "names", "replay", "republish"}

\* The choices of a part that takes no step are made for it.
ChecksInit ==
    /\ part \in Parts
    /\ IF part = "feed" THEN TRUE ELSE mode = "all" /\ listed = <<"GAZP">>
    /\ FeedInit
    /\ IF part = "llm" THEN TRUE ELSE provider = "groq"
    /\ LlmInit
    /\ IF part = "paper" THEN TRUE ELSE source = "live"
    /\ PaperInit
    /\ IF part = "backtest" THEN TRUE ELSE job = "fixed"
    /\ BacktestInit
    /\ IF part = "archive" THEN TRUE ELSE posted = Posts
    /\ ArchiveInit
    /\ IF part = "subset" THEN TRUE ELSE sample = {1, 2, 3}
    /\ CategorySubsetInit
    /\ IF part = "features" THEN TRUE ELSE bars = {1, 3}
    /\ FeaturesInit
    /\ IF part = "walk" THEN TRUE ELSE harness = "y6"
    /\ WalkInit
    /\ IF part = "names" THEN TRUE ELSE priced = CanonicalTickers
    /\ InstrumentsInit
    /\ IF part = "replay" THEN TRUE ELSE replayFile = <<MCReplayTorn>>
    /\ WindowReplayInit
    /\ IF part = "republish" THEN TRUE ELSE tool = "envelopes" /\ dry = TRUE
    /\ RepublishInit
    /\ MonitorInit /\ RulesInit /\ ExitsInit /\ CleanInit /\ BatchInit /\ PricesInit
    /\ EnrichedSwapInit /\ HoldoutSplitInit /\ ModelFilesInit /\ CostsInit

\* A step of one part.
Only(p, A) ==
    /\ part = p /\ A /\ UNCHANGED part
    /\ p # "feed" => UNCHANGED feedVars
    /\ p # "monitor" => UNCHANGED monitorVars
    /\ p # "llm" => UNCHANGED llmVars
    /\ p # "rules" => UNCHANGED rulesVars
    /\ p # "paper" => UNCHANGED paperVars
    /\ p # "exits" => UNCHANGED exitsVars
    /\ p # "backtest" => UNCHANGED backtestVars
    /\ p # "clean" => UNCHANGED cleanVars
    /\ p # "batch" => UNCHANGED batchVars
    /\ p # "prices" => UNCHANGED pricesVars
    /\ p # "archive" => UNCHANGED archiveVars
    /\ p # "swap" => UNCHANGED swapVars
    /\ p # "holdout" => UNCHANGED holdoutSplitVars
    /\ p # "subset" => UNCHANGED categorySubsetVars
    /\ p # "features" => UNCHANGED featuresVars
    /\ p # "walk" => UNCHANGED walkVars
    /\ p # "models" => UNCHANGED modelFilesVars
    /\ p # "costs" => UNCHANGED costsVars
    /\ p # "names" => UNCHANGED instrumentsVars
    /\ p # "replay" => UNCHANGED windowReplayVars
    /\ p # "republish" => UNCHANGED republishVars

ChecksNext ==
    \/ Only("feed", FeedNext) \/ Only("monitor", MonitorNext) \/ Only("llm", LlmNext)
    \/ Only("rules", RulesNext) \/ Only("paper", PaperNext) \/ Only("exits", ExitsNext)
    \/ Only("backtest", BacktestNext) \/ Only("clean", CleanNext) \/ Only("batch", BatchNext)
    \/ Only("prices", PricesNext) \/ Only("archive", ArchiveNext) \/ Only("swap", EnrichedSwapNext)
    \/ Only("holdout", HoldoutSplitNext) \/ Only("subset", CategorySubsetNext)
    \/ Only("features", FeaturesNext) \/ Only("walk", WalkNext) \/ Only("models", ModelFilesNext)
    \/ Only("costs", CostsNext) \/ Only("names", InstrumentsNext)
    \/ Only("replay", WindowReplayNext) \/ Only("republish", RepublishNext)

ChecksSpec == ChecksInit /\ [][ChecksNext]_checksVars

-------------------------------------------------------------------------------

\* Candles reach the stream, the files and the readers of either without a hole and once.
CandlesAreFaithful == (part = "feed" => FeedIsFaithful) /\ (part = "prices" => PricesAreWhole)

\* The rules of a decision, and the tables in which the services look up a ticker, fit.
RulesAndTablesAgree == RulesAgree /\ (part = "names" => InstrumentsAreKept)

\* Trades end at the same bar and cost the same whichever code counts them.
TradesAreCountedAlike ==
    /\ part = "paper" => ExitIsFair
    /\ part = "exits" => StrategiesAgree
    /\ part = "costs" => CostsAgree

\* The loops over the history and the live loops know the same of the future: nothing.
LoopsAreHonest ==
    /\ part = "backtest" => LoopIsHonest
    /\ part = "walk" => WalksAreHonest
    /\ part = "features" => FeaturesAreHonest
    /\ part = "replay" => ReplayIsHonest

\* The archive of texts and what was answered about them: each once, none forgotten.
ArchivesAreWhole ==
    /\ part = "batch" => CheckpointIsSound
    /\ part = "archive" => ArchiveIsWhole
    /\ part = "swap" => ReplayInputIsSound

\* What is drawn from it and learned from that fits together.
DrawsFitTogether ==
    /\ part = "holdout" => HoldoutIsApart
    /\ part = "subset" => SubsetIsBalanced
    /\ part = "models" => ModelsFitTogether
    /\ part = "republish" => RepublishIsFair

\* The types of all parts.
ChecksTypeOK ==
    /\ part = "feed" => FeedTypeOK
    /\ part = "monitor" => MonitorTypeOK
    /\ part = "llm" => LlmTypeOK
    /\ part = "rules" => RulesTypeOK
    /\ part = "paper" => PaperTypeOK
    /\ part = "exits" => ExitsTypeOK
    /\ part = "backtest" => BacktestTypeOK
    /\ part = "clean" => CleanTypeOK
    /\ part = "batch" => BatchTypeOK
    /\ part = "prices" => PricesTypeOK
    /\ part = "archive" => ArchiveTypeOK
    /\ part = "swap" => EnrichedSwapTypeOK
    /\ part = "holdout" => HoldoutSplitTypeOK
    /\ part = "subset" => CategorySubsetTypeOK
    /\ part = "features" => FeaturesTypeOK
    /\ part = "walk" => WalkTypeOK
    /\ part = "models" => ModelFilesTypeOK
    /\ part = "costs" => CostsTypeOK
    /\ part = "names" => InstrumentsTypeOK
    /\ part = "replay" => WindowReplayTypeOK
    /\ part = "republish" => RepublishTypeOK
===============================================================================
