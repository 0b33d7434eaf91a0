---------------------------- MODULE MCMarketBrowser ----------------------------
EXTENDS MarketBrowser

MCTickers == {"AAPL", "NVDA", "GONE", "HISTORY", "HTTPS//NASDAQAAPL"}
MCListed == {"AAPL", "NVDA"}
MCSamples == {"NVDA"}

A(kind, params, words) == [kind |-> kind, params |-> params, words |-> words]
Exchange(t) == [Word(t) EXCEPT !.prefixed = TRUE]

(* Nothing, a bare ticker behind its exchange, a page with a delisted      *)
(* ticker as a parameter.                                                  *)
MCTyped ==
    {Empty, A("word", <<>>, <<Exchange("AAPL")>>),
     A("url", <<StopWord, Word("GONE")>>, <<StopWord, Word("NVDA")>>)}

(* The history page of a ticker; NASDAQ:AAPL. *)
MCMisread == {A("url", <<>>, <<StopWord, Word("NVDA"), Word("HISTORY")>>),
              A("broken", <<>>, <<Exchange("AAPL")>>)}
=============================================================================
