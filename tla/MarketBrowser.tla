----------------------------- MODULE MarketBrowser -----------------------------
(***************************************************************************)
(* The MarketBrowser component and its proxy: an address field, a quote    *)
(* panel, and requests (resolve the address, then load the quote) that any *)
(* button starts at any time, whose responses arrive in any order.         *)
(***************************************************************************)
EXTENDS Naturals, SequencesExt

CONSTANTS
    Tickers,    \* what a ticker may be normalised to
    Listed,     \* those the market provider quotes
    Samples,    \* tickers with a button of their own
    Default,    \* the ticker loaded first, AAPL
    Typed,      \* addresses a user may type
    Calls,      \* bound: requests in flight
    MaxTimers,  \* bound: timers of the copy button
    MaxReloads  \* bound: how often the page is loaded again

(* A word of an address: the ticker normalizeTicker makes of it, "" for a  *)
(* stop word; whether that has at most 12 characters; whether an exchange  *)
(* stands before it (NASDAQ-AAPL).                                         *)
WordSet == [ticker : Tickers \cup {""}, short : BOOLEAN, prefixed : BOOLEAN]
Word(ticker) == [ticker |-> ticker, short |-> TRUE, prefixed |-> FALSE]
StopWord == Word("")

(* An address: nothing, one word, a URL (the known query parameters in the *)
(* order they are tried, the words of the path), or what is neither, such  *)
(* as NASDAQ:AAPL, with the word it is normalised to as a whole.           *)
AddressSet ==
    [kind : {"empty", "word", "url", "broken"}, params : Seq(WordSet), words : Seq(WordSet)]
Empty == [kind |-> "empty", params |-> <<>>, words |-> <<>>]

(* "https://NASDAQ:AAPL": no URL either, and no exchange at its start.      *)
Nonsense == [ticker |-> "HTTPS//NASDAQAAPL", short |-> FALSE, prefixed |-> FALSE]

ASSUME BrowserAssumption ==
    /\ "" \notin Tickers
    /\ Listed \subseteq Tickers
    /\ Samples \cup {Default} \subseteq Tickers
    /\ Typed \subseteq AddressSet
    /\ \A a \in Typed :
          /\ a.kind = "empty" => a = Empty
          /\ a.kind \in {"word", "broken"} => Len(a.words) = 1
          /\ a.kind = "broken" => Nonsense \in WordSet
    /\ MaxTimers \in Nat /\ MaxReloads \in Nat

VARIABLES
    address,  \* the address field
    frame,    \* the page in the iframe
    quote,    \* the ticker whose quote is shown, or ""
    status,   \* the status line
    loading,  \* the button says "Loading..."
    copied,   \* the other one says "Copied"
    timers,   \* timers that will reset it
    calls,    \* requests in flight
    reloads   \* how often the page was loaded again

field == <<address, frame>>
panel == <<quote, status, loading>>
copying == <<copied, timers>>
browserVars == <<field, panel, copying, calls, reloads>>

-----------------------------------------------------------------------------
Url(words) == [kind |-> "url", params |-> <<>>, words |-> words]
QuoteUrl(word) == Url(<<StopWord, word>>)

(* frameUrlFor.  Fault: a bare ticker is taken for a host name.            *)
FaultFrameUrl(a) ==
    IF a.kind = "empty" THEN QuoteUrl(Word(Default))
    ELSE IF a.kind = "word" THEN Url(<<>>)
    ELSE IF a.kind = "broken" THEN [a EXCEPT !.words = <<Nonsense>>] ELSE a
FrameUrl(a) ==
    IF a.kind = "empty" THEN QuoteUrl(Word(Default))
    ELSE IF a.kind = "word" THEN QuoteUrl(a.words[1])
    ELSE IF a.kind = "broken" THEN [a EXCEPT !.words = <<Nonsense>>] ELSE a

(* parseTickerFromUrl: the first parameter that is a ticker, else the first *)
(* word behind an exchange, else the last word that may be a ticker.       *)
InferUrl(a) ==
    LET param == SelectInSeq(a.params, LAMBDA w : w.ticker # "")
        listing == SelectInSeq(a.words, LAMBDA w : w.prefixed)
        last == SelectLastInSeq(a.words, LAMBDA w : w.ticker # "" /\ w.short)
    IN IF param # 0 THEN a.params[param].ticker
       ELSE IF listing # 0 THEN a.words[listing].ticker
       ELSE IF last # 0 THEN a.words[last].ticker ELSE ""
Infer(a) ==
    IF a.kind = "empty" THEN "" ELSE IF a.kind = "url" THEN InferUrl(a) ELSE a.words[1].ticker

-----------------------------------------------------------------------------
NoCall == [kind |-> "none"]
Resolving(a) == [kind |-> "resolve", address |-> a]
Loading(t) == [kind |-> "quote", ticker |-> t]

Says(what, t) == [says |-> what, ticker |-> t]

FirstCall(call) == [c \in Calls |-> IF c = call THEN Loading(Default) ELSE NoCall]

(* The component is mounted and has called loadQuote(Default). *)
BrowserInit ==
    /\ address = QuoteUrl(Word(Default)) /\ frame = Empty
    /\ quote = "" /\ status = Says("loading", Default) /\ loading = TRUE
    /\ copied = FALSE /\ timers = 0
    /\ calls \in {FirstCall(c) : c \in Calls}
    /\ reloads = 0

(* The page is loaded again, by its user or by the scan button. *)
Reload ==
    /\ reloads < MaxReloads
    /\ address' = QuoteUrl(Word(Default)) /\ frame' = Empty
    /\ quote' = "" /\ status' = Says("loading", Default) /\ loading' = TRUE
    /\ copied' = FALSE /\ timers' = 0
    /\ calls' \in {FirstCall(c) : c \in Calls}
    /\ reloads' = reloads + 1

(* loadQuote up to its await. *)
LoadQuote(c, t) ==
    /\ calls' = [calls EXCEPT ![c] = Loading(t)]
    /\ loading' = TRUE
    /\ status' = Says("loading", t)
    /\ UNCHANGED <<quote, reloads>>

Sample(c, t) ==
    /\ calls[c] = NoCall
    /\ address' = QuoteUrl(Word(t))
    /\ LoadQuote(c, t)
    /\ UNCHANGED <<frame, copying>>

Type(a) ==
    /\ address' = a
    /\ UNCHANGED <<frame, panel, copying, calls, reloads>>

PullLiveData(c) ==
    /\ calls[c] = NoCall
    /\ calls' = [calls EXCEPT ![c] = Resolving(address)]
    /\ loading' = TRUE
    /\ status' = Says("resolving", "")
    /\ UNCHANGED <<field, quote, copying, reloads>>

SubmitBrowser ==
    /\ address' = FrameUrl(address)
    /\ frame' = FrameUrl(address)
    /\ UNCHANGED <<panel, copying, calls, reloads>>

(* Copied, or refused by the browser. *)
CopyUrl ==
    /\ address' = FrameUrl(IF address = Empty THEN frame ELSE address)
    /\ \/ /\ timers < MaxTimers
          /\ copied' = TRUE /\ timers' = timers + 1
          /\ UNCHANGED status
       \/ /\ status' = Says("blocked", "")
          /\ UNCHANGED copying
    /\ UNCHANGED <<frame, quote, loading, calls, reloads>>

TimerFires ==
    /\ timers > 0
    /\ copied' = FALSE /\ timers' = timers - 1
    /\ UNCHANGED <<field, panel, calls, reloads>>

(* What a failure leaves of the loading state.  Fault: not reset.           *)
FaultAfterFailure == loading
AfterFailure == FALSE

(* An error response, or none. *)
CallFails(c) ==
    /\ calls[c] # NoCall
    /\ calls' = [calls EXCEPT ![c] = NoCall]
    /\ status' = Says("failed", "")
    /\ loading' = AfterFailure
    /\ UNCHANGED <<field, quote, copying, reloads>>

(* GET /api/market/resolve answers with a ticker. *)
Resolved(c) ==
    /\ calls[c].kind = "resolve"
    /\ Infer(calls[c].address) # ""
    /\ LoadQuote(c, Infer(calls[c].address))
    /\ UNCHANGED <<field, copying>>

(* The provider has a chart of it.  Fault: its error is taken for a quote.  *)
FaultQuoted(t) == TRUE
Quoted(t) == t \in Listed

(* GET /api/market/quote answers with a quote. *)
QuoteLoaded(c) ==
    /\ calls[c].kind = "quote"
    /\ Quoted(calls[c].ticker)
    /\ quote' = calls[c].ticker
    /\ status' = Says("updated", calls[c].ticker)
    /\ loading' = FALSE
    /\ calls' = [calls EXCEPT ![c] = NoCall]
    /\ UNCHANGED <<field, copying, reloads>>

Answer(c) == Resolved(c) \/ QuoteLoaded(c) \/ CallFails(c)

BrowserNext ==
    \/ \E c \in Calls :
          \/ \E t \in Samples : Sample(c, t)
          \/ PullLiveData(c)
          \/ Answer(c)
    \/ \E a \in Typed : Type(a)
    \/ SubmitBrowser
    \/ CopyUrl
    \/ TimerFires
    \/ Reload

BrowserSpec == BrowserInit /\ [][BrowserNext]_browserVars

(* A fetch is answered or fails, at the latest when the proxy's own fetch   *)
(* gives up.                                                               *)
FairBrowserSpec == BrowserSpec /\ \A c \in Calls : WF_browserVars(Answer(c))

-----------------------------------------------------------------------------
Addresses == {Empty} \cup Typed \cup {FrameUrl(a) : a \in Typed} \cup
             {QuoteUrl(Word(t)) : t \in Samples \cup {Default}}

BrowserTypeOK ==
    /\ address \in Addresses /\ frame \in Addresses
    /\ quote \in Listed \cup {""}
    /\ status \in [says : {"loading", "resolving", "updated", "failed", "blocked"},
                   ticker : Tickers \cup {""}]
    /\ loading \in BOOLEAN /\ copied \in BOOLEAN
    /\ timers \in 0 .. MaxTimers /\ (copied => timers > 0)
    /\ calls \in [Calls -> {NoCall} \cup {Resolving(a) : a \in Addresses}
                                    \cup {Loading(t) : t \in Tickers}]
    /\ reloads \in 0 .. MaxReloads

(* The loading state is never left behind: whatever requests overtook one  *)
(* another and failed at whichever step, it ends.                          *)
LoadingEnds == loading ~> ~loading

(* Pressing Go, which rewrites the address, does not change the ticker     *)
(* that pulling live data from it asks for.  It holds where nothing, a URL, *)
(* a short word or one behind an exchange is typed; NASDAQ:AAPL and words  *)
(* of more than 12 characters lose their ticker (MCBrowserClaims.cfg).     *)
GoKeepsTicker == address # Empty => Infer(FrameUrl(address)) = Infer(address)

-----------------------------------------------------------------------------
(* What the component says of itself.                                      *)

(* "URL-to-ticker detection": from the address of a page about one listed  *)
(* ticker, that ticker is pulled.                                          *)
About(a) == {a.words[i].ticker : i \in DOMAIN a.words} \cap Listed
PageNamesTicker == \A t \in Listed : About(address) = {t} => Infer(address) = t

=============================================================================
