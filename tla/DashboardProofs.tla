---------------------------- MODULE DashboardProofs ----------------------------
(***************************************************************************)
(* What a page shows, for any pairs, however many users and scans decide   *)
(* them while it is rendered; and what the market browser on it asks for,   *)
(* for any tickers and addresses and any number of requests.               *)
(***************************************************************************)
EXTENDS Dashboard, MarketBrowser, TLAPS, NaturalsInduction, WellFoundedInduction

(* The mode a page tells is the backend's, and the decision a card shows   *)
(* or its scan has made was made since the render began.                   *)
Mode == IF mock THEN "mock" ELSE "live"
Current(p) ==
    /\ p.health \in {"missing", "fallback", Mode}
    /\ \A i \in Instruments :
          /\ p.since[i] <= decided[i]
          /\ p.cards[i].kind \in {"decision", "pending"} =>
                p.cards[i].number \in Nat /\ p.since[i] <= p.cards[i].number

PageInv == TypeOK /\ mock \in BOOLEAN /\ Current(render) /\ Current(page)

-----------------------------------------------------------------------------
(* The parts of a card differ.                                             *)
LEMMA Cards ==
    /\ Missing \in CardSet /\ Missing.kind = "missing"
    /\ Fallback \in CardSet /\ Fallback.kind = "unavailable"
    /\ \A n \in 0 .. MaxDecisions :
          /\ Decision(n) \in CardSet /\ Decision(n).kind = "decision"
          /\ Decision(n).number = n
          /\ Pending(n) \in CardSet /\ Pending(n).kind = "pending"
          /\ Pending(n).number = n
    /\ \A c \in CardSet : c.kind = "unavailable" => c = Fallback
    /\ \A c \in CardSet : c.kind = "pending" => c.number \in 0 .. MaxDecisions
<1>1. Missing.kind = "missing" /\ Fallback.kind = "unavailable"
  BY DEF Missing, Fallback
<1>2. \A n \in 0 .. MaxDecisions :
         /\ Decision(n).kind = "decision" /\ Decision(n).number = n
         /\ Pending(n).kind = "pending" /\ Pending(n).number = n
  BY DEF Decision, Pending
<1>. QED
  BY <1>1, <1>2 DEF CardSet

LEMMA BlankCurrent ==
    ASSUME NEW since \in [Instruments -> 0 .. MaxDecisions],
           decided \in [Instruments -> 0 .. MaxDecisions],
           \A i \in Instruments : since[i] <= decided[i]
    PROVE  Blank(since) \in PageSet /\ Current(Blank(since))
<1>1. /\ Blank(since).health = "missing" /\ Blank(since).since = since
      /\ \A i \in Instruments : Blank(since).cards[i] = Missing
  BY DEF Blank
<1>2. Blank(since) \in PageSet
  BY Cards DEF Blank, PageSet
<1>. QED
  BY <1>1, <1>2, Cards DEF Current

(* Further decisions leave a page current.                                 *)
LEMMA StaysCurrent ==
    ASSUME NEW p \in PageSet, Current(p), mock' = mock,
           decided \in [Instruments -> 0 .. MaxDecisions],
           decided' \in [Instruments -> 0 .. MaxDecisions],
           \A i \in Instruments : decided[i] <= decided'[i]
    PROVE  /\ p.health \in {"missing", "fallback", Mode'}
           /\ \A i \in Instruments :
                 /\ p.since[i] <= decided'[i]
                 /\ p.cards[i].kind \in {"decision", "pending"} =>
                       p.cards[i].number \in Nat /\ p.since[i] <= p.cards[i].number
<1>1. \A i \in Instruments : p.since[i] \in Nat /\ decided[i] \in Nat /\ decided'[i] \in Nat
  BY DEF PageSet
<1>. QED
  BY <1>1 DEF Current, Mode

LEMMA PageInit == Init => PageInv
<1>. SUFFICES ASSUME Init PROVE PageInv
  OBVIOUS
<1>1. MaxDecisions \in Nat
  BY DashboardAssumption
<1>2. None \in [Instruments -> 0 .. MaxDecisions] /\ decided = None
      /\ \A i \in Instruments : None[i] <= decided[i]
  BY <1>1 DEF Init, None
<1>3. Blank(None) \in PageSet /\ Current(Blank(None))
  BY <1>2, BlankCurrent
<1>. QED
  BY <1>2, <1>3 DEF Init, PageInv, TypeOK

(* One decision more of a pair.                                            *)
LEMMA OneMore ==
    ASSUME TypeOK, NEW i \in Instruments, decided[i] < MaxDecisions,
           decided' = [decided EXCEPT ![i] = @ + 1]
    PROVE  /\ decided' \in [Instruments -> 0 .. MaxDecisions]
           /\ \A j \in Instruments : decided[j] <= decided'[j]
           /\ decided[i] + 1 \in 0 .. MaxDecisions /\ decided'[i] = decided[i] + 1
BY DashboardAssumption DEF TypeOK

(* A request of the page goes on.                                          *)
LEMMA CardAnswered ==
    ASSUME PageInv, NEW i \in Instruments, NEW c \in CardSet, mock' = mock,
           decided' \in [Instruments -> 0 .. MaxDecisions],
           \A j \in Instruments : decided[j] <= decided'[j],
           c.kind \in {"decision", "pending"} =>
              c.number \in Nat /\ render.since[i] <= c.number,
           render' = [render EXCEPT !.cards[i] = c]
    PROVE  render' \in PageSet /\ Current(render)'
<1>1. render \in PageSet /\ Current(render) /\ decided \in [Instruments -> 0 .. MaxDecisions]
  BY DEF PageInv, TypeOK
<1>2. /\ render' \in PageSet /\ render'.health = render.health /\ render'.since = render.since
      /\ \A j \in Instruments : render'.cards[j] = IF j = i THEN c ELSE render.cards[j]
  BY <1>1 DEF PageSet
<1>3. /\ render.health \in {"missing", "fallback", Mode'}
      /\ \A j \in Instruments :
            /\ render.since[j] <= decided'[j]
            /\ render.cards[j].kind \in {"decision", "pending"} =>
                  render.cards[j].number \in Nat /\ render.since[j] <= render.cards[j].number
  BY <1>1, StaysCurrent
<1>. QED
  BY <1>2, <1>3 DEF Current

LEMMA PageNext ==
    ASSUME PageInv, [Next]_vars
    PROVE  PageInv'
<1>1. /\ decided \in [Instruments -> 0 .. MaxDecisions] /\ render \in PageSet /\ page \in PageSet
      /\ MaxDecisions \in Nat
      /\ \A i \in Instruments : decided[i] \in 0 .. MaxDecisions
  BY DashboardAssumption DEF PageInv, TypeOK
<1>2. ASSUME mock' = mock, page' = page, decided' \in [Instruments -> 0 .. MaxDecisions],
             \A i \in Instruments : decided[i] <= decided'[i]
      PROVE  Current(page)'
  BY <1>1, <1>2, StaysCurrent DEF PageInv, Current
<1>3. ASSUME mock' = mock, render' = render, decided' \in [Instruments -> 0 .. MaxDecisions],
             \A i \in Instruments : decided[i] <= decided'[i]
      PROVE  Current(render)'
  BY <1>1, <1>3, StaysCurrent DEF PageInv, Current
<1>4. ASSUME decided' = decided
      PROVE  /\ decided' \in [Instruments -> 0 .. MaxDecisions]
             /\ \A i \in Instruments : decided[i] <= decided'[i]
  BY <1>1, <1>4
<1>5. CASE \E i \in Instruments : OthersDecide(i)
  <2>1. PICK i \in Instruments : OthersDecide(i)
    BY <1>5
  <2>2. /\ decided' \in [Instruments -> 0 .. MaxDecisions]
        /\ \A j \in Instruments : decided[j] <= decided'[j]
    BY <2>1, OneMore DEF OthersDecide, PageInv
  <2>3. Current(render)' /\ Current(page)'
    BY <1>2, <1>3, <2>1, <2>2 DEF OthersDecide
  <2>. QED
    BY <2>1, <2>2, <2>3 DEF OthersDecide, PageInv, TypeOK, Whole
<1>6. CASE HealthAnswers
  <2>1. PICK h \in {Mode, "fallback"} : render' = [render EXCEPT !.health = h]
    BY <1>6 DEF HealthAnswers, Mode
  <2>2. /\ render' \in PageSet /\ render'.health = h
        /\ render'.cards = render.cards /\ render'.since = render.since
    BY <1>1, <2>1 DEF PageSet, Modes, Mode
  <2>3. Current(render)' /\ Current(page)'
    BY <1>2, <1>4, <1>6, <2>2 DEF HealthAnswers, PageInv, Current, Mode
  <2>. QED
    BY <1>6, <2>2, <2>3 DEF HealthAnswers, PageInv, TypeOK, Whole
<1>7. CASE \E i \in Instruments : Card(i)
  <2>1. PICK i \in Instruments : Card(i)
    BY <1>7
  <2>2. /\ decided' \in [Instruments -> 0 .. MaxDecisions]
        /\ \A j \in Instruments : decided[j] <= decided'[j]
    BY <1>4, <2>1, OneMore DEF Card, CardAnswers, CardScans, CardScanned, CardFails, PageInv
  <2>3. mock' = mock /\ UNCHANGED <<page, button, scan, scanned>>
    BY <2>1 DEF Card, CardAnswers, CardScans, CardScanned, CardFails
  <2>4. /\ render.since[i] \in Nat /\ render.since[i] <= decided[i]
        /\ render.cards[i] \in CardSet
        /\ render.cards[i].kind = "pending" => render.since[i] <= render.cards[i].number
    BY <1>1 DEF PageSet, PageInv, Current
  <2>5. render' \in PageSet /\ Current(render)'
    <3>1. CASE CardAnswers(i)
      BY <1>1, <2>2, <2>3, <2>4, <3>1, Cards, CardAnswered DEF CardAnswers, Fetched
    <3>2. CASE CardScans(i)
      <4>1. decided[i] + 1 \in 0 .. MaxDecisions /\ render.since[i] <= decided[i] + 1
        BY <1>1, <2>4, <3>2, OneMore DEF CardScans, PageInv
      <4>. QED
        BY <2>2, <2>3, <3>2, <4>1, Cards, CardAnswered DEF CardScans
    <3>3. CASE CardScanned(i)
      <4>1. render.cards[i].number \in 0 .. MaxDecisions
        BY <2>4, <3>3, Cards DEF CardScanned
      <4>. QED
        BY <1>1, <2>2, <2>3, <2>4, <3>3, <4>1, Cards, CardAnswered DEF CardScanned
    <3>4. CASE CardFails(i)
      BY <2>2, <2>3, <3>4, Cards, CardAnswered DEF CardFails
    <3>. QED
      BY <2>1, <3>1, <3>2, <3>3, <3>4 DEF Card
  <2>. QED
    BY <1>2, <2>2, <2>3, <2>5 DEF PageInv, TypeOK, Whole
<1>8. CASE ShowPage
  <2>1. Current(render)' /\ Current(page)'
    BY <1>8 DEF ShowPage, PageInv, Current, Mode
  <2>. QED
    BY <1>8, <2>1 DEF ShowPage, AllAnswered, PageInv, TypeOK, Whole
<1>9. CASE Visit \/ ScanAnswers
  <2>1. /\ render' = Blank(decided) /\ decided' = decided /\ mock' = mock /\ page' = page
    BY <1>9 DEF Visit, ScanAnswers, Render, Reloads
  <2>2. Blank(decided) \in PageSet /\ Current(Blank(decided))
    BY <1>1, BlankCurrent
  <2>3. Current(render)' /\ Current(page)'
    BY <1>2, <1>4, <2>1, <2>2 DEF Current, Mode
  <2>. QED
    BY <1>9, <2>1, <2>2, <2>3 DEF Visit, ScanAnswers, PageInv, TypeOK, Whole
<1>10. CASE ScanDecides
  <2>1. scan \in Seq(Instruments) /\ scan # <<>>
    BY <1>10 DEF ScanDecides, PageInv, TypeOK
  <2>2. Head(scan) \in Instruments /\ Tail(scan) \in Seq(Instruments)
    BY <2>1
  <2>3. /\ decided' \in [Instruments -> 0 .. MaxDecisions]
        /\ \A j \in Instruments : decided[j] <= decided'[j]
    BY <1>10, <2>2, OneMore DEF ScanDecides, PageInv
  <2>4. Current(render)' /\ Current(page)'
    BY <1>2, <1>3, <1>10, <2>3 DEF ScanDecides
  <2>. QED
    BY <1>10, <2>2, <2>3, <2>4 DEF ScanDecides, PageInv, TypeOK, Whole
<1>11. CASE ClickScan \/ ScanFails \/ UNCHANGED vars
  <2>1. UNCHANGED <<mock, decided, render, page, scanned>>
    BY <1>11 DEF ClickScan, ScanFails, vars
  <2>2. Current(render)' /\ Current(page)'
    BY <1>2, <1>3, <1>4, <2>1
  <2>3. /\ scan' \in Seq(Instruments) /\ (scan' # <<>> => button' = "pending")
        /\ button' \in {"idle", "pending", "done", "failed"}
    <3>1. CASE ClickScan
      BY <3>1, DashboardAssumption DEF ClickScan
    <3>2. CASE ScanFails
      BY <3>2 DEF ScanFails
    <3>3. CASE UNCHANGED vars
      BY <3>3 DEF vars, PageInv, TypeOK
    <3>. QED
      BY <1>11, <3>1, <3>2, <3>3
  <2>. QED
    BY <2>1, <2>2, <2>3 DEF PageInv, TypeOK, Whole
<1>. QED
  BY <1>5, <1>6, <1>7, <1>8, <1>9, <1>10, <1>11 DEF Next, Rendering, Scanning

LEMMA PageHolds == Spec => []PageInv
<1>1. PageInv /\ [Next]_vars => PageInv'
  BY PageNext
<1>. QED
  BY <1>1, PageInit, PTL DEF Spec

-----------------------------------------------------------------------------
(* Type correctness; the page shown is blank or whole, never half rendered. *)
THEOREM DashboardTyped == Spec => []TypeOK
BY PageHolds, PTL DEF PageInv

(* A page without an error banner tells the backend's mode and decisions    *)
(* no older than its render.                                               *)
THEOREM PageIsCurrent == Spec => []ErrorFreeIsCurrent
<1>1. PageInv => ErrorFreeIsCurrent
  <2>. SUFFICES ASSUME PageInv, Whole(page), ~HasError(page)
                PROVE  /\ Banner(page) = IF mock THEN "MOCK" ELSE "LIVE"
                       /\ \A i \in Instruments :
                             /\ page.cards[i].kind = "decision"
                             /\ page.cards[i].number >= page.since[i]
    BY DEF ErrorFreeIsCurrent
  <2>1. page.health = Mode
    BY DEF PageInv, Current, Whole, HasError
  <2>2. \A i \in Instruments :
           /\ page.cards[i] \in CardSet /\ page.cards[i].kind = "decision"
           /\ page.since[i] \in Nat
    BY Cards DEF PageInv, TypeOK, PageSet, Whole, HasError
  <2>3. \A i \in Instruments :
           page.cards[i].kind = "decision" /\ page.cards[i].number \in Nat
           /\ page.since[i] <= page.cards[i].number
    BY <2>2 DEF PageInv, Current
  <2>. QED
    BY <2>1, <2>2, <2>3 DEF Banner, Mode
<1>. QED
  BY <1>1, PageHolds, PTL

-----------------------------------------------------------------------------
(* The market browser: addresses and the tickers found in them.            *)

(* Every non-empty set of naturals has a least element.                    *)
LEMMA LeastNatural ==
    ASSUME NEW T \in SUBSET Nat, T # {}
    PROVE  \E x \in T : \A y \in T : x <= y
<1>1. \E x \in T : \A y \in T : ~(<<y, x>> \in OpToRel(<, Nat))
  <2>. HIDE DEF OpToRel, IsWellFoundedOn
  <2>. QED
    BY NatLessThanWellFounded, WFMin
<1>2. PICK x \in T : \A y \in T : ~(<<y, x>> \in OpToRel(<, Nat))
  BY <1>1
<1>3. \A y \in T : ~(y < x)
  BY <1>2 DEF OpToRel
<1>. QED
  BY <1>3

(* The first and the last position are positions.                          *)
LEMMA MinIsIn ==
    ASSUME NEW n \in Nat, NEW I \in SUBSET (1 .. n), I # {}
    PROVE  Min(I) \in I
<1>1. I \in SUBSET Nat
  OBVIOUS
<1>2. \E x \in I : \A y \in I : x <= y
  BY <1>1, LeastNatural
<1>. QED
  BY <1>2 DEF Min

LEMMA MaxIsIn ==
    ASSUME NEW n \in Nat, NEW I \in SUBSET (1 .. n), I # {}
    PROVE  Max(I) \in I
<1>. DEFINE FromTheEnd == {n - i : i \in I}
<1>1. FromTheEnd \in SUBSET Nat /\ FromTheEnd # {}
  <2>1. \A i \in I : n - i \in Nat
    OBVIOUS
  <2>. QED
    BY <2>1
<1>2. PICK k \in FromTheEnd : \A j \in FromTheEnd : k <= j
  <2>. HIDE DEF FromTheEnd
  <2>. QED
    BY <1>1, LeastNatural
<1>3. PICK x \in I : k = n - x
  BY <1>2
<1>4. \A y \in I : x >= y
  <2>. TAKE y \in I
  <2>1. n - x <= n - y
    BY <1>2, <1>3
  <2>. QED
    BY <2>1
<1>. QED
  BY <1>4 DEF Max

(* parseTickerFromUrl returns a ticker or nothing, from whatever words.    *)
LEMMA InferredFromUrl ==
    ASSUME NEW a, a.params \in Seq(WordSet), a.words \in Seq(WordSet)
    PROVE  InferUrl(a) \in Tickers \cup {""}
<1>. DEFINE named == {i \in 1 .. Len(a.params) : a.params[i].ticker # ""}
            listings == {i \in 1 .. Len(a.words) : a.words[i].prefixed}
            words == {i \in 1 .. Len(a.words) : a.words[i].ticker # "" /\ a.words[i].short}
            param == IF named # {} THEN Min(named) ELSE 0
            listing == IF listings # {} THEN Min(listings) ELSE 0
            last == IF words # {} THEN Max(words) ELSE 0
<1>1. InferUrl(a) = IF param # 0 THEN a.params[param].ticker
                    ELSE IF listing # 0 THEN a.words[listing].ticker
                    ELSE IF last # 0 THEN a.words[last].ticker ELSE ""
  BY DEF InferUrl, SelectInSeq, SelectLastInSeq
<1>2. Len(a.params) \in Nat /\ Len(a.words) \in Nat
  OBVIOUS
<1>3. param # 0 => param \in 1 .. Len(a.params)
  BY <1>2, MinIsIn
<1>4. listing # 0 => listing \in 1 .. Len(a.words)
  BY <1>2, MinIsIn
<1>5. last # 0 => last \in 1 .. Len(a.words)
  BY <1>2, MaxIsIn
<1>6. /\ \A i \in 1 .. Len(a.params) : a.params[i] \in WordSet
      /\ \A i \in 1 .. Len(a.words) : a.words[i] \in WordSet
  OBVIOUS
<1>7. \A w \in WordSet : w.ticker \in Tickers \cup {""}
  BY DEF WordSet
<1>. HIDE DEF param, listing, last
<1>. QED
  BY <1>1, <1>3, <1>4, <1>5, <1>6, <1>7

(* An address is well formed; a bare word or broken one has a single word. *)
WellFormed(a) ==
    /\ a \in AddressSet
    /\ a.kind = "empty" => a = Empty
    /\ a.kind \in {"word", "broken"} => Len(a.words) = 1

LEMMA UrlFormed ==
    ASSUME NEW word \in WordSet
    PROVE  /\ QuoteUrl(word) \in AddressSet /\ WellFormed(QuoteUrl(word))
           /\ QuoteUrl(word).kind = "url" /\ QuoteUrl(word).params = <<>>
           /\ QuoteUrl(word).words = <<StopWord, word>>
<1>1. StopWord \in WordSet
  BY DEF StopWord, Word, WordSet
<1>2. <<StopWord, word>> \in Seq(WordSet) /\ <<>> \in Seq(WordSet)
  BY <1>1
<1>. QED
  BY <1>2 DEF QuoteUrl, Url, AddressSet, WellFormed

LEMMA TickerWord ==
    ASSUME NEW t \in Tickers
    PROVE  Word(t) \in WordSet /\ Word(t).ticker = t
BY DEF Word, WordSet

(* Go turns an address into one it leaves alone.                           *)
LEMMA FrameUrlFormed ==
    ASSUME NEW a, WellFormed(a), a.kind = "broken" => Nonsense \in WordSet
    PROVE  /\ WellFormed(FrameUrl(a))
           /\ FrameUrl(FrameUrl(a)) = FrameUrl(a)
           /\ a.kind = "url" => FrameUrl(a) = a
           /\ a.kind = "word" => FrameUrl(a) = QuoteUrl(a.words[1])
           /\ a.kind = "empty" => FrameUrl(a) = QuoteUrl(Word(Default))
<1>1. Word(Default) \in WordSet
  BY BrowserAssumption, TickerWord
<1>2. /\ a.kind \in {"empty", "word", "url", "broken"}
      /\ a.words \in Seq(WordSet) /\ a.params \in Seq(WordSet)
  BY DEF WellFormed, AddressSet
<1>3. CASE a.kind = "url"
  BY <1>3 DEF FrameUrl
<1>4. CASE a.kind = "word"
  <2>1. a.words[1] \in WordSet
    BY <1>2, <1>4 DEF WellFormed
  <2>. QED
    BY <1>4, <2>1, UrlFormed DEF FrameUrl
<1>5. CASE a.kind = "empty"
  BY <1>1, <1>5, UrlFormed DEF FrameUrl
<1>6. CASE a.kind = "broken"
  <2>. DEFINE b == [a EXCEPT !.words = <<Nonsense>>]
  <2>1. <<Nonsense>> \in Seq(WordSet) /\ Len(<<Nonsense>>) = 1
    BY <1>6
  <2>2. /\ b \in AddressSet /\ b.kind = "broken" /\ b.words = <<Nonsense>>
        /\ [b EXCEPT !.words = <<Nonsense>>] = b
    BY <1>6, <2>1 DEF WellFormed, AddressSet
  <2>3. FrameUrl(a) = b /\ FrameUrl(b) = b
    BY <1>6, <2>2 DEF FrameUrl
  <2>. QED
    BY <1>6, <2>1, <2>2, <2>3 DEF WellFormed
<1>. QED
  BY <1>2, <1>3, <1>4, <1>5, <1>6

-----------------------------------------------------------------------------
(* Every address the browser meets is well formed.                         *)
LEMMA AddressesFormed ==
    /\ Empty \in Addresses
    /\ \A t \in Samples \cup {Default} : QuoteUrl(Word(t)) \in Addresses
    /\ Typed \subseteq Addresses
    /\ \A a \in Addresses : WellFormed(a) /\ FrameUrl(a) \in Addresses
<1>1. \A t \in Samples \cup {Default} : Word(t) \in WordSet
  BY BrowserAssumption, TickerWord
<1>2. WellFormed(Empty) /\ Empty.kind = "empty"
  BY DEF Empty, AddressSet, WellFormed
<1>3. ASSUME NEW a \in Typed
      PROVE  /\ WellFormed(a) /\ WellFormed(FrameUrl(a))
             /\ FrameUrl(FrameUrl(a)) = FrameUrl(a)
  <2>1. WellFormed(a) /\ (a.kind = "broken" => Nonsense \in WordSet)
    BY BrowserAssumption DEF WellFormed
  <2>. QED
    BY <2>1, FrameUrlFormed
<1>4. FrameUrl(Empty) \in Addresses
  BY <1>2, FrameUrlFormed DEF Addresses
<1>5. ASSUME NEW t \in Samples \cup {Default}
      PROVE  WellFormed(QuoteUrl(Word(t))) /\ FrameUrl(QuoteUrl(Word(t))) \in Addresses
  <2>1. WellFormed(QuoteUrl(Word(t))) /\ QuoteUrl(Word(t)).kind = "url"
    BY <1>1, UrlFormed
  <2>2. FrameUrl(QuoteUrl(Word(t))) = QuoteUrl(Word(t))
    BY <2>1, FrameUrlFormed
  <2>. QED
    BY <2>1, <2>2 DEF Addresses
<1>. QED
  BY <1>2, <1>3, <1>4, <1>5 DEF Addresses

(* From each of them a ticker or nothing is inferred.                      *)
LEMMA InferredTicker ==
    ASSUME NEW a \in Addresses
    PROVE  Infer(a) \in Tickers \cup {""}
<1>1. WellFormed(a)
  BY AddressesFormed
<1>2. /\ a.kind \in {"empty", "word", "url", "broken"}
      /\ a.words \in Seq(WordSet) /\ a.params \in Seq(WordSet)
  BY <1>1 DEF WellFormed, AddressSet
<1>3. a.kind \in {"word", "broken"} => a.words[1] \in WordSet
  BY <1>1, <1>2 DEF WellFormed
<1>4. \A w \in WordSet : w.ticker \in Tickers \cup {""}
  BY DEF WordSet
<1>. QED
  BY <1>2, <1>3, <1>4, InferredFromUrl DEF Infer

(* The calls and the lines of the panel.                                   *)
CallSet == {NoCall} \cup {Resolving(a) : a \in Addresses} \cup {Loading(t) : t \in Tickers}
StatusSet == [says : {"loading", "resolving", "updated", "failed", "blocked"},
              ticker : Tickers \cup {""}]

LEMMA CallParts ==
    /\ \A a \in Addresses : Resolving(a) \in CallSet
    /\ \A t \in Tickers : Loading(t) \in CallSet
    /\ NoCall \in CallSet
    /\ \A c \in CallSet : c.kind = "resolve" => c.address \in Addresses
    /\ \A c \in CallSet : c.kind = "quote" => c.ticker \in Tickers
<1>1. NoCall.kind = "none"
  BY DEF NoCall
<1>2. \A a \in Addresses : Resolving(a).kind = "resolve" /\ Resolving(a).address = a
  BY DEF Resolving
<1>3. \A t \in Tickers : Loading(t).kind = "quote" /\ Loading(t).ticker = t
  BY DEF Loading
<1>. QED
  BY <1>1, <1>2, <1>3 DEF CallSet

LEMMA StatusParts ==
    /\ \A t \in Tickers : Says("loading", t) \in StatusSet /\ Says("updated", t) \in StatusSet
    /\ \A what \in {"resolving", "failed", "blocked"} : Says(what, "") \in StatusSet
BY DEF Says, StatusSet

(* A page just loaded.                                                     *)
LEMMA FreshPage ==
    ASSUME NEW c \in Calls
    PROVE  /\ FirstCall(c) \in [Calls -> CallSet]
           /\ QuoteUrl(Word(Default)) \in Addresses /\ Empty \in Addresses
           /\ Says("loading", Default) \in StatusSet /\ Default \in Tickers
<1>1. Default \in Tickers
  BY BrowserAssumption
<1>2. FirstCall(c) \in [Calls -> CallSet]
  BY <1>1, CallParts DEF FirstCall
<1>. QED
  BY <1>1, <1>2, AddressesFormed, StatusParts

LEMMA Bounds ==
    /\ MaxTimers \in Nat /\ MaxReloads \in Nat
    /\ 0 \in 0 .. MaxTimers /\ 0 \in 0 .. MaxReloads
<1>1. MaxTimers \in Nat /\ MaxReloads \in Nat
  BY BrowserAssumption
<1>. QED
  BY <1>1

LEMMA BrowserInitTyped == BrowserInit => BrowserTypeOK
<1>. SUFFICES ASSUME BrowserInit PROVE BrowserTypeOK
  OBVIOUS
<1>1. PICK c \in Calls : calls = FirstCall(c)
  BY DEF BrowserInit
<1>. QED
  BY <1>1, Bounds, FreshPage DEF BrowserInit, BrowserTypeOK, CallSet, StatusSet

LEMMA BrowserNextTyped ==
    ASSUME BrowserTypeOK, [BrowserNext]_browserVars
    PROVE  BrowserTypeOK'
<1>0. timers \in 0 .. MaxTimers /\ reloads \in 0 .. MaxReloads
  BY DEF BrowserTypeOK
<1>1. /\ address \in Addresses /\ frame \in Addresses /\ status \in StatusSet
      /\ calls \in [Calls -> CallSet]
  BY DEF BrowserTypeOK, CallSet, StatusSet
<1>2. CASE \E c \in Calls, t \in Samples : Sample(c, t)
  <2>1. PICK c \in Calls, t \in Samples : Sample(c, t)
    BY <1>2
  <2>2. t \in Tickers /\ QuoteUrl(Word(t)) \in Addresses
    BY BrowserAssumption, AddressesFormed
  <2>3. Loading(t) \in CallSet /\ Says("loading", t) \in StatusSet
    BY <2>2, CallParts, StatusParts
  <2>4. calls' \in [Calls -> CallSet] /\ status' \in StatusSet
    BY <1>1, <2>1, <2>3 DEF Sample, LoadQuote
  <2>. QED
    BY <2>1, <2>2, <2>4 DEF Sample, LoadQuote, copying, BrowserTypeOK, CallSet, StatusSet
<1>3. CASE \E a \in Typed : Type(a)
  <2>1. address' \in Addresses /\ UNCHANGED <<frame, panel, copying, calls, reloads>>
    BY <1>3, AddressesFormed DEF Type
  <2>. QED
    BY <2>1 DEF panel, copying, BrowserTypeOK, CallSet, StatusSet
<1>4. CASE \E c \in Calls : PullLiveData(c)
  <2>1. PICK c \in Calls : PullLiveData(c)
    BY <1>4
  <2>2. Resolving(address) \in CallSet /\ Says("resolving", "") \in StatusSet
    BY <1>1, CallParts, StatusParts
  <2>3. calls' \in [Calls -> CallSet] /\ status' \in StatusSet
    BY <1>1, <2>1, <2>2 DEF PullLiveData
  <2>. QED
    BY <2>1, <2>2, <2>3 DEF PullLiveData, field, copying, BrowserTypeOK, CallSet, StatusSet
<1>5. CASE SubmitBrowser
  BY <1>1, <1>5, AddressesFormed DEF SubmitBrowser, panel, copying, BrowserTypeOK
<1>6. CASE CopyUrl
  <2>1. address' \in Addresses
    BY <1>1, <1>6, AddressesFormed DEF CopyUrl
  <2>2. UNCHANGED <<frame, quote, loading, calls, reloads>>
    BY <1>6 DEF CopyUrl
  <2>3. /\ status' \in StatusSet /\ copied' \in BOOLEAN /\ timers' \in 0 .. MaxTimers
        /\ copied' => timers' > 0
    <3>1. CASE timers < MaxTimers /\ copied' = TRUE /\ timers' = timers + 1 /\ UNCHANGED status
      <4>1. timers' \in 0 .. MaxTimers /\ timers' > 0
        BY <1>0, Bounds, <3>1
      <4>. QED
        BY <1>1, <3>1, <4>1
    <3>2. CASE status' = Says("blocked", "") /\ UNCHANGED copying
      BY <3>2, StatusParts DEF copying, BrowserTypeOK
    <3>. QED
      BY <1>6, <3>1, <3>2 DEF CopyUrl
  <2>. QED
    BY <2>1, <2>2, <2>3 DEF BrowserTypeOK, StatusSet
<1>7. CASE TimerFires
  <2>1. copied' = FALSE /\ timers' \in 0 .. MaxTimers
    BY <1>0, Bounds, <1>7 DEF TimerFires
  <2>. QED
    BY <1>7, <2>1 DEF TimerFires, field, panel, BrowserTypeOK
<1>8. CASE \E c \in Calls : CallFails(c)
  <2>1. PICK c \in Calls : CallFails(c)
    BY <1>8
  <2>2. calls' \in [Calls -> CallSet] /\ status' \in StatusSet /\ loading' \in BOOLEAN
    BY <1>1, <2>1, CallParts, StatusParts DEF CallFails, AfterFailure
  <2>. QED
    BY <2>1, <2>2 DEF CallFails, field, copying, BrowserTypeOK, CallSet, StatusSet
<1>9. CASE \E c \in Calls : Resolved(c)
  <2>1. PICK c \in Calls : Resolved(c)
    BY <1>9
  <2>. DEFINE t == Infer(calls[c].address)
  <2>2. t \in Tickers
    <3>1. calls[c].address \in Addresses
      BY <1>1, <2>1, CallParts DEF Resolved
    <3>. QED
      BY <2>1, <3>1, InferredTicker DEF Resolved
  <2>3. Loading(t) \in CallSet /\ Says("loading", t) \in StatusSet
    BY <2>2, CallParts, StatusParts
  <2>4. calls' = [calls EXCEPT ![c] = Loading(t)] /\ loading' = TRUE
        /\ status' = Says("loading", t) /\ UNCHANGED <<quote, reloads, field, copying>>
    BY <2>1 DEF Resolved, LoadQuote
  <2>5. calls' \in [Calls -> CallSet] /\ status' \in StatusSet
    BY <1>1, <2>3, <2>4
  <2>. QED
    BY <2>4, <2>5 DEF field, copying, BrowserTypeOK, CallSet, StatusSet
<1>10. CASE \E c \in Calls : QuoteLoaded(c)
  <2>1. PICK c \in Calls : QuoteLoaded(c)
    BY <1>10
  <2>2. calls[c].ticker \in Listed /\ calls[c].ticker \in Tickers
    BY <2>1, BrowserAssumption DEF QuoteLoaded, Quoted
  <2>3. calls' \in [Calls -> CallSet] /\ status' \in StatusSet
    BY <1>1, <2>1, <2>2, CallParts, StatusParts DEF QuoteLoaded
  <2>. QED
    BY <2>1, <2>2, <2>3 DEF QuoteLoaded, field, copying, BrowserTypeOK, CallSet, StatusSet
<1>11. CASE Reload
  <2>1. PICK c \in Calls : calls' = FirstCall(c)
    BY <1>11 DEF Reload
  <2>2. reloads < MaxReloads /\ reloads' = reloads + 1
    BY <1>11 DEF Reload
  <2>3. reloads' \in 0 .. MaxReloads
    BY <1>0, <2>2, Bounds
  <2>. QED
    BY <1>11, <2>1, <2>3, Bounds, FreshPage DEF Reload, BrowserTypeOK, CallSet, StatusSet
<1>12. CASE UNCHANGED browserVars
  BY <1>12 DEF browserVars, field, panel, copying, BrowserTypeOK
<1>. QED
  BY <1>2, <1>3, <1>4, <1>5, <1>6, <1>7, <1>8, <1>9, <1>10, <1>11, <1>12
  DEF BrowserNext, Answer

(* Type correctness of the browser.  What holds beyond the shapes: a quote  *)
(* is shown only of a listed ticker, every call asks for a ticker or an     *)
(* address the browser can have, and "Copied" has a timer to reset it,      *)
(* whatever is typed and in whichever order requests are answered.          *)
THEOREM BrowserTyped == BrowserSpec => []BrowserTypeOK
<1>1. BrowserTypeOK /\ [BrowserNext]_browserVars => BrowserTypeOK'
  BY BrowserNextTyped
<1>. QED
  BY <1>1, BrowserInitTyped, PTL DEF BrowserSpec

(* An address parseTickerFromUrl reads as well behind the prefix Go gives   *)
(* it as bare: a URL, nothing, or a word of at most 12 characters or behind *)
(* an exchange.                                                            *)
Readable(a) ==
    /\ a.kind # "broken"
    /\ a.kind = "word" => a.words[1].short \/ a.words[1].prefixed

LEMMA GoKeepsWord ==
    ASSUME NEW word \in WordSet, word.short \/ word.prefixed
    PROVE  InferUrl(QuoteUrl(word)) = word.ticker
<1>. DEFINE list == <<StopWord, word>>
            listings == {i \in 1 .. Len(list) : list[i].prefixed}
            words == {i \in 1 .. Len(list) : list[i].ticker # "" /\ list[i].short}
            listing == IF listings # {} THEN Min(listings) ELSE 0
            last == IF words # {} THEN Max(words) ELSE 0
<1>1. QuoteUrl(word).params = <<>> /\ QuoteUrl(word).words = list
  BY UrlFormed
<1>2. InferUrl(QuoteUrl(word)) =
        IF listing # 0 THEN list[listing].ticker ELSE IF last # 0 THEN list[last].ticker ELSE ""
  <2>. DEFINE url == QuoteUrl(word)
              param == SelectInSeq(url.params, LAMBDA w : w.ticker # "")
  <2>1. param = 0
    BY <1>1 DEF SelectInSeq
  <2>2. /\ SelectInSeq(url.words, LAMBDA w : w.prefixed) = listing
        /\ SelectLastInSeq(url.words, LAMBDA w : w.ticker # "" /\ w.short) = last
    BY <1>1 DEF SelectInSeq, SelectLastInSeq
  <2>. QED
    BY <1>1, <2>1, <2>2 DEF InferUrl
<1>3. Len(list) = 2 /\ list[1] = StopWord /\ list[2] = word
  OBVIOUS
<1>4. StopWord.ticker = "" /\ ~StopWord.prefixed
  BY DEF StopWord, Word
<1>5. Min({2}) = 2 /\ Max({2}) = 2
  BY MinIsIn, MaxIsIn
<1>. HIDE DEF list
<1>6. Len(list) = 2 => 1 .. Len(list) = {1, 2}
  OBVIOUS
<1>7. word.prefixed => listing = 2
  <2>1. word.prefixed => listings = {2}
    BY <1>3, <1>4, <1>6
  <2>. HIDE DEF listings
  <2>. QED
    BY <1>5, <2>1
<1>8. ~word.prefixed => listing = 0
  <2>1. ~word.prefixed => listings = {}
    BY <1>3, <1>4, <1>6
  <2>. QED
    BY <2>1
<1>9. word.ticker # "" /\ word.short => last = 2
  <2>1. word.ticker # "" /\ word.short => words = {2}
    BY <1>3, <1>4, <1>6
  <2>. HIDE DEF words
  <2>. QED
    BY <1>5, <2>1
<1>10. word.ticker = "" => last = 0
  <2>1. word.ticker = "" => words = {}
    BY <1>3, <1>4, <1>6
  <2>. QED
    BY <2>1
<1>. HIDE DEF listing, last
<1>11. CASE word.prefixed
  BY <1>2, <1>3, <1>7, <1>11
<1>12. CASE ~word.prefixed /\ word.ticker # "" /\ word.short
  <2>1. listing = 0 /\ last = 2
    BY <1>8, <1>9, <1>12, Zenon
  <2>. QED
    BY <1>2, <1>3, <2>1
<1>13. CASE ~word.prefixed /\ word.ticker = ""
  BY <1>2, <1>8, <1>10, <1>13
<1>. QED
  BY <1>11, <1>12, <1>13

(* Go does not change the ticker that is asked for, whatever is typed, as   *)
(* long as what is typed is readable; MCBrowserClaims shows NASDAQ:AAPL,    *)
(* which is not, lose its ticker.                                          *)
THEOREM GoKeeps ==
    ASSUME \A a \in Typed : Readable(a)
    PROVE  BrowserSpec => []GoKeepsTicker
<1>1. ASSUME NEW a, WellFormed(a), Readable(a), a # Empty
      PROVE  Infer(FrameUrl(a)) = Infer(a)
  <2>1. a.kind \in {"word", "url"} /\ a.words \in Seq(WordSet)
    BY <1>1 DEF WellFormed, AddressSet, Readable
  <2>2. CASE a.kind = "url"
    BY <2>2 DEF FrameUrl
  <2>3. CASE a.kind = "word"
    <3>1. a.words[1] \in WordSet
      BY <1>1, <2>1, <2>3 DEF WellFormed
    <3>2. FrameUrl(a) = QuoteUrl(a.words[1]) /\ QuoteUrl(a.words[1]).kind = "url"
      BY <2>3, <3>1, UrlFormed DEF FrameUrl
    <3>3. InferUrl(QuoteUrl(a.words[1])) = a.words[1].ticker
      BY <1>1, <2>3, <3>1, GoKeepsWord DEF Readable
    <3>. QED
      BY <2>3, <3>2, <3>3 DEF Infer
  <2>. QED
    BY <2>1, <2>2, <2>3
<1>2. ASSUME NEW a \in Addresses, a # Empty
      PROVE  Infer(FrameUrl(a)) = Infer(a)
  <2>1. CASE a \in Typed
    BY <1>1, <1>2, <2>1, AddressesFormed
  <2>2. CASE \E b \in Typed : a = FrameUrl(b)
    <3>1. PICK b \in Typed : a = FrameUrl(b)
      BY <2>2
    <3>2. WellFormed(b) /\ b.kind # "broken"
      BY AddressesFormed DEF Readable
    <3>. QED
      BY <3>1, <3>2, FrameUrlFormed
  <2>3. CASE \E t \in Samples \cup {Default} : a = QuoteUrl(Word(t))
    <3>1. PICK t \in Samples \cup {Default} : a = QuoteUrl(Word(t))
      BY <2>3
    <3>2. a.kind = "url"
      BY <3>1, BrowserAssumption, TickerWord, UrlFormed
    <3>. QED
      BY <3>2 DEF FrameUrl
  <2>. QED
    BY <1>2, <2>1, <2>2, <2>3 DEF Addresses
<1>3. BrowserTypeOK => GoKeepsTicker
  BY <1>2 DEF BrowserTypeOK, GoKeepsTicker
<1>. QED
  BY <1>3, BrowserTyped, PTL

=============================================================================
