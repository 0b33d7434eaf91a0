------------------------------- MODULE Dashboard -------------------------------
(***************************************************************************)
(* The dashboard page and its scan button over the backend: the server     *)
(* renders the page from six requests, each answered or failing on its     *)
(* own; the button has every pair scanned and loads the page again; other  *)
(* users and the cron job decide pairs all the while.  The market browser  *)
(* on the page is MarketBrowser.                                           *)
(*                                                                         *)
(* Of a decision only its number counts, one up for each pair.             *)
(***************************************************************************)
EXTENDS Naturals, Sequences

CONSTANTS
    InstrumentOrder,  \* the pairs, in the order POST /scan takes them
    MaxDecisions      \* bound: decisions of a pair

Instruments == {InstrumentOrder[i] : i \in DOMAIN InstrumentOrder}

ASSUME DashboardAssumption ==
    /\ InstrumentOrder \in Seq(Instruments) /\ InstrumentOrder # <<>>
    /\ MaxDecisions \in Nat

VARIABLES
    mock,       \* MOCK_DATA of the backend
    decided,    \* the last decision of each pair
    rendering,  \* the server renders the page
    render,     \* that page as far as its requests have answered
    page,       \* the page the user looks at
    button,     \* the scan button: idle, pending, done or failed
    scan,       \* the pairs its request has still to scan
    scanned     \* what its last successful scan decided (history)

vars == <<mock, decided, rendering, render, page, button, scan, scanned>>

-----------------------------------------------------------------------------
(* Parts of a page: not there yet, the fallback, or what was answered; of a *)
(* card also the decision a request has committed and not yet answered.    *)
Modes == {"live", "mock"}
Decision(n) == [kind |-> "decision", number |-> n]
Pending(n) == [kind |-> "pending", number |-> n]
Missing == [kind |-> "missing"]
Fallback == [kind |-> "unavailable"]
CardSet == {Missing, Fallback} \cup {Decision(n) : n \in 0 .. MaxDecisions}
                               \cup {Pending(n) : n \in 0 .. MaxDecisions}

(* A page, and what was decided when its render began (history). *)
PageSet == [health : Modes \cup {"missing", "fallback"}, cards : [Instruments -> CardSet],
            since : [Instruments -> 0 .. MaxDecisions]]

Blank(since) ==
    [health |-> "missing", cards |-> [i \in Instruments |-> Missing], since |-> since]
Whole(p) ==
    /\ p.health # "missing"
    /\ \A i \in Instruments : p.cards[i].kind \in {"decision", "unavailable"}

(* The error banner: the first part that failed. *)
HasError(p) == p.health = "fallback" \/ \E i \in Instruments : p.cards[i] = Fallback

(* The data banner.  The fallback has mock_data_enabled false. *)
Banner(p) == IF p.health = "mock" THEN "MOCK" ELSE "LIVE"

-----------------------------------------------------------------------------
None == [i \in Instruments |-> 0]

Init ==
    /\ mock \in BOOLEAN
    /\ decided = None /\ scanned = None
    /\ rendering = TRUE /\ render = Blank(None) /\ page = Blank(None)
    /\ button = "idle" /\ scan = <<>>

(* Another process scans a pair. *)
OthersDecide(i) ==
    /\ decided[i] < MaxDecisions
    /\ decided' = [decided EXCEPT ![i] = @ + 1]
    /\ UNCHANGED <<mock, rendering, render, page, button, scan, scanned>>

(* getHealth. *)
HealthAnswers ==
    /\ rendering /\ render.health = "missing"
    /\ \E h \in {IF mock THEN "mock" ELSE "live", "fallback"} :
          render' = [render EXCEPT !.health = h]
    /\ UNCHANGED <<mock, decided, rendering, page, button, scan, scanned>>

(* What a fetch of a pair's decision returns.  Fault: cached from the last *)
(* render.                                                                 *)
FaultFetched(i) == IF page.cards[i].kind = "decision" THEN page.cards[i].number ELSE decided[i]
Fetched(i) == decided[i]

(* getRecommendation: the journaled decision, *)
CardAnswers(i) ==
    /\ rendering /\ render.cards[i] = Missing
    /\ decided[i] > 0
    /\ render' = [render EXCEPT !.cards[i] = Decision(Fetched(i))]
    /\ UNCHANGED <<mock, decided, rendering, page, button, scan, scanned>>

(* a new one where there is none or it is stale, which the request commits *)
CardScans(i) ==
    /\ rendering /\ render.cards[i] = Missing
    /\ decided[i] < MaxDecisions
    /\ decided' = [decided EXCEPT ![i] = @ + 1]
    /\ render' = [render EXCEPT !.cards[i] = Pending(decided[i] + 1)]
    /\ UNCHANGED <<mock, rendering, page, button, scan, scanned>>

(* and answers with, whoever has decided the pair again by then,           *)
CardScanned(i) ==
    /\ rendering /\ render.cards[i].kind = "pending"
    /\ render' = [render EXCEPT !.cards[i] = Decision(render.cards[i].number)]
    /\ UNCHANGED <<mock, decided, rendering, page, button, scan, scanned>>

(* or emptyRecommendation where the request fails, also after its commit.  *)
CardFails(i) ==
    /\ rendering /\ render.cards[i].kind \in {"missing", "pending"}
    /\ render' = [render EXCEPT !.cards[i] = Fallback]
    /\ UNCHANGED <<mock, decided, rendering, page, button, scan, scanned>>

Card(i) == CardAnswers(i) \/ CardScans(i) \/ CardScanned(i) \/ CardFails(i)

(* Promise.all.  Fault: only the health is waited for.                      *)
FaultAllAnswered == render.health # "missing"
AllAnswered == Whole(render)

(* The page replaces the one before, button and all. *)
ShowPage ==
    /\ rendering /\ AllAnswered
    /\ rendering' = FALSE
    /\ page' = render
    /\ button' = "idle" /\ scan' = <<>>
    /\ UNCHANGED <<mock, decided, render, scanned>>

(* The server begins to render the page. *)
Render ==
    /\ rendering' = TRUE
    /\ render' = Blank(decided)

(* The user opens the page again or reloads it, once it is there. *)
Visit ==
    /\ ~rendering
    /\ Render
    /\ UNCHANGED <<mock, decided, page, button, scan, scanned>>

-----------------------------------------------------------------------------
(* handleClick.  The button is disabled while it is pending. *)
ClickScan ==
    /\ Whole(page)
    /\ button # "pending"
    /\ button' = "pending"
    /\ scan' = InstrumentOrder
    /\ UNCHANGED <<mock, decided, rendering, render, page, scanned>>

(* POST /scan decides the next pair. *)
ScanDecides ==
    /\ button = "pending" /\ scan # <<>>
    /\ decided[Head(scan)] < MaxDecisions
    /\ decided' = [decided EXCEPT ![Head(scan)] = @ + 1]
    /\ scan' = Tail(scan)
    /\ UNCHANGED <<mock, rendering, render, page, button, scanned>>

(* After the answer.  Fault: the page is not loaded again.                  *)
FaultReloads == UNCHANGED <<rendering, render>>
Reloads == Render

ScanAnswers ==
    /\ button = "pending" /\ scan = <<>>
    /\ button' = "done"
    /\ scanned' = decided
    /\ Reloads
    /\ UNCHANGED <<mock, decided, page, scan>>

(* An error, or no connection, after any number of pairs. *)
ScanFails ==
    /\ button = "pending"
    /\ button' = "failed" /\ scan' = <<>>
    /\ UNCHANGED <<mock, decided, rendering, render, page, scanned>>

Rendering ==
    \/ HealthAnswers
    \/ \E i \in Instruments : Card(i)
    \/ ShowPage
Scanning == ScanDecides \/ ScanAnswers \/ ScanFails

Next ==
    \/ \E i \in Instruments : OthersDecide(i)
    \/ Visit
    \/ ClickScan
    \/ Rendering
    \/ Scanning

Spec == Init /\ [][Next]_vars

(* Requests are answered or fail; nobody has to visit or click. *)
FairSpec == Spec /\ WF_vars(Rendering) /\ WF_vars(Scanning)

-----------------------------------------------------------------------------
TypeOK ==
    /\ decided \in [Instruments -> 0 .. MaxDecisions]
    /\ scanned \in [Instruments -> 0 .. MaxDecisions]
    /\ render \in PageSet /\ page \in PageSet /\ (page = Blank(None) \/ Whole(page))
    /\ button \in {"idle", "pending", "done", "failed"}
    /\ scan \in Seq(Instruments) /\ (scan # <<>> => button = "pending")

(* A page without an error banner is one to act on: the data banner tells  *)
(* the backend's mode, and every card a decision that was the latest when  *)
(* the render began or came after, whichever requests were slow or failed  *)
(* and whoever scanned meanwhile.                                          *)
ErrorFreeIsCurrent ==
    Whole(page) /\ ~HasError(page) =>
        /\ Banner(page) = IF mock THEN "MOCK" ELSE "LIVE"
        /\ \A i \in Instruments :
              page.cards[i].kind = "decision" /\ page.cards[i].number >= page.since[i]

(* After a successful scan the page is loaded again, and its cards show    *)
(* what the scan decided or later decisions, or that they are unavailable. *)
ScanIsShown ==
    \A i \in Instruments, n \in 1 .. MaxDecisions :
        (button = "done" /\ scanned[i] = n) ~>
            (button = "idle" /\ (page.cards[i] = Fallback \/ \E m \in n .. MaxDecisions :
                                    page.cards[i] = Decision(m)))

-----------------------------------------------------------------------------
(* The deployment checklist: the "banner shows LIVE (or the actual data    *)
(* status)".                                                               *)
LiveBannerIsLive == Whole(page) /\ Banner(page) = "LIVE" => ~mock /\ page.health = "live"
=============================================================================
