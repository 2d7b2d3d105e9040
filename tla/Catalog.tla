------------------------------ MODULE Catalog ------------------------------
(***************************************************************************)
(* GammaMarketCatalog::resolve: the market it makes of the two answers it  *)
(* asks for, Gamma's market and the crypto-price service's prices of the   *)
(* window.  Prices of outcomes are in cents.  A field resolve requires is  *)
(* there or not, whichever it is.                                          *)
(***************************************************************************)
EXTENDS Naturals, Sequences

None == "none"        \* no strike; no outcome known to have won
NoAnswer == [openPrice |-> None, completed |-> FALSE, incomplete |-> FALSE]
Error == [status |-> "error", strike |-> None, outcomes |-> <<>>, winner |-> None]

\* Gamma's answer.  full: it has the question, the condition, the outcomes, the tokens,
\* the active flag and an event with its times; upOrDown: it has the tag.
GammaAnswers ==
  [full : BOOLEAN, active : BOOLEAN, upOrDown : BOOLEAN, tokens : 0..2,
   outcomes : {<<>>, <<"Up", "Down">>},
   prices : {<<>>, <<99, 1>>, <<50, 50>>, <<1, 99>>, <<99, 99>>, <<99>>}]

\* The price service's answer; NoAnswer if the request or the parsing of it fails.
CryptoPrices == [openPrice : {"price"}, completed : BOOLEAN, incomplete : BOOLEAN]

-----------------------------------------------------------------------------

\* The last of the dearest outcomes, if it is as good as certain.
WinningOutcome(outcomes, prices) ==
  IF outcomes = <<>> \/ Len(outcomes) # Len(prices) THEN None
  ELSE LET dearest == {i \in DOMAIN prices : \A j \in DOMAIN prices : prices[j] <= prices[i]}
           last == CHOOSE i \in dearest : \A j \in dearest : j <= i
       IN IF prices[last] >= 99 THEN outcomes[last] ELSE None

\* There has to be one token per outcome.
OutcomesMapped(g) == g.tokens = Len(g.outcomes)

MarketType(g) == IF g.upOrDown THEN "UpDown" ELSE "Other"

\* closed: closes_at has passed.  The clock is read twice; that the market closes between
\* the two reads, which gives Pending, is left out: every reader takes it as Resolving.
Status(g, c, closed) ==
  CASE c.completed \/ closed -> "Resolved"
    [] ~c.completed /\ ~closed /\ c.incomplete /\ g.active -> "Open"
    [] OTHER -> "Resolving"

Strike(g, c) == IF MarketType(g) = "UpDown" THEN c.openPrice ELSE None

Winner(g, status) ==
  IF status = "Resolved" THEN WinningOutcome(g.outcomes, g.prices) ELSE None

Resolve(g, c, closed) ==
  IF ~g.full \/ ~OutcomesMapped(g) \/ c = NoAnswer THEN Error
  ELSE [status |-> Status(g, c, closed), strike |-> Strike(g, c),
        outcomes |-> g.outcomes, winner |-> Winner(g, Status(g, c, closed))]

-----------------------------------------------------------------------------

\* What resolve may return of a market that has closed, and of one that has not, whose
\* prices are not complete then.
Markets ==
  [closed \in BOOLEAN |->
     {Resolve(g, c, closed) : g \in GammaAnswers,
                              c \in {NoAnswer} \cup {p \in CryptoPrices : p.completed => closed}}
     \ {Error}]

Statuses == [closed \in BOOLEAN |-> {mkt.status : mkt \in Markets[closed]}]
=============================================================================
