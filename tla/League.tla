------------------------------- MODULE League -------------------------------
(***************************************************************************)
(* The prediction league (packages/league): a book of markets, balances    *)
(* and holdings, and the pure operations that take one book to the next.   *)
(* Every one of them is exported and whoever holds a book may call them in *)
(* any order: a market may be settled that was never closed. One that      *)
(* throws leaves the book it was given.                                    *)
(*                                                                         *)
(* Points are whole numbers and the cost of a market's shares is the table *)
(* Cost; prices are a function of the shares, which stand for them.        *)
(***************************************************************************)
EXTENDS Integers

CONSTANTS
    Members, Outcomes,
    Markets,        \* market id -> [kind, closesAt, subject]
    OwnerOf,        \* session -> the member it belongs to
    Starting,       \* points a member starts with
    Cost,           \* shares per outcome -> points, the market maker's function
    TimeOutcome,    \* minutes of a verified run -> the outcome it is settled on
    MaxTs, MaxTrades, MaxEvents

VARIABLES
    gBook,
    gVerified,      \* history: the markets an authoritative result has settled
    gTrades, gEvents

leagueVars == <<gBook, gVerified, gTrades, gEvents>>

\* Every combination of shares the market maker can price.
Priced == DOMAIN Cost
NoShares == [o \in Outcomes |-> 0]
Positions == Members \X DOMAIN Markets

\* A new market sells nothing yet and is open.
CreateMarket == [status |-> "open", shares |-> NoShares, resolved |-> "none"]

CreateLeague ==
    [ markets     |-> [k \in DOMAIN Markets |-> CreateMarket],
      balances    |-> [m \in Members |-> Starting],
      holdings    |-> [p \in Positions |-> NoShares],
      spent       |-> [p \in Positions |-> 0],   \* sum of the costs of its trades
      traded      |-> {},                        \* positions with a trade
      flagged     |-> {},
      voided      |-> {},
      forecasts   |-> [k \in {} |-> {}],
      resolutions |-> [k \in {} |-> "none"] ]

InitLeague ==
    /\ gBook = CreateLeague
    /\ gVerified = {}
    /\ gTrades = 0
    /\ gEvents = 0
-----------------------------------------------------------------------------
(* From one book to the next.                                              *)

FaultyTradable(market) == market.status # "resolved"
Tradable(market) == market.status = "open"

After(market, o, n) == [market.shares EXCEPT ![o] = @ + n]

\* What trade and placeTrade refuse to do throws.
TradeAllowed(book, m, k, o, n) ==
    LET market == book.markets[k]
    IN  /\ Tradable(market)
        /\ book.holdings[<<m, k>>][o] + n >= 0
        /\ After(market, o, n) \in Priced
        /\ Cost[After(market, o, n)] - Cost[market.shares] <= book.balances[m]

OwnAgent(m, k) ==
    "subject" \in DOMAIN Markets[k] /\ OwnerOf[Markets[k].subject] = m

PlaceTrade(book, m, k, o, n) ==
    LET cost == Cost[After(book.markets[k], o, n)] - Cost[book.markets[k].shares]
        position == <<m, k>>
    IN  [book EXCEPT
            !.markets[k].shares = After(book.markets[k], o, n),
            !.balances[m] = @ - cost,
            !.holdings[position][o] = @ + n,
            !.spent[position] = @ + cost,
            !.traded = @ \cup {position},
            !.flagged = IF OwnAgent(m, k) THEN @ \cup {position} ELSE @]

Closed(status) == IF status = "open" THEN "closed" ELSE status

\* Whoever traded in a market forecasts what its prices say at the close.
Forecast(book, k) ==
    [m \in {m \in Members : <<m, k>> \in book.traded} |-> book.markets[k].shares]

\* closeLeagueMarket, one after the other: each touches its own market and forecast.
CloseLeagueMarkets(book, ks) ==
    [book EXCEPT
        !.markets = [k \in DOMAIN Markets |->
            IF k \in ks THEN [book.markets[k] EXCEPT !.status = Closed(@)]
            ELSE book.markets[k]],
        !.forecasts = [k \in DOMAIN book.forecasts \cup ks |->
            IF k \in ks THEN Forecast(book, k) ELSE book.forecasts[k]]]

CloseDueMarkets(book, ts) ==
    CloseLeagueMarkets(book, {k \in DOMAIN Markets :
                                 book.markets[k].status = "open" /\ Markets[k].closesAt <= ts})

\* A resolved market may be resolved again; only a void one refuses.
Resolvable(book, k, o) == o \in Outcomes /\ book.markets[k].status # "void"

SettleMarket(book, k, o) ==
    [book EXCEPT
        !.balances = [m \in Members |-> @[m] + book.holdings[<<m, k>>][o]],
        !.markets[k] = [@ EXCEPT !.status = "resolved", !.resolved = o],
        !.resolutions = [j \in DOMAIN @ \cup {k} |-> IF j = k THEN o ELSE @[j]]]

Voidable(book, k) == book.markets[k].status # "resolved"

VoidAndRefund(book, k) ==
    [book EXCEPT
        !.balances = [m \in Members |-> @[m] + book.spent[<<m, k>>]],
        !.markets[k].status = "void"]

\* Only a member's position on a session of their own, and once.
Withdrawable(book, position) ==
    position \in book.flagged /\ position \notin book.voided

VoidFlaggedPosition(book, m, k) ==
    [book EXCEPT
        !.balances[m] = @ + book.spent[<<m, k>>],
        !.holdings[<<m, k>>] = NoShares,
        !.voided = @ \cup {<<m, k>>}]

\* An authoritative result closes what is due, then closes and settles the
\* market it names; a duel without a winner is refunded.
SettledBy(book, k, o) == SettleMarket(CloseLeagueMarkets(book, {k}), k, o)

\* The markets calibrationLeaderboard scores a member on: settled ones with a
\* forecast of theirs.
Samples(book, m) ==
    {k \in DOMAIN book.resolutions \cap DOMAIN book.forecasts :
        m \in DOMAIN book.forecasts[k]}
-----------------------------------------------------------------------------
Trade(m, k, o, n) ==
    /\ gTrades < MaxTrades
    /\ gTrades' = gTrades + 1
    /\ TradeAllowed(gBook, m, k, o, n)
    /\ gBook' = PlaceTrade(gBook, m, k, o, n)
    /\ UNCHANGED <<gVerified, gEvents>>

Event ==
    /\ gEvents < MaxEvents
    /\ gEvents' = gEvents + 1
    /\ UNCHANGED gTrades

Settle(k, ts, o) ==
    LET book == CloseDueMarkets(gBook, ts)
    IN  /\ Resolvable(book, k, o)
        /\ gBook' = SettledBy(book, k, o)
        /\ gVerified' = gVerified \cup {k}

ResultArrives(k, ts) ==
    /\ Event
    /\ \/ /\ Markets[k].kind \in {"ci", "duel"}
          /\ \E o \in Outcomes : Settle(k, ts, o)
       \/ /\ Markets[k].kind = "time"
          /\ \E minutes \in DOMAIN TimeOutcome : Settle(k, ts, TimeOutcome[minutes])
       \/ /\ Markets[k].kind = "duel"
          /\ Voidable(CloseDueMarkets(gBook, ts), k)
          /\ gBook' = VoidAndRefund(CloseDueMarkets(gBook, ts), k)
          /\ UNCHANGED gVerified

\* Any other event only closes what is due.
TimePasses(ts) ==
    /\ Event
    /\ gBook' = CloseDueMarkets(gBook, ts)
    /\ UNCHANGED gVerified

\* closeLeagueMarket and settleMarket by themselves, whatever the market's status.
Close(k) ==
    /\ Event
    /\ gBook' = CloseLeagueMarkets(gBook, {k})
    /\ UNCHANGED gVerified

Decide(k, o) ==
    /\ Event
    /\ Resolvable(gBook, k, o)
    /\ gBook' = SettleMarket(gBook, k, o)
    /\ UNCHANGED gVerified

Intervene(m, k) ==
    /\ Event
    /\ Withdrawable(gBook, <<m, k>>)
    /\ gBook' = VoidFlaggedPosition(gBook, m, k)
    /\ UNCHANGED gVerified

CallOff(k) ==
    /\ Event
    /\ Voidable(gBook, k)
    /\ gBook' = VoidAndRefund(gBook, k)
    /\ UNCHANGED gVerified

NextLeague ==
    \/ \E m \in Members, k \in DOMAIN Markets, o \in Outcomes, n \in {-1, 1} :
           Trade(m, k, o, n)
    \/ \E k \in DOMAIN Markets, ts \in 0 .. MaxTs : ResultArrives(k, ts)
    \/ \E ts \in 0 .. MaxTs : TimePasses(ts)
    \/ \E k \in DOMAIN Markets : Close(k)
    \/ \E k \in DOMAIN Markets, o \in Outcomes : Decide(k, o)
    \/ \E m \in Members, k \in DOMAIN Markets : Intervene(m, k)
    \/ \E k \in DOMAIN Markets : CallOff(k)

\* A forecast is what the prices are, for exactly those who traded in the market,
\* for as long as it stands: no trade slips in after the close that made it, and a
\* second close changes nothing. A market settled by an authoritative result scores
\* all who traded in it and nobody else. One settled by settleMarket alone, which
\* closes nothing, has no forecast and scores nobody until it is closed as well
\* (index.ts trade, closeLeagueMarket, applyVerificationEvent,
\* calibrationLeaderboard).
ForecastsAreClosingPrices ==
    /\ \A k \in DOMAIN gBook.forecasts : gBook.forecasts[k] = Forecast(gBook, k)
    /\ \A k \in gVerified, m \in Members :
          k \in Samples(gBook, m) <=> <<m, k>> \in gBook.traded
=============================================================================
